------------------------ MODULE AccountServiceProofs ------------------------
(***************************************************************************)
(* Proofs about the account service, for every set of threads and every    *)
(* number of reconnects, logins and commands: the browser is opened and    *)
(* waited for only for a login of the connection in use, the service tells *)
(* the user interface what it settles on, what it settles on is the        *)
(* account the App Server has, and no login is forgotten.                  *)
(*                                                                         *)
(* BaseInv says where every thread can be, what it then holds and what it  *)
(* captured.  The properties at rest each need more: what is still under   *)
(* way that will set right what is not right yet.  PublishUnderWay,        *)
(* TruthUnderWay and LoginInv name it; each is inductive given SafeInv.    *)
(***************************************************************************)
EXTENDS AccountService, FiniteSetTheorems, SequenceTheorems, TLAPS

ThreadState ==
    [pc : Pc, command : Command, revision : 0..MaxSwitches, connection : Nat,
     task : 0..MaxSwitches, login : 0..MaxLogins,
     reply : Status \cup {"none", "ok", "failed", "browser", "unusable"}]

NoticeState == [kind : {"completed", "updated"}, login : 0..MaxLogins, connection : Nat]

Typed ==
    /\ TypeOK
    /\ thread \in [Threads -> ThreadState]
    /\ loginStart \in [revision : 0..MaxSwitches, ids : Seq(Logins)]
    /\ notices \in Seq(NoticeState)
    /\ nextLogin \in 1..MaxLogins + 1
    /\ unsure \subseteq 0..MaxLogins

BackgroundPc == {"idle", "spawned", "refresh", "reading", "read", "refreshed", "finish"}

\* Where a thread holds the login gate, and where it holds browser_open_operation.
GatePc == {"canceling", "canceled", "prepare", "starting", "started", "opening",
           "scheduling", "undoing", "undone", "undoneStatus", "leaving", "loggingOut",
           "loggedOut"}

BrowserPc == {"opening", "scheduling"}

\* What is known of a thread that is at h.pc.
FlowOK(t, h) ==
    /\ t \in Background => h.pc \in BackgroundPc
    /\ t \in Callers => h.pc \notin {"spawned", "finish"}
    /\ h.pc \in {"gate", "canceling", "canceled"} => h.command # "getStatus"
    /\ h.pc \in {"canceling", "canceled", "opening", "undoing", "undone"} => h.login \in Logins
    /\ h.pc \in {"canceled", "undone"} => h.reply \in {"ok", "failed"}
    /\ h.pc = "started" => /\ h.reply \in {"browser", "unusable", "failed"}
                           /\ h.reply # "failed" => h.login \in Logins
    /\ h.pc = "read" => h.reply \in Account \cup {"unavailable"}

Flow == \A t \in Threads : FlowOK(t, thread[t])

Captured ==
    /\ \A t \in Threads : thread[t].revision <= revision /\ thread[t].task <= revision
    /\ loginStart.revision <= revision
    /\ reader <= revision

Locks ==
    \A t \in Callers :
        /\ thread[t].pc \in GatePc => loginLock = t
        /\ thread[t].pc \in BrowserPc => browserLock = t /\ IsCurrent(thread[t].revision)

\* b refreshes for the connection in use.
Refreshes(b) == b \in Background /\ ~At(b, "idle") /\ thread[b].task = revision

RefreshesGood ==
    /\ \A a, b \in Background : Refreshes(a) /\ Refreshes(b) => a = b
    /\ \A b \in Background : Refreshes(b) => background # "idle"
    /\ background # "idle" =>
          /\ connection # 0
          /\ \E b \in Background : Refreshes(b) /\ (At(b, "spawned") <=> background = "scheduled")

BaseInv == Typed /\ Flow /\ Captured /\ Locks /\ PendingHasAttempt /\ RefreshesGood

\* The notifications that wait; completions name logins.
Queued == {notices[i] : i \in DOMAIN notices}

NoticesGood == \A n \in Queued : n.kind = "completed" => n.login \in Logins

SafeInv == BaseInv /\ NoticesGood

-----------------------------------------------------------------------------

\* A thread at h.pc will tell the user interface the status s.
Tells(h, s) ==
    \/ h.pc \in {"look", "opening", "scheduling", "undoing", "undone", "undoneStatus"}
    \/ h.pc \in {"publish", "refreshed"} /\ h.reply = s

PublishUnderWay ==
    revision # 0 =>
        \/ published = status
        \/ status = "checking"
        \/ switching = status
        \/ \E t \in Threads : Tells(thread[t], status)

\* A refresh will still ask the App Server.
RefreshComing ==
    \/ \E n \in Queued : n.kind = "updated" /\ n.connection = connection
    \/ reader = revision
    \/ background \in {"scheduled", "requested"}
    \/ \E t \in Threads : At(t, "refresh")

\* The refresh whose answer would be taken.
LatestReads ==
    latest \in Threads /\ thread[latest].revision = revision
    /\ thread[latest].pc \in {"reading", "read"}

TruthUnderWay ==
    connection # 0 /\ 0 \notin unsure =>
        /\ status \in Account => status = account \/ RefreshComing \/ LatestReads
        /\ LatestReads /\ At(latest, "read") =>
              thread[latest].reply \in {account, "unavailable"} \/ RefreshComing

-----------------------------------------------------------------------------

\* The completion of login is still to be handled.
CompletionComing(login) ==
    \E n \in Queued : n.kind = "completed" /\ n.login = login /\ n.connection = connection

CompletedEarly(login) ==
    loginStart.revision = revision /\ \E i \in DOMAIN loginStart.ids : loginStart.ids[i] = login

\* A thread at h.pc answers for login: it will install it or cancel it.
Holds(h, login) ==
    h.login = login /\ (h.pc = "undoing" \/ (h.pc = "started" /\ h.reply # "failed"))

\* Logins are numbered in the order in which they start.
Numbered ==
    /\ attempt < nextLogin
    /\ \A l \in Logins : l >= nextLogin => logins[l] = "none"
    /\ connection = 0 => \A l \in Logins : logins[l] # "active"

Distinct(ids) == \A i, j \in DOMAIN ids : ids[i] = ids[j] => i = j

NotActive(login) == login \in Logins /\ login < nextLogin /\ logins[login] # "active"

\* What was reported as completed is over.
OverGood ==
    /\ \A n \in Queued : n.kind = "completed" => NotActive(n.login)
    /\ \A i \in DOMAIN loginStart.ids : NotActive(loginStart.ids[i])
    /\ Distinct(loginStart.ids)

\* What a caller at h.pc knows of its login and of the attempt.
Knows(h) ==
    /\ h.login < nextLogin
    /\ h.pc \in {"canceled", "undone"} =>
          IF h.reply = "ok" THEN NotActive(h.login) ELSE h.login \in unsure
    /\ h.pc \in {"prepare", "starting", "started"} => attempt = 0
    /\ h.pc = "starting" => h.connection # 0
    /\ h.pc \in {"canceling", "canceled", "opening", "undoing", "undone"} =>
          attempt \in {0, h.login}
    /\ h.pc \in {"starting", "started"} /\ IsCurrent(h.revision) =>
          loginStart.revision = revision
    /\ h.pc = "started" /\ h.reply # "failed" /\ IsCurrent(h.revision) =>
          \/ logins[h.login] \in {"active", "dropped"}
          \/ CompletionComing(h.login)
          \/ CompletedEarly(h.login)
          \/ h.login \in unsure

CallersKnow == \A t \in Callers : Knows(thread[t])

\* Nobody forgets a login that is under way, and the attempt is one.
ActiveKnown ==
    \A l \in Logins : logins[l] = "active" =>
        l = attempt \/ l \in unsure \/ \E t \in Callers : Holds(thread[t], l)

AttemptGood ==
    attempt # 0 => \/ logins[attempt] \in {"active", "dropped"}
                   \/ attempt \in unsure
                   \/ CompletionComing(attempt)

LoginInv == Numbered /\ OverGood /\ CallersKnow /\ ActiveKnown /\ AttemptGood

-----------------------------------------------------------------------------
(***************************************************************************)
(* BaseInv: one thread moves.                                              *)
(***************************************************************************)
LEMMA AccountFacts ==
    /\ Callers \cap Background = {} /\ Threads = Callers \cup Background
    /\ NoThread \notin Threads
    /\ MaxSwitches \in Nat /\ MaxLogins \in Nat /\ MaxEarly \in Nat /\ MaxEarly > 0
    /\ \A l \in Logins : l \in Nat /\ l # 0 /\ l <= MaxLogins /\ l \in 0..MaxLogins
    /\ Idle \in ThreadState
    /\ Idle = [pc |-> "idle", command |-> "getStatus", revision |-> 0, connection |-> 0,
               task |-> 0, login |-> 0, reply |-> "none"]
<1>1. /\ Callers \cap Background = {} /\ Threads = Callers \cup Background
      /\ NoThread \notin Threads
      /\ MaxSwitches \in Nat /\ MaxLogins \in Nat /\ MaxEarly \in Nat /\ MaxEarly > 0
  BY AccountAssumption DEF Threads
<1>2. \A l \in Logins : l \in Nat /\ l # 0 /\ l <= MaxLogins /\ l \in 0..MaxLogins
  BY <1>1 DEF Logins
<1>3. Idle \in ThreadState
  BY <1>1 DEF Idle, ThreadState, Pc, Command
<1>4. QED
  BY <1>1, <1>2, <1>3 DEF Idle

LEMMA ThreadTyped ==
    ASSUME BaseInv, NEW t \in Threads
    PROVE  /\ thread[t] \in ThreadState
           /\ thread[t].pc \in Pc /\ thread[t].command \in Command
           /\ thread[t].revision \in 0..MaxSwitches /\ thread[t].revision \in Nat
           /\ thread[t].connection \in Nat
           /\ thread[t].task \in 0..MaxSwitches /\ thread[t].task \in Nat
           /\ thread[t].login \in 0..MaxLogins /\ thread[t].login \in Nat
           /\ thread[t].revision <= revision /\ thread[t].task <= revision
           /\ FlowOK(t, thread[t])
           /\ revision \in 0..MaxSwitches /\ revision \in Nat
<1>1. thread[t] \in ThreadState
  BY DEF BaseInv, Typed
<1>2. /\ thread[t].pc \in Pc /\ thread[t].command \in Command
      /\ thread[t].revision \in 0..MaxSwitches /\ thread[t].connection \in Nat
      /\ thread[t].task \in 0..MaxSwitches /\ thread[t].login \in 0..MaxLogins
  BY <1>1 DEF ThreadState
<1>3. revision \in 0..MaxSwitches
  BY DEF BaseInv, Typed, TypeOK
<1>4. thread[t].revision \in Nat /\ thread[t].task \in Nat /\ thread[t].login \in Nat
      /\ revision \in Nat
  BY <1>2, <1>3, AccountFacts
<1>5. /\ thread[t].revision <= revision /\ thread[t].task <= revision
      /\ FlowOK(t, thread[t])
  BY DEF BaseInv, Flow, Captured
<1>6. QED
  BY <1>1, <1>2, <1>3, <1>4, <1>5

\* t goes on as h and changes neither the connection nor the background refresh.
Moves(t, h) ==
    /\ h \in ThreadState
    /\ FlowOK(t, h)
    /\ h.revision <= revision /\ h.task <= revision
    /\ thread' = [thread EXCEPT ![t] = h]
    /\ UNCHANGED <<connection, revision, background, reader>>
    /\ \/ t \in Callers
       \/ /\ h.task = thread[t].task
          /\ {h.pc, thread[t].pc} \cap {"idle", "spawned"} = {}
    /\ \A u \in Callers : u # t => /\ loginLock = u => loginLock' = u
                                   /\ browserLock = u => browserLock' = u
    /\ t \in Callers =>
          /\ h.pc \in GatePc => loginLock' = t
          /\ h.pc \in BrowserPc => browserLock' = t /\ IsCurrent(h.revision)

LEMMA MoveKeeps ==
    ASSUME BaseInv, NEW t \in Threads, NEW h, Moves(t, h)
    PROVE  /\ thread' \in [Threads -> ThreadState]
           /\ thread'[t] = h
           /\ \A u \in Threads : u # t => thread'[u] = thread[u]
           /\ Flow'
           /\ \A u \in Threads : thread'[u].revision <= revision' /\ thread'[u].task <= revision'
           /\ Locks'
           /\ RefreshesGood'
<1>1. /\ thread' \in [Threads -> ThreadState]
      /\ thread'[t] = h
      /\ \A u \in Threads : u # t => thread'[u] = thread[u]
  BY DEF Moves, BaseInv, Typed
<1>2. Flow'
  BY <1>1 DEF Moves, BaseInv, Flow
<1>3. \A u \in Threads : thread'[u].revision <= revision' /\ thread'[u].task <= revision'
  BY <1>1 DEF Moves, BaseInv, Captured
<1>4. Locks'
  <2>1. ASSUME NEW u \in Callers
        PROVE  /\ thread'[u].pc \in GatePc => loginLock' = u
               /\ thread'[u].pc \in BrowserPc =>
                     browserLock' = u /\ IsCurrent(thread[u].revision)'
    <3>1. u \in Threads
      BY AccountFacts
    <3>2. CASE u = t
      BY <1>1, <3>2 DEF Moves, IsCurrent
    <3>3. CASE u # t
      BY <1>1, <3>1, <3>3 DEF Moves, BaseInv, Locks, IsCurrent
    <3>4. QED
      BY <3>2, <3>3
  <2>2. QED
    BY <2>1 DEF Locks
<1>5. RefreshesGood'
  <2>1. \A b \in Background : /\ Refreshes(b)' <=> Refreshes(b)
                              /\ At(b, "spawned")' <=> At(b, "spawned")
    BY <1>1, AccountFacts DEF Moves, Refreshes, At
  <2>2. QED
    BY <2>1 DEF Moves, BaseInv, RefreshesGood
<1>6. QED
  BY <1>1, <1>2, <1>3, <1>4, <1>5

(***************************************************************************)
(* What is left to show of a step that only moves t.                       *)
(***************************************************************************)
LEMMA MoveStep ==
    ASSUME BaseInv, NEW t \in Threads, NEW h, Moves(t, h),
           loginStart' \in [revision : 0..MaxSwitches, ids : Seq(Logins)],
           loginStart'.revision <= revision, Len(loginStart'.ids) <= MaxEarly,
           attempt' \in 0..MaxLogins, latest' \in Threads \cup {NoThread},
           status' \in Status, published' \in Status \cup {"none"}, UNCHANGED switching,
           loginLock' \in Callers \cup {NoThread}, browserLock' \in Callers \cup {NoThread},
           account' \in Account,
           logins' \in [Logins -> {"none", "active", "dropped", "reloading", "over"}],
           notices' \in Seq(NoticeState), nextLogin' \in 1..MaxLogins + 1,
           unsure' \subseteq 0..MaxLogins, PendingHasAttempt'
    PROVE  BaseInv'
<1>1. /\ thread' \in [Threads -> ThreadState]
      /\ Flow' /\ Locks' /\ RefreshesGood'
      /\ \A u \in Threads : thread'[u].revision <= revision' /\ thread'[u].task <= revision'
  BY MoveKeeps
<1>2. Captured'
  BY <1>1 DEF Captured, Moves, BaseInv
<1>3. \A u \in Threads : /\ thread'[u].pc \in Pc
                         /\ thread'[u].reply \in Status \cup {"none", "ok", "failed",
                                                              "browser", "unusable"}
  BY <1>1 DEF ThreadState
<1>4. TypeOK'
  BY <1>3 DEF TypeOK, Moves, BaseInv, Typed
<1>5. QED
  BY <1>1, <1>2, <1>4 DEF BaseInv, Typed

(***************************************************************************)
(* BaseInv: the steps that only move a thread.                             *)
(***************************************************************************)
\* The facts every such step starts from.
LEMMA StateTyped ==
    ASSUME BaseInv
    PROVE  /\ loginStart \in [revision : 0..MaxSwitches, ids : Seq(Logins)]
           /\ loginStart.revision <= revision /\ Len(loginStart.ids) <= MaxEarly
           /\ attempt \in 0..MaxLogins /\ latest \in Threads \cup {NoThread}
           /\ status \in Status /\ published \in Status \cup {"none"}
           /\ loginLock \in Callers \cup {NoThread} /\ browserLock \in Callers \cup {NoThread}
           /\ account \in Account
           /\ logins \in [Logins -> {"none", "active", "dropped", "reloading", "over"}]
           /\ notices \in Seq(NoticeState) /\ nextLogin \in 1..MaxLogins + 1
           /\ unsure \subseteq 0..MaxLogins /\ PendingHasAttempt
           /\ revision \in 0..MaxSwitches /\ connection \in Nat
<1>1. revision \in 0..MaxSwitches
  BY DEF BaseInv, Typed, TypeOK
<1>2. connection \in Nat
  BY <1>1, AccountFacts DEF BaseInv, Typed, TypeOK
<1>3. QED
  BY <1>1, <1>2 DEF BaseInv, Typed, TypeOK, Captured

LEMMA ExecuteBase ==
    ASSUME BaseInv, NEW t \in Callers, NEW command \in Command, Execute(t, command)
    PROVE  BaseInv'
<1> DEFINE h == [Idle EXCEPT !.command = command,
                       !.pc = IF connection = 0 THEN "publish"
                              ELSE IF command = "getStatus" THEN "refresh" ELSE "gate",
                       !.reply = IF connection = 0 THEN "unavailable" ELSE "none"]
<1>1. h \in ThreadState
  BY AccountFacts DEF ThreadState, Pc, Status, Idle
<1>2. FlowOK(t, h)
  BY AccountFacts DEF FlowOK, Idle
<1>3. h.pc \notin GatePc /\ h.pc \notin BrowserPc /\ h.revision = 0 /\ h.task = 0
  BY DEF GatePc, BrowserPc, Idle
<1>4. Moves(t, h)
  BY <1>1, <1>2, <1>3, StateTyped, AccountFacts
  DEF Moves, Execute, stateVars, lockVars
<1>5. QED
  BY <1>4, StateTyped, MoveStep, AccountFacts
  DEF Execute, stateVars, publicVars, lockVars, serverVars, otherServerVars,
      PendingHasAttempt

LEMMA PublishBase ==
    ASSUME BaseInv, NEW t \in Callers, Publish(t)
    PROVE  BaseInv'
<1>1. FlowOK(t, Idle) /\ Idle.pc \notin GatePc \cup BrowserPc
  BY AccountFacts DEF FlowOK, Idle, BackgroundPc, GatePc, BrowserPc
<1>2. Moves(t, Idle)
  BY <1>1, StateTyped, AccountFacts DEF Moves, Publish, stateVars, lockVars
<1>3. QED
  BY <1>2, StateTyped, MoveStep, AccountFacts
  DEF Publish, PublishStatus, stateVars, lockVars, serverVars, otherServerVars,
      PendingHasAttempt

\* The record of a thread that returns reply.
Returned(reply) == [Idle EXCEPT !.pc = "publish", !.reply = reply]

LEMMA ReturnMoves ==
    ASSUME BaseInv, NEW t \in Callers, NEW reply \in Status, Return(t, reply),
           UNCHANGED <<connection, revision, background, reader>>,
           \A u \in Callers : u # t /\ browserLock = u => browserLock' = u
    PROVE  Moves(t, Returned(reply)) /\ loginLock' \in Callers \cup {NoThread}
<1>1. Returned(reply) \in ThreadState
  BY AccountFacts DEF ThreadState, Pc, Returned, Idle
<1>2. FlowOK(t, Returned(reply))
  BY AccountFacts DEF FlowOK, Returned, Idle
<1>3. /\ Returned(reply).pc \notin GatePc \cup BrowserPc
      /\ Returned(reply).revision = 0 /\ Returned(reply).task = 0
  BY DEF GatePc, BrowserPc, Returned, Idle
<1>4. thread' = [thread EXCEPT ![t] = Returned(reply)]
  BY DEF Return, Returned
<1>5. /\ loginLock' \in Callers \cup {NoThread}
      /\ \A u \in Callers : u # t /\ loginLock = u => loginLock' = u
  BY StateTyped DEF Return
<1>6. QED
  BY <1>1, <1>2, <1>3, <1>4, <1>5, StateTyped, AccountFacts DEF Moves

LEMMA LookAtStatusBase ==
    ASSUME BaseInv, NEW t \in Callers, LookAtStatus(t)
    PROVE  BaseInv'
<1>1. Moves(t, Returned(status)) /\ loginLock' \in Callers \cup {NoThread}
  BY StateTyped, ReturnMoves DEF LookAtStatus, stateVars
<1>2. QED
  BY <1>1, StateTyped, MoveStep, AccountFacts
  DEF LookAtStatus, stateVars, publicVars, serverVars, otherServerVars, PendingHasAttempt

\* What AfterCancel does for the commands that reach it.
LEMMA AfterCancelCases ==
    ASSUME NEW command \in Command, command # "getStatus"
    PROVE  AfterCancel(command) \in {"prepare", "refresh", "leaving"}
BY DEF AfterCancel, Command

LEMMA EnterGateBase ==
    ASSUME BaseInv, NEW t \in Callers, EnterGate(t)
    PROVE  BaseInv'
<1>0. t \in Threads
  BY AccountFacts
<1>1. thread[t].command \in Command /\ thread[t].command # "getStatus"
  BY <1>0, ThreadTyped DEF FlowOK, EnterGate, At
<1>2. PICK p \in {"prepare", "refresh", "leaving", "canceling"} :
        /\ p = IF attempt = 0 THEN AfterCancel(thread[t].command) ELSE "canceling"
        /\ p = "canceling" => attempt # 0
  BY <1>1, AfterCancelCases
<1> DEFINE h == [thread[t] EXCEPT !.pc = p, !.login = attempt, !.revision = revision,
                                  !.connection = connection]
<1>3. h \in ThreadState
  BY <1>0, StateTyped, ThreadTyped, ZenonT(40) DEF ThreadState, Pc, Asking
<1>4. /\ h.login = attempt /\ h.command = thread[t].command /\ h.revision = revision
      /\ h.task = thread[t].task /\ h.pc = p
  BY <1>0, ThreadTyped DEF ThreadState
<1>5. FlowOK(t, h)
  BY <1>1, <1>2, <1>4, StateTyped, AccountFacts DEF FlowOK, Logins
<1>6. thread' = [thread EXCEPT ![t] = h]
  BY <1>2 DEF EnterGate
<1> HIDE DEF h
<1>7. h.revision <= revision /\ h.task <= revision
  BY <1>0, <1>4, ThreadTyped
<1>8. \A u \in Callers : loginLock # u
  BY AccountFacts DEF EnterGate
<1>9. Moves(t, h)
  BY <1>2, <1>3, <1>4, <1>5, <1>6, <1>7, <1>8 DEF Moves, EnterGate, stateVars, BrowserPc
<1>10. QED
  BY <1>0, <1>9, StateTyped, MoveStep, AccountFacts
  DEF EnterGate, stateVars, publicVars, serverVars, otherServerVars, PendingHasAttempt

\* A thread that only changes where it is.
At2(t, where) == [thread[t] EXCEPT !.pc = where]

LEMMA GotoMoves ==
    ASSUME BaseInv, NEW t \in Callers, NEW where \in Pc, Goto(t, where),
           UNCHANGED <<connection, revision, background, reader>>,
           \A u \in Callers : u # t => /\ loginLock = u => loginLock' = u
                                       /\ browserLock = u => browserLock' = u,
           FlowOK(t, At2(t, where)),
           where \in GatePc => loginLock' = t,
           where \in BrowserPc => browserLock' = t /\ IsCurrent(thread[t].revision)
    PROVE  Moves(t, At2(t, where))
<1>0. t \in Threads
  BY AccountFacts
<1>1. /\ At2(t, where) \in ThreadState
      /\ At2(t, where).pc = where
      /\ At2(t, where).revision = thread[t].revision
      /\ At2(t, where).task = thread[t].task
  BY <1>0, ThreadTyped DEF ThreadState, At2
<1>2. thread' = [thread EXCEPT ![t] = At2(t, where)]
  BY DEF Goto, At2
<1>3. QED
  BY <1>0, <1>1, <1>2, ThreadTyped DEF Moves

LEMMA At2Flow ==
    ASSUME BaseInv, NEW t \in Callers,
           NEW where \in {"prepare", "refresh", "leaving", "look", "undoneStatus", "scheduling"}
    PROVE  FlowOK(t, At2(t, where)) /\ where \in Pc
<1>0. t \in Threads /\ t \notin Background
  BY AccountFacts
<1>1. At2(t, where).pc = where
  BY <1>0, ThreadTyped DEF ThreadState, At2
<1>2. QED
  BY <1>0, <1>1 DEF FlowOK, Pc

LEMMA ClearedTyped ==
    ASSUME BaseInv, NEW login, Cleared(login), UNCHANGED connection
    PROVE  /\ attempt' \in 0..MaxLogins /\ latest' \in Threads \cup {NoThread}
           /\ status' \in Status /\ PendingHasAttempt'
BY StateTyped, AccountFacts DEF Cleared, PendingHasAttempt, Status, Account

LEMMA CancelAnsweredBase ==
    ASSUME BaseInv, NEW t \in Callers, CancelAnswered(t)
    PROVE  BaseInv'
<1>0. t \in Threads /\ loginLock = t
  BY AccountFacts DEF BaseInv, Locks, CancelAnswered, At, GatePc
<1>1. thread[t].command \in Command /\ thread[t].command # "getStatus"
  BY <1>0, ThreadTyped DEF FlowOK, CancelAnswered, At
<1>2. UNCHANGED <<connection, revision, loginStart, background, publicVars, browserLock,
                   reader, serverVars>>
  BY DEF CancelAnswered
<1>3. CASE thread[t].reply = "ok"
  <2>1. Cleared(thread[t].login) /\ Goto(t, AfterCancel(thread[t].command))
        /\ UNCHANGED loginLock
    BY <1>3 DEF CancelAnswered
  <2>2. PICK where \in {"prepare", "refresh", "leaving"} : where = AfterCancel(thread[t].command)
    BY <1>1, AfterCancelCases
  <2>3. Moves(t, At2(t, where))
    BY <1>0, <1>2, <2>1, <2>2, GotoMoves, At2Flow DEF BrowserPc
  <2>4. /\ attempt' \in 0..MaxLogins /\ latest' \in Threads \cup {NoThread}
        /\ status' \in Status /\ PendingHasAttempt'
    BY <1>2, <2>1, ClearedTyped
  <2>5. QED
    BY <1>0, <1>2, <2>1, <2>3, <2>4, StateTyped, MoveStep
    DEF publicVars, serverVars, otherServerVars
<1>4. CASE thread[t].reply # "ok"
  <2>1. /\ IF IsCurrent(thread[t].revision) /\ attempt = thread[t].login
               THEN /\ latest' = NoThread
                    /\ status' = "loginError"
               ELSE UNCHANGED <<latest, status>>
        /\ Return(t, status')
        /\ UNCHANGED attempt
    BY <1>4 DEF CancelAnswered
  <2>2. status' \in Status /\ latest' \in Threads \cup {NoThread} /\ PendingHasAttempt'
    BY <1>2, <2>1, StateTyped DEF PendingHasAttempt, Status, Account
  <2>3. Moves(t, Returned(status')) /\ loginLock' \in Callers \cup {NoThread}
    BY <1>2, <2>1, <2>2, ReturnMoves
  <2>4. QED
    BY <1>0, <1>2, <2>1, <2>2, <2>3, StateTyped, MoveStep
    DEF publicVars, serverVars, otherServerVars
<1>5. QED
  BY <1>3, <1>4

LEMMA SetStatusTyped ==
    ASSUME BaseInv, NEW r, SetStatusFor(r, "loginError"), UNCHANGED <<attempt, connection>>
    PROVE  /\ latest' \in Threads \cup {NoThread}
           /\ status' \in Status /\ PendingHasAttempt'
BY StateTyped DEF SetStatusFor, PendingHasAttempt, Status, Account

LEMMA NoLoginStartTyped ==
    ASSUME BaseInv, NEW r
    PROVE  /\ NoLoginStart \in [revision : 0..MaxSwitches, ids : Seq(Logins)]
           /\ NoLoginStart.revision <= revision /\ Len(NoLoginStart.ids) <= MaxEarly
           /\ Discarded(r) \in [revision : 0..MaxSwitches, ids : Seq(Logins)]
           /\ Discarded(r).revision <= revision /\ Len(Discarded(r).ids) <= MaxEarly
<1>1. /\ NoLoginStart \in [revision : 0..MaxSwitches, ids : Seq(Logins)]
      /\ NoLoginStart.revision <= revision /\ Len(NoLoginStart.ids) <= MaxEarly
  BY StateTyped, AccountFacts DEF NoLoginStart
<1>2. QED
  BY <1>1, StateTyped DEF Discarded

LEMMA PrepareLoginBase ==
    ASSUME BaseInv, NEW t \in Callers, PrepareLogin(t)
    PROVE  BaseInv'
<1>0. t \in Threads /\ loginLock = t
  BY AccountFacts DEF BaseInv, Locks, PrepareLogin, At, GatePc
<1>1. UNCHANGED <<connection, revision, background, attempt, publicVars, browserLock,
                  reader, serverVars>>
  BY DEF PrepareLogin
<1>2. CASE connection = 0
  <2>1. /\ latest' = NoThread /\ status' = "loginError" /\ Return(t, status')
        /\ UNCHANGED loginStart
    BY <1>2 DEF PrepareLogin
  <2>2. Moves(t, Returned(status')) /\ loginLock' \in Callers \cup {NoThread}
    BY <1>1, <2>1, ReturnMoves DEF Status
  <2>3. status' \in Status /\ PendingHasAttempt'
    BY <1>1, <2>1, StateTyped DEF PendingHasAttempt, Status, Account
  <2>4. QED
    BY <1>0, <1>1, <2>1, <2>2, <2>3, StateTyped, MoveStep
    DEF publicVars, serverVars, otherServerVars
<1>3. CASE connection # 0
  <2> DEFINE h == [thread[t] EXCEPT !.pc = "starting", !.revision = revision,
                                    !.connection = connection]
  <2> DEFINE start == [revision |-> revision, ids |-> <<>>]
  <2>1. /\ loginStart' = start
        /\ thread' = [thread EXCEPT ![t] = h]
        /\ UNCHANGED <<latest, status, loginLock>>
    BY <1>3 DEF PrepareLogin
  <2>2. h \in ThreadState
    BY <1>0, StateTyped, ThreadTyped, ZenonT(40) DEF ThreadState, Pc, Asking
  <2>3. h.pc = "starting" /\ h.revision = revision /\ h.task = thread[t].task
    BY <1>0, ThreadTyped DEF ThreadState
  <2>4. FlowOK(t, h)
    BY <2>3, AccountFacts DEF FlowOK
  <2>5. h.revision <= revision /\ h.task <= revision
    BY <1>0, <2>3, ThreadTyped
  <2> HIDE DEF h
  <2>6. Moves(t, h)
    BY <1>0, <1>1, <2>1, <2>2, <2>3, <2>4, <2>5 DEF Moves, BrowserPc
  <2>7. /\ start \in [revision : 0..MaxSwitches, ids : Seq(Logins)]
        /\ start.revision <= revision /\ Len(start.ids) <= MaxEarly
    BY StateTyped, AccountFacts
  <2>8. PendingHasAttempt'
    BY <1>1, <2>1, StateTyped DEF PendingHasAttempt
  <2> HIDE DEF start
  <2>9. QED
    BY <1>0, <1>1, <2>1, <2>6, <2>7, <2>8, StateTyped, MoveStep
    DEF publicVars, serverVars, otherServerVars
<1>4. QED
  BY <1>2, <1>3

LEMMA LoginRefusedBase ==
    ASSUME BaseInv, NEW t \in Callers, LoginRefused(t)
    PROVE  BaseInv'
<1>0. t \in Threads /\ loginLock = t
  BY AccountFacts DEF BaseInv, Locks, LoginRefused, At, GatePc
<1>1. /\ UNCHANGED <<connection, revision, background, attempt, publicVars, browserLock,
                     reader, serverVars>>
      /\ loginStart' = Discarded(thread[t].revision)
  BY DEF LoginRefused
<1>2. /\ loginStart' \in [revision : 0..MaxSwitches, ids : Seq(Logins)]
      /\ loginStart'.revision <= revision /\ Len(loginStart'.ids) <= MaxEarly
  BY <1>1, NoLoginStartTyped
<1>3. CASE /\ thread[t].reply = "failed"
           /\ SetStatusFor(thread[t].revision, "loginError")
           /\ Return(t, status')
  <2>1. latest' \in Threads \cup {NoThread} /\ status' \in Status /\ PendingHasAttempt'
    BY <1>1, <1>3, SetStatusTyped
  <2>2. Moves(t, Returned(status')) /\ loginLock' \in Callers \cup {NoThread}
    BY <1>1, <1>3, <2>1, ReturnMoves
  <2>3. QED
    BY <1>0, <1>1, <1>2, <2>1, <2>2, StateTyped, MoveStep
    DEF publicVars, serverVars, otherServerVars
<1>4. CASE /\ thread[t].reply = "unusable"
           /\ Goto(t, "undoing")
           /\ UNCHANGED <<latest, status, loginLock>>
  <2>1. At2(t, "undoing").pc = "undoing" /\ At2(t, "undoing").login \in Logins
    BY <1>0, <1>4, ThreadTyped DEF ThreadState, At2, FlowOK, LoginRefused, At
  <2>2. FlowOK(t, At2(t, "undoing"))
    BY <2>1, AccountFacts DEF FlowOK
  <2>3. Moves(t, At2(t, "undoing"))
    BY <1>0, <1>1, <1>4, <2>2, GotoMoves DEF BrowserPc, Pc, Asking
  <2>4. PendingHasAttempt'
    BY <1>1, <1>4, StateTyped DEF PendingHasAttempt
  <2>5. QED
    BY <1>0, <1>1, <1>2, <1>4, <2>3, <2>4, StateTyped, MoveStep
    DEF publicVars, serverVars, otherServerVars
<1>5. QED
  BY <1>3, <1>4 DEF LoginRefused

LEMMA FinishLoginStartBase ==
    ASSUME BaseInv, NEW t \in Callers, FinishLoginStart(t)
    PROVE  BaseInv'
<1>0. t \in Threads /\ loginLock = t /\ thread[t].login \in Logins
  BY AccountFacts, ThreadTyped
  DEF BaseInv, Locks, FinishLoginStart, At, GatePc, FlowOK
<1>1. /\ UNCHANGED <<connection, revision, background, publicVars, loginLock, reader,
                     serverVars>>
      /\ browserLock = NoThread
      /\ loginStart' = Discarded(thread[t].revision)
  BY DEF FinishLoginStart
<1>2. /\ loginStart' \in [revision : 0..MaxSwitches, ids : Seq(Logins)]
      /\ loginStart'.revision <= revision /\ Len(loginStart'.ids) <= MaxEarly
  BY <1>1, NoLoginStartTyped
<1>3. ASSUME NEW where \in {"undoing", "scheduling", "opening"}
      PROVE  FlowOK(t, At2(t, where)) /\ where \in Pc /\ where \in GatePc
  <2>1. At2(t, where).pc = where /\ At2(t, where).login \in Logins
    BY <1>0, ThreadTyped DEF ThreadState, At2
  <2>2. QED
    BY <2>1, AccountFacts DEF FlowOK, Pc, Asking, GatePc
<1>4. CASE /\ ~Installable(thread[t].revision)
           /\ Goto(t, "undoing")
           /\ UNCHANGED <<attempt, latest, status, browserLock>>
  <2>1. Moves(t, At2(t, "undoing"))
    BY <1>0, <1>1, <1>3, <1>4, GotoMoves DEF BrowserPc
  <2>2. PendingHasAttempt'
    BY <1>1, <1>4, StateTyped DEF PendingHasAttempt
  <2>3. QED
    BY <1>0, <1>1, <1>2, <1>4, <2>1, <2>2, StateTyped, MoveStep
    DEF publicVars, serverVars, otherServerVars
<1>5. CASE Installable(thread[t].revision)
  <2>1. PICK early \in BOOLEAN :
          /\ attempt' = IF early THEN 0 ELSE thread[t].login
          /\ status' = IF early THEN "checking" ELSE "pending"
          /\ Goto(t, IF early THEN "scheduling" ELSE "opening")
          /\ latest' = NoThread
          /\ browserLock' = t
    BY <1>5 DEF FinishLoginStart
  <2>2. PICK where \in {"scheduling", "opening"} :
          where = IF early THEN "scheduling" ELSE "opening"
    OBVIOUS
  <2>3. \A u \in Callers : browserLock # u
    BY <1>1, AccountFacts
  <2>4. Moves(t, At2(t, where))
    BY <1>0, <1>1, <1>3, <1>5, <2>1, <2>2, <2>3, GotoMoves DEF Installable
  <2>5. attempt' \in 0..MaxLogins /\ status' \in Status /\ PendingHasAttempt'
    BY <1>0, <1>1, <1>5, <2>1, AccountFacts
    DEF PendingHasAttempt, Status, Account, Installable, IsCurrent
  <2>6. QED
    BY <1>0, <1>1, <1>2, <2>1, <2>4, <2>5, StateTyped, MoveStep
    DEF publicVars, serverVars, otherServerVars
<1>6. QED
  BY <1>4, <1>5 DEF FinishLoginStart

LEMMA OpenBrowserBase ==
    ASSUME BaseInv, NEW t \in Callers, OpenBrowser(t)
    PROVE  BaseInv'
<1>0. t \in Threads /\ loginLock = t /\ browserLock = t /\ thread[t].login \in Logins
  BY AccountFacts, ThreadTyped
  DEF BaseInv, Locks, OpenBrowser, At, GatePc, BrowserPc, FlowOK
<1>1. UNCHANGED <<stateVars, publicVars, reader, serverVars>> /\ browserLock' = NoThread
  BY DEF OpenBrowser
<1>2. PendingHasAttempt'
  BY <1>1, StateTyped DEF PendingHasAttempt, stateVars
<1>3. CASE Return(t, status)
  <2>1. Moves(t, Returned(status)) /\ loginLock' \in Callers \cup {NoThread}
    BY <1>0, <1>1, <1>3, StateTyped, ReturnMoves DEF stateVars
  <2>2. QED
    BY <1>0, <1>1, <1>2, <2>1, StateTyped, MoveStep
    DEF stateVars, publicVars, serverVars, otherServerVars
<1>4. CASE Goto(t, "undoing") /\ UNCHANGED loginLock
  <2>1. At2(t, "undoing").pc = "undoing" /\ At2(t, "undoing").login \in Logins
    BY <1>0, ThreadTyped DEF ThreadState, At2
  <2>2. FlowOK(t, At2(t, "undoing"))
    BY <2>1, AccountFacts DEF FlowOK
  <2>3. Moves(t, At2(t, "undoing"))
    BY <1>0, <1>1, <1>4, <2>2, GotoMoves DEF BrowserPc, Pc, Asking, stateVars
  <2>4. QED
    BY <1>0, <1>1, <1>2, <1>4, <2>3, StateTyped, MoveStep
    DEF stateVars, publicVars, serverVars, otherServerVars
<1>5. QED
  BY <1>3, <1>4 DEF OpenBrowser

LEMMA UndoAnsweredBase ==
    ASSUME BaseInv, NEW t \in Callers, UndoAnswered(t)
    PROVE  BaseInv'
<1>0. t \in Threads /\ loginLock = t /\ thread[t].login \in Logins
  BY AccountFacts, ThreadTyped DEF BaseInv, Locks, UndoAnswered, At, GatePc, FlowOK
<1>1. UNCHANGED <<connection, revision, loginStart, background, publicVars, lockVars,
                  reader, serverVars>>
  BY DEF UndoAnswered
<1>2. PICK where \in {"undoneStatus", "look"} : Goto(t, where)
  BY DEF UndoAnswered
<1>3. Moves(t, At2(t, where))
  BY <1>0, <1>1, <1>2, GotoMoves, At2Flow DEF BrowserPc, lockVars
<1>4. /\ attempt' \in 0..MaxLogins /\ latest' \in Threads \cup {NoThread}
      /\ status' \in Status /\ PendingHasAttempt'
  <2>1. CASE thread[t].reply = "ok"
    BY <1>1, <2>1, ClearedTyped DEF UndoAnswered
  <2>2. CASE thread[t].reply # "ok"
    BY <1>0, <1>1, <2>2, StateTyped, AccountFacts
    DEF UndoAnswered, IsCurrent, PendingHasAttempt, Status, Account
  <2>3. QED
    BY <2>1, <2>2
<1>5. QED
  BY <1>0, <1>1, <1>3, <1>4, StateTyped, MoveStep
  DEF publicVars, lockVars, serverVars, otherServerVars

LEMMA UndoStatusBase ==
    ASSUME BaseInv, NEW t \in Callers, UndoStatus(t)
    PROVE  BaseInv'
<1>0. t \in Threads
  BY AccountFacts
<1>1. UNCHANGED <<connection, revision, loginStart, background, attempt, publicVars,
                  browserLock, reader, serverVars>>
  BY DEF UndoStatus
<1>2. latest' \in Threads \cup {NoThread} /\ status' \in Status /\ PendingHasAttempt'
  BY <1>1, SetStatusTyped DEF UndoStatus
<1>3. Moves(t, Returned(status')) /\ loginLock' \in Callers \cup {NoThread}
  BY <1>1, <1>2, ReturnMoves DEF UndoStatus
<1>4. QED
  BY <1>0, <1>1, <1>2, <1>3, StateTyped, MoveStep
  DEF publicVars, serverVars, otherServerVars

LEMMA BeginLogoutBase ==
    ASSUME BaseInv, NEW t \in Callers, BeginLogout(t)
    PROVE  BaseInv'
<1>0. t \in Threads /\ loginLock = t
  BY AccountFacts DEF BaseInv, Locks, BeginLogout, At, GatePc
<1>1. UNCHANGED <<stateVars, publicVars, browserLock, reader, serverVars>>
  BY DEF BeginLogout
<1>2. PendingHasAttempt'
  BY <1>1, StateTyped DEF PendingHasAttempt, stateVars
<1>3. CASE connection = 0
  <2>1. Return(t, "logoutError") /\ "logoutError" \in Status
    BY <1>3 DEF BeginLogout, Status
  <2>2. Moves(t, Returned("logoutError")) /\ loginLock' \in Callers \cup {NoThread}
    BY <1>1, <2>1, ReturnMoves DEF stateVars
  <2>3. QED
    BY <1>0, <1>1, <1>2, <2>2, StateTyped, MoveStep
    DEF stateVars, publicVars, serverVars, otherServerVars
<1>4. CASE connection # 0
  <2> DEFINE h == [thread[t] EXCEPT !.pc = "loggingOut", !.revision = revision,
                                    !.connection = connection]
  <2>1. thread' = [thread EXCEPT ![t] = h] /\ UNCHANGED loginLock
    BY <1>4 DEF BeginLogout
  <2>2. h \in ThreadState
    BY <1>0, StateTyped, ThreadTyped, ZenonT(40) DEF ThreadState, Pc, Asking
  <2>3. h.pc = "loggingOut" /\ h.revision = revision /\ h.task = thread[t].task
    BY <1>0, ThreadTyped DEF ThreadState
  <2>4. FlowOK(t, h)
    BY <2>3, AccountFacts DEF FlowOK
  <2>5. h.revision <= revision /\ h.task <= revision
    BY <1>0, <2>3, ThreadTyped
  <2> HIDE DEF h
  <2>6. Moves(t, h)
    BY <1>0, <1>1, <2>1, <2>2, <2>3, <2>4, <2>5 DEF Moves, BrowserPc, stateVars
  <2>7. QED
    BY <1>0, <1>1, <1>2, <2>1, <2>6, StateTyped, MoveStep
    DEF stateVars, publicVars, serverVars, otherServerVars
<1>5. QED
  BY <1>3, <1>4

LEMMA LogoutAnsweredBase ==
    ASSUME BaseInv, NEW t \in Callers, LogoutAnswered(t)
    PROVE  BaseInv'
<1>0. t \in Threads /\ loginLock = t
  BY AccountFacts DEF BaseInv, Locks, LogoutAnswered, At, GatePc
<1>1. UNCHANGED <<stateVars, publicVars, browserLock, reader, serverVars>>
  BY DEF LogoutAnswered
<1>2. PendingHasAttempt'
  BY <1>1, StateTyped DEF PendingHasAttempt, stateVars
<1>3. CASE Return(t, "logoutError")
  <2>1. Moves(t, Returned("logoutError")) /\ loginLock' \in Callers \cup {NoThread}
    BY <1>1, <1>3, ReturnMoves DEF stateVars, Status
  <2>2. QED
    BY <1>0, <1>1, <1>2, <2>1, StateTyped, MoveStep
    DEF stateVars, publicVars, serverVars, otherServerVars
<1>4. ASSUME NEW where \in {"look", "refresh"}, Goto(t, where), UNCHANGED loginLock
      PROVE  BaseInv'
  <2>1. Moves(t, At2(t, where))
    BY <1>0, <1>1, <1>4, GotoMoves, At2Flow DEF BrowserPc, stateVars
  <2>2. QED
    BY <1>0, <1>1, <1>2, <1>4, <2>1, StateTyped, MoveStep
    DEF stateVars, publicVars, serverVars, otherServerVars
<1>5. QED
  BY <1>3, <1>4 DEF LogoutAnswered

(***************************************************************************)
(* BaseInv: the steps of a refresh, of a caller or in the background.      *)
(***************************************************************************)
LEMMA BeginRefreshBase ==
    ASSUME BaseInv, NEW t \in Threads, BeginRefresh(t)
    PROVE  BaseInv'
<1> DEFINE p == IF connection = 0 THEN "read" ELSE "reading"
<1> DEFINE a == IF connection = 0 THEN "unavailable" ELSE "none"
<1> DEFINE h == [thread[t] EXCEPT !.pc = p, !.reply = a, !.revision = revision,
                                  !.connection = connection, !.login = 0]
<1>1. p \in {"read", "reading"} /\ (p = "read" => a = "unavailable")
      /\ a \in {"unavailable", "none"}
  OBVIOUS
<1>2. thread' = [thread EXCEPT ![t] = h]
  BY DEF BeginRefresh
<1> HIDE DEF p, a
<1>3. h \in ThreadState
  <2>1. p \in Pc /\ a \in Status \cup {"none"} /\ 0 \in 0..MaxLogins
    BY <1>1, AccountFacts DEF Pc, Asking, Status
  <2>2. QED
    BY <2>1, StateTyped, ThreadTyped DEF ThreadState
<1>4. h.pc = p /\ h.reply = a /\ h.revision = revision /\ h.task = thread[t].task
  BY ThreadTyped DEF ThreadState
<1>5. FlowOK(t, h)
  BY <1>1, <1>4 DEF FlowOK, BackgroundPc
<1>6. h.revision <= revision /\ h.task <= revision
  BY <1>4, ThreadTyped
<1> HIDE DEF h
<1>7. Moves(t, h)
  BY <1>1, <1>2, <1>3, <1>4, <1>5, <1>6
  DEF Moves, BrowserPc, GatePc, BeginRefresh, lockVars, At
<1>8. QED
  BY <1>7, StateTyped, MoveStep
  DEF BeginRefresh, publicVars, lockVars, serverVars, otherServerVars, PendingHasAttempt

LEMMA ReadBase ==
    ASSUME BaseInv, NEW t \in Threads, Read(t)
    PROVE  BaseInv'
<1>1. thread[t].reply \in Account \cup {"unavailable"}
  BY ThreadTyped DEF Read, At, FlowOK
<1>2. status' \in Status /\ PendingHasAttempt'
  BY <1>1, StateTyped DEF Read, PendingHasAttempt, Status, Account
<1> DEFINE h == [thread[t] EXCEPT !.pc = "refreshed", !.reply = status']
<1>3. thread' = [thread EXCEPT ![t] = h]
  BY DEF Read
<1>4. h \in ThreadState
  BY <1>2, ThreadTyped DEF ThreadState, Pc
<1>5. h.pc = "refreshed" /\ h.revision = thread[t].revision /\ h.task = thread[t].task
  BY ThreadTyped DEF ThreadState
<1>6. FlowOK(t, h)
  BY <1>5 DEF FlowOK, BackgroundPc
<1>7. h.revision <= revision /\ h.task <= revision
  BY <1>5, ThreadTyped
<1> HIDE DEF h
<1>8. Moves(t, h)
  BY <1>3, <1>4, <1>5, <1>6, <1>7 DEF Moves, BrowserPc, GatePc, Read, lockVars, At
<1>9. QED
  BY <1>2, <1>8, StateTyped, MoveStep
  DEF Read, publicVars, lockVars, serverVars, otherServerVars

LEMMA PublishRefreshBase ==
    ASSUME BaseInv, NEW t \in Threads, PublishRefresh(t)
    PROVE  BaseInv'
<1> DEFINE p == IF t \in Callers THEN "publish" ELSE "finish"
<1> DEFINE a == IF t \in Callers THEN thread[t].reply ELSE "none"
<1> DEFINE h == [Idle EXCEPT !.pc = p, !.reply = a, !.task = thread[t].task]
<1>1. /\ p \in {"publish", "finish"} /\ (p = "publish" <=> t \in Callers)
      /\ a \in Status \cup {"none", "ok", "failed", "browser", "unusable"}
  BY ThreadTyped DEF ThreadState
<1>2. thread' = [thread EXCEPT ![t] = h]
  BY DEF PublishRefresh
<1> HIDE DEF p, a
<1>3. h \in ThreadState
  BY <1>1, ThreadTyped, AccountFacts, ZenonT(40) DEF ThreadState, Pc, Idle
<1>4. h.pc = p /\ h.revision = 0 /\ h.task = thread[t].task
  BY DEF Idle
<1>5. FlowOK(t, h)
  BY <1>1, <1>4, AccountFacts DEF FlowOK, BackgroundPc
<1>6. h.revision <= revision /\ h.task <= revision
  BY <1>4, ThreadTyped
<1>7. /\ loginLock' \in Callers \cup {NoThread}
      /\ \A u \in Callers : u # t /\ loginLock = u => loginLock' = u
  BY StateTyped DEF PublishRefresh
<1> HIDE DEF h
<1>8. Moves(t, h)
  BY <1>1, <1>2, <1>3, <1>4, <1>5, <1>6, <1>7
  DEF Moves, BrowserPc, GatePc, PublishRefresh, stateVars, At
<1>9. QED
  BY <1>7, <1>8, StateTyped, MoveStep
  DEF PublishRefresh, PublishStatus, stateVars, serverVars, otherServerVars,
      PendingHasAttempt

(***************************************************************************)
(* BaseInv: the App Server answers.                                        *)
(***************************************************************************)
\* Where the answer takes a thread.
AnswerPc(pc) ==
    CASE pc = "canceling" -> "canceled"
      [] pc = "starting" -> "started"
      [] pc = "undoing" -> "undone"
      [] pc = "loggingOut" -> "loggedOut"
      [] pc = "reading" -> "read"

WithAnswer(t, reply) == [thread[t] EXCEPT !.reply = reply, !.pc = AnswerPc(thread[t].pc)]

LEMMA AnsweredShape ==
    ASSUME BaseInv, NEW t \in Threads, NEW reply, Answered(t, reply)
    PROVE  thread' = [thread EXCEPT ![t] = WithAnswer(t, reply)]
<1> DEFINE p == AnswerPc(thread[t].pc)
<1>1. thread' = [thread EXCEPT ![t].reply = reply, ![t].pc = p]
  BY Zenon DEF Answered, AnswerPc
<1>2. WithAnswer(t, reply) = [thread[t] EXCEPT !.reply = reply, !.pc = p]
  BY DEF WithAnswer
<1> HIDE DEF p
<1>3. QED
  BY <1>1, <1>2 DEF BaseInv, Typed

LEMMA AnswerMoves ==
    ASSUME BaseInv, NEW t \in Threads, thread[t].pc \in Asking,
           NEW reply \in Account \cup {"unavailable", "ok", "failed"}, Answered(t, reply),
           thread[t].pc = "reading" => reply \in Account \cup {"unavailable"},
           thread[t].pc \in {"canceling", "undoing"} => reply \in {"ok", "failed"},
           thread[t].pc = "starting" => reply = "failed",
           UNCHANGED <<connection, revision, background, reader, lockVars>>
    PROVE  Moves(t, WithAnswer(t, reply))
<1> DEFINE h == WithAnswer(t, reply)
<1>1. PICK p \in {"canceled", "started", "undone", "loggedOut", "read"} :
        /\ p = AnswerPc(thread[t].pc)
        /\ p = "canceled" <=> thread[t].pc = "canceling"
        /\ p = "started" <=> thread[t].pc = "starting"
        /\ p = "undone" <=> thread[t].pc = "undoing"
        /\ p = "loggedOut" <=> thread[t].pc = "loggingOut"
        /\ p = "read" <=> thread[t].pc = "reading"
  BY DEF AnswerPc, Asking
<1>2. h = [thread[t] EXCEPT !.reply = reply, !.pc = p]
  BY <1>1 DEF WithAnswer
<1>3. thread' = [thread EXCEPT ![t] = h]
  BY AnsweredShape
<1>4. h \in ThreadState
  BY <1>2, ThreadTyped DEF ThreadState, Pc, Status
<1>5. /\ h.pc = p /\ h.reply = reply /\ h.revision = thread[t].revision
      /\ h.task = thread[t].task /\ h.login = thread[t].login
      /\ h.command = thread[t].command
  BY <1>2, ThreadTyped DEF ThreadState
<1>6. FlowOK(t, h)
  <2>1. FlowOK(t, thread[t])
    BY ThreadTyped
  <2>2. QED
    BY <1>1, <1>5, <2>1 DEF FlowOK, BackgroundPc
<1>7. h.revision <= revision /\ h.task <= revision
  BY <1>5, ThreadTyped
<1>8. t \in Callers /\ thread[t].pc # "reading" => loginLock = t
  BY DEF BaseInv, Locks, GatePc, Asking
<1> HIDE DEF h
<1>9. /\ h.pc \notin BrowserPc /\ h.pc \notin {"idle", "spawned"}
      /\ thread[t].pc \notin {"idle", "spawned"}
      /\ t \in Callers /\ h.pc \in GatePc => loginLock = t
  BY <1>1, <1>5, <1>8 DEF BrowserPc, Asking, GatePc
<1>10. Moves(t, h)
  BY <1>3, <1>4, <1>5, <1>6, <1>7, <1>9 DEF Moves, lockVars
<1>11. QED
  BY <1>10 DEF h

LEMMA ServeReadBase ==
    ASSUME BaseInv, NEW t \in Threads, ServeRead(t)
    PROVE  BaseInv'
<1>1. Moves(t, WithAnswer(t, account))
  BY StateTyped, AnswerMoves DEF ServeRead, At, Asking, stateVars
<1>2. QED
  BY <1>1, StateTyped, MoveStep
  DEF ServeRead, stateVars, publicVars, lockVars, serverVars, otherServerVars,
      PendingHasAttempt

LEMMA DroppedTyped ==
    ASSUME BaseInv
    PROVE  Dropped \in [Logins -> {"none", "active", "dropped", "reloading", "over"}]
BY StateTyped DEF Dropped

LEMMA ServeCancelBase ==
    ASSUME BaseInv, NEW t \in Threads, ServeCancel(t)
    PROVE  BaseInv'
<1>1. PICK reply \in {"ok", "failed"} :
        /\ Answered(t, reply)
        /\ unsure' = IF reply = "failed" THEN unsure \cup {thread[t].login} ELSE unsure
  BY DEF ServeCancel, Reply
<1>2. Moves(t, WithAnswer(t, reply))
  BY <1>1, StateTyped, AnswerMoves DEF ServeCancel, Asking, stateVars
<1>3. unsure' \subseteq 0..MaxLogins
  BY <1>1, StateTyped, ThreadTyped
<1>4. logins' \in [Logins -> {"none", "active", "dropped", "reloading", "over"}]
  BY StateTyped, DroppedTyped DEF ServeCancel
<1>5. QED
  BY <1>2, <1>3, <1>4, StateTyped, MoveStep
  DEF ServeCancel, stateVars, publicVars, lockVars, PendingHasAttempt

LEMMA ServeLoginBase ==
    ASSUME BaseInv, NEW t \in Threads, ServeLogin(t)
    PROVE  BaseInv'
<1>0. nextLogin \in Logins /\ nextLogin \in 0..MaxLogins /\ nextLogin + 1 \in 1..MaxLogins + 1
  BY AccountFacts DEF ServeLogin, Logins
<1>1. PICK reply \in {"browser", "unusable", "failed"} :
        /\ thread' = [thread EXCEPT ![t].pc = "started", ![t].reply = reply,
                                    ![t].login = nextLogin]
        /\ unsure' = IF reply = "failed" THEN unsure \cup {nextLogin} ELSE unsure
  BY DEF ServeLogin, Reply
<1> DEFINE h == [thread[t] EXCEPT !.pc = "started", !.reply = reply, !.login = nextLogin]
<1>2. thread' = [thread EXCEPT ![t] = h]
  BY <1>1
<1>3. h \in ThreadState
  BY <1>0, ThreadTyped, ZenonT(40) DEF ThreadState, Pc
<1>4. /\ h.pc = "started" /\ h.reply = reply /\ h.revision = thread[t].revision
      /\ h.task = thread[t].task /\ h.login = nextLogin
  BY ThreadTyped DEF ThreadState
<1>5. t \notin Background
  BY ThreadTyped DEF ServeLogin, At, FlowOK, BackgroundPc
<1>6. t \in Callers /\ loginLock = t
  BY <1>5, AccountFacts DEF BaseInv, Locks, GatePc, ServeLogin, At
<1>7. FlowOK(t, h)
  BY <1>0, <1>4, <1>5 DEF FlowOK
<1>8. h.revision <= revision /\ h.task <= revision
  BY <1>4, ThreadTyped
<1> HIDE DEF h
<1>9. Moves(t, h)
  BY <1>2, <1>3, <1>4, <1>6, <1>7, <1>8
  DEF Moves, BrowserPc, ServeLogin, stateVars, lockVars
<1>10. logins' \in [Logins -> {"none", "active", "dropped", "reloading", "over"}]
  BY <1>0, DroppedTyped DEF ServeLogin
<1>11. unsure' \subseteq 0..MaxLogins /\ nextLogin' \in 1..MaxLogins + 1
  BY <1>0, <1>1, StateTyped DEF ServeLogin
<1>12. QED
  BY <1>9, <1>10, <1>11, StateTyped, MoveStep
  DEF ServeLogin, stateVars, publicVars, lockVars, PendingHasAttempt

LEMMA NoticeTyped ==
    ASSUME BaseInv, NEW kind \in {"completed", "updated"}, NEW l \in 0..MaxLogins
    PROVE  notices \o Notice(kind, l) \in Seq(NoticeState)
<1>1. [kind |-> kind, login |-> l, connection |-> connection] \in NoticeState
  BY StateTyped DEF NoticeState
<1>2. Notice(kind, l) \in Seq(NoticeState)
  BY <1>1 DEF Notice
<1>3. QED
  BY <1>2, StateTyped

LEMMA ServeLogoutBase ==
    ASSUME BaseInv, NEW t \in Threads, ServeLogout(t)
    PROVE  BaseInv'
<1>1. PICK reply \in {"ok", "failed"} : Answered(t, reply)
  BY DEF ServeLogout, Reply
<1>2. Moves(t, WithAnswer(t, reply))
  BY <1>1, StateTyped, AnswerMoves DEF ServeLogout, At, Asking, stateVars
<1>3. notices' \in Seq(NoticeState)
  <2>1. 0 \in 0..MaxLogins
    BY AccountFacts
  <2>2. QED
    BY <2>1, NoticeTyped DEF ServeLogout
<1>4. QED
  BY <1>2, <1>3, StateTyped, DroppedTyped, MoveStep
  DEF ServeLogout, stateVars, publicVars, lockVars, PendingHasAttempt, Account

LEMMA RequestFailsBase ==
    ASSUME BaseInv, NEW t \in Threads, RequestFails(t)
    PROVE  BaseInv'
<1>1. PICK reply \in {"unavailable", "failed"} :
        reply = IF At(t, "reading") THEN "unavailable" ELSE "failed"
  OBVIOUS
<1>2. Moves(t, WithAnswer(t, reply))
  BY <1>1, StateTyped, AnswerMoves DEF RequestFails, At, stateVars
<1>3. unsure' \subseteq 0..MaxLogins
  BY StateTyped, ThreadTyped DEF RequestFails
<1>4. QED
  BY <1>2, <1>3, StateTyped, MoveStep
  DEF RequestFails, stateVars, publicVars, lockVars, PendingHasAttempt

(***************************************************************************)
(* BaseInv: the background refresh.                                        *)
(***************************************************************************)
Spawned(r) == [Idle EXCEPT !.pc = "spawned", !.task = r]

\* others is what the threads are apart from a refresh that is spawned.
Others(others) ==
    /\ others \in [Threads -> ThreadState]
    /\ \A b \in Background : others[b] = thread[b]
    /\ \A t \in Callers :
          /\ FlowOK(t, others[t])
          /\ others[t].revision <= revision /\ others[t].task <= revision
          /\ others[t].pc \in GatePc => loginLock' = t
          /\ others[t].pc \in BrowserPc => browserLock' = t /\ IsCurrent(others[t].revision)

ThreadsGood ==
    /\ thread \in [Threads -> ThreadState]
    /\ Flow
    /\ \A t \in Threads : thread[t].revision <= revision /\ thread[t].task <= revision
    /\ Locks
    /\ RefreshesGood

\* A refresh that runs or waits is not started twice, and one started is for now.
LEMMA ScheduleKeeps ==
    ASSUME BaseInv, NEW r \in 0..MaxSwitches, NEW others, Others(others),
           ScheduleRefresh(r, others), UNCHANGED <<connection, revision>>
    PROVE  /\ ThreadsGood'
           /\ background' \in {"idle", "scheduled", "running", "requested"}
           /\ unsure' \subseteq 0..MaxLogins
<1>1. /\ background' \in {"idle", "scheduled", "running", "requested"}
      /\ unsure' \subseteq 0..MaxLogins
  <2>1. 0 \in 0..MaxLogins
    BY AccountFacts
  <2>2. QED
    BY <2>1, StateTyped DEF ScheduleRefresh, BaseInv, Typed, TypeOK
<1>2. CASE thread' = others /\ (background' = background \/ (background # "idle" /\
             background' = IF background = "scheduled" THEN "scheduled" ELSE "requested"))
  <2>1. /\ thread' \in [Threads -> ThreadState] /\ Flow'
        /\ \A t \in Threads : thread'[t].revision <= revision' /\ thread'[t].task <= revision'
    BY <1>2, AccountFacts DEF Others, Flow, BaseInv, Captured
  <2>2. Locks'
    BY <1>2 DEF Others, Locks, IsCurrent
  <2>3. \A b \in Background : /\ Refreshes(b)' <=> Refreshes(b)
                              /\ At(b, "spawned")' <=> At(b, "spawned")
    BY <1>2 DEF Others, Refreshes, At
  <2>4. RefreshesGood'
    BY <1>2, <2>3 DEF RefreshesGood, BaseInv
  <2>5. QED
    BY <1>1, <2>1, <2>2, <2>4 DEF ThreadsGood
<1>3. ASSUME NEW b \in Background, At(b, "idle"), IsCurrent(r), background = "idle",
             thread' = [others EXCEPT ![b] = Spawned(r)], background' = "scheduled"
      PROVE  ThreadsGood'
  <2>1. /\ Spawned(r) \in ThreadState
        /\ Spawned(r).pc = "spawned" /\ Spawned(r).task = r /\ Spawned(r).revision = 0
    BY AccountFacts DEF Spawned, ThreadState, Pc, Idle
  <2>2. b \in Threads /\ b \notin Callers
    BY AccountFacts
  <2>3. /\ thread' \in [Threads -> ThreadState]
        /\ thread'[b] = Spawned(r)
        /\ \A t \in Threads : t # b => thread'[t] = others[t]
    BY <1>3, <2>1, <2>2 DEF Others
  <2>4. FlowOK(b, Spawned(r))
    BY <2>1, <2>2 DEF FlowOK, BackgroundPc
  <2>5. r = revision /\ connection # 0
    BY <1>3 DEF IsCurrent
  <2>6. \A t \in Threads : FlowOK(t, thread'[t])
    BY <2>3, <2>4, AccountFacts DEF Others, BaseInv, Flow
  <2>7. Flow'
    BY <2>6 DEF Flow
  <2>8. \A t \in Threads : thread'[t].revision <= revision' /\ thread'[t].task <= revision'
    <3>1. 0 <= revision /\ revision <= revision
      BY StateTyped, AccountFacts
    <3>2. QED
      BY <2>1, <2>3, <2>5, <3>1, AccountFacts DEF Others, BaseInv, Captured
  <2>9. Locks'
    BY <2>2, <2>3, AccountFacts DEF Others, Locks, IsCurrent
  <2>10. \A a \in Background : /\ a # b => ~Refreshes(a)'
                               /\ Refreshes(b)' /\ At(b, "spawned")'
    BY <1>3, <2>1, <2>3, <2>5, AccountFacts DEF Others, Refreshes, At, BaseInv, RefreshesGood
  <2>11. RefreshesGood'
    BY <1>3, <2>5, <2>10 DEF RefreshesGood
  <2>12. QED
    BY <2>3, <2>7, <2>8, <2>9, <2>11 DEF ThreadsGood
<1>4. QED
  BY <1>1, <1>2, <1>3 DEF ScheduleRefresh, Spawned

\* What is left to show of a step besides its threads.
LEMMA OtherStep ==
    ASSUME BaseInv, ThreadsGood', UNCHANGED <<connection, revision>>,
           background' \in {"idle", "scheduled", "running", "requested"},
           reader' \in 0..MaxSwitches, reader' <= revision,
           loginStart' \in [revision : 0..MaxSwitches, ids : Seq(Logins)],
           loginStart'.revision <= revision, Len(loginStart'.ids) <= MaxEarly,
           attempt' \in 0..MaxLogins, latest' \in Threads \cup {NoThread},
           status' \in Status, published' \in Status \cup {"none"},
           switching' \in Status \cup {"none"},
           loginLock' \in Callers \cup {NoThread}, browserLock' \in Callers \cup {NoThread},
           account' \in Account,
           logins' \in [Logins -> {"none", "active", "dropped", "reloading", "over"}],
           notices' \in Seq(NoticeState), nextLogin' \in 1..MaxLogins + 1,
           unsure' \subseteq 0..MaxLogins, PendingHasAttempt'
    PROVE  BaseInv'
<1>1. Captured'
  BY DEF Captured, ThreadsGood
<1>2. \A u \in Threads : /\ thread'[u].pc \in Pc
                         /\ thread'[u].reply \in Status \cup {"none", "ok", "failed",
                                                              "browser", "unusable"}
  BY DEF ThreadState, ThreadsGood
<1>3. TypeOK'
  BY <1>2 DEF TypeOK, BaseInv, Typed
<1>4. QED
  BY <1>1, <1>3 DEF BaseInv, Typed, ThreadsGood

LEMMA ReaderTyped ==
    ASSUME BaseInv
    PROVE  /\ reader \in 0..MaxSwitches /\ reader <= revision
           /\ switching \in Status \cup {"none"}
           /\ background \in {"idle", "scheduled", "running", "requested"}
           /\ ThreadsGood
BY DEF BaseInv, Typed, TypeOK, Captured, ThreadsGood

LEMMA ReaderSchedulesBase ==
    ASSUME BaseInv, ReaderSchedules
    PROVE  BaseInv'
<1>1. Others(thread)
  BY AccountFacts DEF Others, ReaderSchedules, lockVars, BaseInv, Typed, Flow, Captured, Locks
<1>2. /\ ThreadsGood'
      /\ background' \in {"idle", "scheduled", "running", "requested"}
      /\ unsure' \subseteq 0..MaxLogins
  BY <1>1, ReaderTyped, ScheduleKeeps DEF ReaderSchedules
<1>3. reader' \in 0..MaxSwitches /\ reader' <= revision
  BY StateTyped, AccountFacts DEF ReaderSchedules
<1>4. QED
  BY <1>2, <1>3, StateTyped, ReaderTyped, OtherStep
  DEF ReaderSchedules, publicVars, lockVars, otherServerVars, PendingHasAttempt

LEMMA LoginWasCompletedBase ==
    ASSUME BaseInv, NEW t \in Callers, LoginWasCompleted(t)
    PROVE  BaseInv'
<1> DEFINE others == [thread EXCEPT ![t].pc = "look"]
<1>0. t \in Threads /\ t \notin Background /\ browserLock = t
  BY AccountFacts DEF BaseInv, Locks, LoginWasCompleted, At, BrowserPc
<1>1. /\ others \in [Threads -> ThreadState]
      /\ others[t] = At2(t, "look")
      /\ \A u \in Threads : u # t => others[u] = thread[u]
  <2>1. At2(t, "look") \in ThreadState
    BY <1>0, ThreadTyped DEF At2, ThreadState, Pc
  <2>2. others = [thread EXCEPT ![t] = At2(t, "look")]
    BY DEF At2
  <2>3. QED
    BY <1>0, <2>1, <2>2 DEF BaseInv, Typed
<1>2. FlowOK(t, At2(t, "look"))
  BY At2Flow
<1>3. /\ At2(t, "look").pc = "look" /\ At2(t, "look").revision <= revision
      /\ At2(t, "look").task <= revision
  BY <1>0, ThreadTyped DEF At2, ThreadState
<1>4. \A u \in Callers : u # t => thread[u].pc \notin BrowserPc
  BY <1>0 DEF BaseInv, Locks
<1> HIDE DEF others
<1>5. Others(others)
  BY <1>0, <1>1, <1>2, <1>3, <1>4, AccountFacts
  DEF Others, LoginWasCompleted, BaseInv, Flow, Captured, Locks, GatePc, BrowserPc
<1>6. /\ ThreadsGood'
      /\ background' \in {"idle", "scheduled", "running", "requested"}
      /\ unsure' \subseteq 0..MaxLogins
  BY <1>0, <1>5, ThreadTyped, ScheduleKeeps DEF LoginWasCompleted, others
<1>7. QED
  BY <1>6, StateTyped, ReaderTyped, OtherStep
  DEF LoginWasCompleted, publicVars, otherServerVars, PendingHasAttempt

\* Only the refresh b of a thread changes.
LEMMA BackgroundMoves ==
    ASSUME BaseInv, NEW b \in Background, NEW h \in ThreadState, FlowOK(b, h),
           h.revision <= revision, h.task <= revision,
           thread' = [thread EXCEPT ![b] = h], UNCHANGED <<connection, revision, lockVars>>
    PROVE  /\ thread' \in [Threads -> ThreadState] /\ Flow' /\ Locks'
           /\ \A u \in Threads : thread'[u].revision <= revision' /\ thread'[u].task <= revision'
           /\ thread'[b] = h
           /\ \A a \in Background : a # b => /\ Refreshes(a)' <=> Refreshes(a)
                                             /\ At(a, "spawned")' <=> At(a, "spawned")
<1>0. b \in Threads /\ b \notin Callers
  BY AccountFacts
<1>1. /\ thread' \in [Threads -> ThreadState]
      /\ thread'[b] = h
      /\ \A u \in Threads : u # b => thread'[u] = thread[u]
  BY <1>0 DEF BaseInv, Typed
<1>2. Flow'
  BY <1>1 DEF BaseInv, Flow
<1>3. \A u \in Threads : thread'[u].revision <= revision' /\ thread'[u].task <= revision'
  BY <1>1 DEF BaseInv, Captured
<1>4. Locks'
  BY <1>0, <1>1, AccountFacts DEF BaseInv, Locks, lockVars, IsCurrent
<1>5. \A a \in Background : a # b => /\ Refreshes(a)' <=> Refreshes(a)
                                     /\ At(a, "spawned")' <=> At(a, "spawned")
  BY <1>1, AccountFacts DEF Refreshes, At
<1>6. QED
  BY <1>1, <1>2, <1>3, <1>4, <1>5

LEMMA IdleGood ==
    ASSUME BaseInv, NEW b \in Background
    PROVE  /\ Idle \in ThreadState /\ FlowOK(b, Idle)
           /\ Idle.revision <= revision /\ Idle.task <= revision /\ Idle.pc = "idle"
<1>1. 0 <= revision
  BY StateTyped, AccountFacts
<1>2. QED
  BY <1>1, AccountFacts DEF FlowOK, BackgroundPc, Idle

LEMMA RunBackgroundBase ==
    ASSUME BaseInv, NEW b \in Background, RunBackground(b)
    PROVE  BaseInv'
<1>0. b \in Threads
  BY AccountFacts
<1>1. UNCHANGED <<connection, revision, loginStart, attempt, latest, status,
                  publicVars, lockVars, reader, serverVars>>
  BY DEF RunBackground
<1>2. CASE IsCurrent(thread[b].task) /\ background = "scheduled"
  <2> DEFINE h == [thread[b] EXCEPT !.pc = "refresh"]
  <2>1. thread' = [thread EXCEPT ![b] = h] /\ background' = "running"
    BY <1>2 DEF RunBackground, Goto
  <2>2. h \in ThreadState
    BY <1>0, ThreadTyped DEF ThreadState, Pc
  <2>3. /\ h.pc = "refresh" /\ h.task = thread[b].task /\ h.revision <= revision
        /\ h.task <= revision
    BY <1>0, ThreadTyped DEF ThreadState
  <2>4. FlowOK(b, h)
    BY <2>3, AccountFacts DEF FlowOK, BackgroundPc
  <2> HIDE DEF h
  <2>5. /\ thread' \in [Threads -> ThreadState] /\ Flow' /\ Locks'
        /\ \A u \in Threads : thread'[u].revision <= revision' /\ thread'[u].task <= revision'
        /\ thread'[b] = h
        /\ \A a \in Background : a # b => /\ Refreshes(a)' <=> Refreshes(a)
                                          /\ At(a, "spawned")' <=> At(a, "spawned")
    BY <1>1, <2>1, <2>2, <2>3, <2>4, BackgroundMoves
  <2>6. Refreshes(b) /\ Refreshes(b)' /\ ~At(b, "spawned")'
    BY <1>1, <1>2, <2>3, <2>5 DEF Refreshes, At, IsCurrent, RunBackground
  <2>7. RefreshesGood'
    BY <1>1, <1>2, <2>1, <2>5, <2>6 DEF RefreshesGood, BaseInv, IsCurrent
  <2>8. QED
    BY <1>1, <2>1, <2>5, <2>7, StateTyped, ReaderTyped, OtherStep
    DEF ThreadsGood, publicVars, lockVars, serverVars, otherServerVars, PendingHasAttempt
<1>3. CASE ~(IsCurrent(thread[b].task) /\ background = "scheduled")
  <2>1. thread' = [thread EXCEPT ![b] = Idle] /\ background' = background
    BY <1>3 DEF RunBackground
  <2>2. /\ thread' \in [Threads -> ThreadState] /\ Flow' /\ Locks'
        /\ \A u \in Threads : thread'[u].revision <= revision' /\ thread'[u].task <= revision'
        /\ thread'[b] = Idle
        /\ \A a \in Background : a # b => /\ Refreshes(a)' <=> Refreshes(a)
                                          /\ At(a, "spawned")' <=> At(a, "spawned")
    BY <1>1, <2>1, IdleGood, BackgroundMoves
  <2>3. ~Refreshes(b) /\ ~Refreshes(b)'
    <3>1. Refreshes(b) => background = "scheduled" /\ IsCurrent(thread[b].task)
      BY DEF Refreshes, RefreshesGood, BaseInv, RunBackground, IsCurrent
    <3>2. QED
      BY <1>3, <2>2, <3>1, IdleGood DEF Refreshes, At
  <2>4. RefreshesGood'
    BY <1>1, <2>1, <2>2, <2>3 DEF RefreshesGood, BaseInv
  <2>5. QED
    BY <1>1, <2>1, <2>2, <2>4, StateTyped, ReaderTyped, OtherStep
    DEF ThreadsGood, publicVars, lockVars, serverVars, otherServerVars, PendingHasAttempt
<1>4. QED
  BY <1>2, <1>3

LEMMA FinishBackgroundBase ==
    ASSUME BaseInv, NEW b \in Background, FinishBackground(b)
    PROVE  BaseInv'
<1>0. b \in Threads /\ At(b, "finish")
  BY AccountFacts DEF FinishBackground
<1>1. UNCHANGED <<connection, revision, loginStart, attempt, latest, status,
                  publicVars, lockVars, reader, otherServerVars>>
  BY DEF FinishBackground
<1>2. Refreshes(b) <=> thread[b].task = revision
  BY <1>0 DEF Refreshes, At
<1>3. Refreshes(b) => background \in {"running", "requested"} /\ IsCurrent(thread[b].task)
  BY <1>0, ReaderTyped DEF Refreshes, RefreshesGood, BaseInv, IsCurrent, At
<1>4. IsCurrent(thread[b].task) => Refreshes(b)
  BY <1>2 DEF IsCurrent
<1>5. ASSUME IsCurrent(thread[b].task), background = "requested", background' = "scheduled",
             thread' = [[thread EXCEPT ![b] = Idle] EXCEPT ![b].pc = "spawned",
                                                           ![b].task = thread[b].task],
             UNCHANGED unsure
      PROVE  BaseInv'
  <2> DEFINE h == Spawned(thread[b].task)
  <2>1. thread' = [thread EXCEPT ![b] = h]
    <3>1. h = [[Idle EXCEPT !.pc = "spawned"] EXCEPT !.task = thread[b].task]
      BY DEF Spawned
    <3>2. QED
      BY <1>0, <1>5, <3>1 DEF BaseInv, Typed
  <2>2. h \in ThreadState /\ h.pc = "spawned" /\ h.task = thread[b].task /\ h.revision = 0
    BY <1>0, ThreadTyped, AccountFacts DEF Spawned, ThreadState, Pc, Idle
  <2>3. FlowOK(b, h) /\ h.revision <= revision /\ h.task <= revision
    BY <1>0, <2>2, ThreadTyped, AccountFacts DEF FlowOK, BackgroundPc
  <2> HIDE DEF h
  <2>4. /\ thread' \in [Threads -> ThreadState] /\ Flow' /\ Locks'
        /\ \A u \in Threads : thread'[u].revision <= revision' /\ thread'[u].task <= revision'
        /\ thread'[b] = h
        /\ \A a \in Background : a # b => /\ Refreshes(a)' <=> Refreshes(a)
                                          /\ At(a, "spawned")' <=> At(a, "spawned")
    BY <1>1, <2>1, <2>2, <2>3, BackgroundMoves
  <2>5. Refreshes(b)' /\ At(b, "spawned")'
    BY <1>1, <1>2, <1>4, <1>5, <2>2, <2>4 DEF Refreshes, At
  <2>6. RefreshesGood'
    BY <1>1, <1>4, <1>5, <2>4, <2>5 DEF RefreshesGood, BaseInv, IsCurrent
  <2>7. QED
    BY <1>1, <1>5, <2>4, <2>6, StateTyped, ReaderTyped, OtherStep
    DEF ThreadsGood, publicVars, lockVars, otherServerVars, PendingHasAttempt
<1>6. ASSUME thread' = [thread EXCEPT ![b] = Idle],
             unsure' \in {unsure, unsure \cup {0}},
             background' = IF IsCurrent(thread[b].task) THEN "idle" ELSE background
      PROVE  BaseInv'
  <2>1. /\ thread' \in [Threads -> ThreadState] /\ Flow' /\ Locks'
        /\ \A u \in Threads : thread'[u].revision <= revision' /\ thread'[u].task <= revision'
        /\ thread'[b] = Idle
        /\ \A a \in Background : a # b => /\ Refreshes(a)' <=> Refreshes(a)
                                          /\ At(a, "spawned")' <=> At(a, "spawned")
    BY <1>1, <1>6, IdleGood, BackgroundMoves
  <2>2. ~Refreshes(b)'
    BY <2>1, IdleGood DEF Refreshes, At
  <2>3. RefreshesGood'
    <3>1. CASE Refreshes(b)
      <4>1. background' = "idle"
        BY <1>3, <1>6, <3>1
      <4>2. \A a \in Background : ~Refreshes(a)'
        BY <2>1, <2>2, <3>1 DEF BaseInv, RefreshesGood
      <4>3. QED
        BY <4>1, <4>2 DEF RefreshesGood
    <3>2. CASE ~Refreshes(b)
      <4>1. background' = background
        BY <1>4, <1>6, <3>2
      <4>2. QED
        BY <1>1, <2>1, <2>2, <3>2, <4>1 DEF BaseInv, RefreshesGood
    <3>3. QED
      BY <3>1, <3>2
  <2>4. unsure' \subseteq 0..MaxLogins
    BY <1>6, StateTyped, AccountFacts
  <2>5. QED
    BY <1>1, <1>6, <2>1, <2>3, <2>4, StateTyped, ReaderTyped, OtherStep
    DEF ThreadsGood, publicVars, lockVars, otherServerVars, PendingHasAttempt
<1>7. QED
  BY <1>5, <1>6 DEF FinishBackground

(***************************************************************************)
(* BaseInv: the notifications, the logins and the connections.             *)
(***************************************************************************)
LEMMA ThreadsStay ==
    ASSUME BaseInv, UNCHANGED <<connection, revision, background, lockVars, thread>>
    PROVE  ThreadsGood'
<1>1. \A b : /\ Refreshes(b)' <=> Refreshes(b)
             /\ At(b, "spawned")' <=> At(b, "spawned")
  BY DEF Refreshes, At
<1>2. RefreshesGood'
  BY <1>1 DEF BaseInv, RefreshesGood
<1>3. QED
  BY <1>2 DEF BaseInv, Typed, Captured, ThreadsGood, Flow, Locks, lockVars, IsCurrent

\* An id is removed: the others stay in order.
LEMMA RemoveAt ==
    ASSUME NEW ids \in Seq(Logins), NEW i \in DOMAIN ids
    PROVE  LET s == SubSeq(ids, 1, i - 1) \o SubSeq(ids, i + 1, Len(ids))
           IN  /\ s \in Seq(Logins)
               /\ Len(s) = Len(ids) - 1
               /\ \A j \in 1..i - 1 : s[j] = ids[j]
               /\ \A j \in i..Len(ids) - 1 : s[j] = ids[j + 1]
<1> DEFINE a == SubSeq(ids, 1, i - 1)
<1> DEFINE b == SubSeq(ids, i + 1, Len(ids))
<1>0. i \in 1..Len(ids) /\ Len(ids) \in Nat
  OBVIOUS
<1>1. /\ a \in Seq(Logins) /\ Len(a) = i - 1
      /\ \A j \in 1..i - 1 : a[j] = ids[j]
  BY <1>0
<1>2. /\ b \in Seq(Logins) /\ Len(b) = Len(ids) - i
      /\ \A j \in 1..Len(ids) - i : b[j] = ids[i + j]
  BY <1>0
<1> HIDE DEF a, b
<1> DEFINE s == a \o b
<1>3. /\ s \in Seq(Logins) /\ Len(s) = Len(a) + Len(b)
      /\ \A j \in 1..Len(a) + Len(b) : s[j] = IF j <= Len(a) THEN a[j] ELSE b[j - Len(a)]
  BY <1>1, <1>2, ConcatProperties
<1> HIDE DEF s
<1>4. Len(s) = Len(ids) - 1
  BY <1>0, <1>1, <1>2, <1>3
<1>5. \A j \in 1..i - 1 : s[j] = ids[j]
  BY <1>0, <1>1, <1>2, <1>3, SMTT(20)
<1>6. ASSUME NEW j \in i..Len(ids) - 1 PROVE s[j] = ids[j + 1]
  <2>1. /\ j \in 1..Len(a) + Len(b) /\ ~(j <= Len(a))
        /\ j - Len(a) \in 1..Len(ids) - i
        /\ i + (j - Len(a)) = j + 1
    BY <1>0, <1>1, <1>2
  <2>2. s[j] = b[j - Len(a)]
    BY <1>3, <2>1
  <2>3. b[j - Len(a)] = ids[i + (j - Len(a))]
    BY <1>2, <2>1
  <2>4. QED
    BY <2>1, <2>2, <2>3
<1>7. QED
  BY <1>3, <1>4, <1>5, <1>6 DEF s, a, b

\* Distinct ids, one of them removed: what is left is distinct and is the others.
LEMMA WithoutIdTyped ==
    ASSUME NEW ids \in Seq(Logins), NEW l
    PROVE  /\ WithoutId(ids, l) \in Seq(Logins)
           /\ Len(WithoutId(ids, l)) <= Len(ids)
           /\ WithoutId(ids, l) = ids \/ Len(WithoutId(ids, l)) = Len(ids) - 1
           /\ Distinct(ids) =>
                 /\ Distinct(WithoutId(ids, l))
                 /\ \A i \in DOMAIN WithoutId(ids, l) : WithoutId(ids, l)[i] # l
                 /\ \A i \in DOMAIN ids : ids[i] # l =>
                       \E j \in DOMAIN WithoutId(ids, l) : WithoutId(ids, l)[j] = ids[i]
           /\ \A j \in DOMAIN WithoutId(ids, l) :
                 \E i \in DOMAIN ids : ids[i] = WithoutId(ids, l)[j]
<1>1. CASE ~\E i \in DOMAIN ids : ids[i] = l
  BY <1>1 DEF WithoutId
<1>2. CASE \E i \in DOMAIN ids : ids[i] = l
  <2>1. PICK i \in DOMAIN ids : /\ i = CHOOSE k \in DOMAIN ids : ids[k] = l
                                /\ ids[i] = l
    BY <1>2
  <2> DEFINE s == WithoutId(ids, l)
  <2>2. s = SubSeq(ids, 1, i - 1) \o SubSeq(ids, i + 1, Len(ids))
    BY <1>2, <2>1 DEF WithoutId
  <2>3. /\ s \in Seq(Logins)
        /\ Len(s) = Len(ids) - 1
        /\ \A j \in 1..i - 1 : s[j] = ids[j]
        /\ \A j \in i..Len(ids) - 1 : s[j] = ids[j + 1]
    BY <2>2, RemoveAt
  <2> HIDE DEF s
  <2>4. /\ i \in 1..Len(ids) /\ Len(ids) \in Nat
        /\ DOMAIN ids = 1..Len(ids) /\ DOMAIN s = 1..Len(ids) - 1
    BY <2>3
  <2>5. ASSUME NEW j \in DOMAIN s
        PROVE  \E k \in DOMAIN ids : k # i /\ s[j] = ids[k] /\ k = IF j < i THEN j ELSE j + 1
    BY <2>3, <2>4
  <2>6. ASSUME NEW k \in DOMAIN ids, k # i
        PROVE  \E j \in DOMAIN s : s[j] = ids[k]
    <3>1. CASE k < i
      BY <2>3, <2>4, <3>1
    <3>2. CASE k > i
      <4>1. k - 1 \in i..Len(ids) - 1 /\ k - 1 \in DOMAIN s /\ k - 1 + 1 = k
        BY <2>4, <3>2
      <4>2. s[k - 1] = ids[k]
        BY <2>3, <4>1
      <4>3. QED
        BY <4>1, <4>2
    <3>3. QED
      BY <2>4, <2>6, <3>1, <3>2
  <2>7. Distinct(ids) => Distinct(s)
    BY <2>4, <2>5 DEF Distinct
  <2>8. Distinct(ids) => \A j \in DOMAIN s : s[j] # l
    BY <2>1, <2>5 DEF Distinct
  <2>9. QED
    BY <2>1, <2>3, <2>4, <2>5, <2>6, <2>7, <2>8 DEF s
<1>3. QED
  BY <1>1, <1>2

\* The notifications that wait, after one more.
LEMMA QueuedAppended ==
    ASSUME BaseInv, NEW kind, NEW l, notices' = notices \o Notice(kind, l)
    PROVE  Queued' = Queued \cup {[kind |-> kind, login |-> l, connection |-> connection]}
<1>0. notices \in Seq(NoticeState) /\ Len(notices) \in Nat /\ DOMAIN notices = 1..Len(notices)
  BY StateTyped
<1> DEFINE x == [kind |-> kind, login |-> l, connection |-> connection]
<1>1. notices' = notices \o <<x>>
  BY DEF Notice
<1> HIDE DEF x
<1>2. /\ DOMAIN notices' = 1..Len(notices) + 1
      /\ \A i \in 1..Len(notices) : notices'[i] = notices[i]
      /\ notices'[Len(notices) + 1] = x
  BY <1>0, <1>1
<1>3. Queued' = Queued \cup {x}
  BY <1>0, <1>2 DEF Queued
<1>4. QED
  BY <1>3 DEF x

\* The notifications that wait, after the first was taken.
LEMMA QueuedTail ==
    ASSUME BaseInv, notices # <<>>, notices' = Tail(notices)
    PROVE  /\ Head(notices) \in Queued
           /\ Head(notices) \in NoticeState
           /\ Queued' \subseteq Queued
           /\ Queued \subseteq Queued' \cup {Head(notices)}
<1>0. notices \in Seq(NoticeState) /\ Len(notices) \in Nat /\ DOMAIN notices = 1..Len(notices)
  BY StateTyped
<1>1. /\ Head(notices) = notices[1] /\ 1 \in DOMAIN notices
      /\ Head(notices) \in NoticeState
  BY <1>0
<1>2. /\ Len(Tail(notices)) = Len(notices) - 1
      /\ \A i \in 1..Len(Tail(notices)) : Tail(notices)[i] = notices[i + 1]
      /\ Tail(notices) \in Seq(NoticeState)
  BY <1>0, HeadTailProperties
<1>3. DOMAIN notices' = 1..Len(notices) - 1
  BY <1>0, <1>2
<1>4. \A i \in 1..Len(notices) - 1 : notices'[i] = notices[i + 1]
  BY <1>0, <1>2
<1>5. ASSUME NEW i \in DOMAIN notices
      PROVE  i = 1 \/ (i - 1 \in DOMAIN notices' /\ notices'[i - 1] = notices[i])
  <2>1. i = 1 \/ (i - 1 \in 1..Len(notices) - 1 /\ i - 1 + 1 = i)
    BY <1>0
  <2>2. QED
    BY <1>3, <1>4, <2>1
<1>6. Queued' \subseteq Queued
  <2>1. \A i \in 1..Len(notices) - 1 : i + 1 \in DOMAIN notices
    BY <1>0
  <2>2. QED
    BY <1>3, <1>4, <2>1 DEF Queued
<1>7. Queued \subseteq Queued' \cup {Head(notices)}
  BY <1>1, <1>5 DEF Queued
<1>8. QED
  BY <1>1, <1>6, <1>7 DEF Queued

\* remember_early_completion keeps the list typed and within its bound.
LEMMA RememberedTyped ==
    ASSUME BaseInv, NEW l \in Logins
    PROVE  /\ Remembered(l) \in [revision : 0..MaxSwitches, ids : Seq(Logins)]
           /\ Remembered(l).revision = loginStart.revision
           /\ Len(Remembered(l).ids) <= MaxEarly
<1> DEFINE ids == WithoutId(loginStart.ids, l)
<1> DEFINE kept == IF Len(ids) < MaxEarly THEN ids ELSE Tail(ids)
<1>0. /\ loginStart.ids \in Seq(Logins) /\ loginStart.revision \in 0..MaxSwitches
      /\ Len(loginStart.ids) <= MaxEarly
  BY StateTyped
<1>1. ids \in Seq(Logins) /\ Len(ids) <= MaxEarly /\ Len(ids) \in Nat
  <2>1. ids \in Seq(Logins) /\ Len(ids) <= Len(loginStart.ids)
    BY <1>0, WithoutIdTyped
  <2>2. Len(ids) \in Nat /\ Len(loginStart.ids) \in Nat
    BY <1>0, <2>1
  <2>3. QED
    BY <1>0, <2>1, <2>2, AccountFacts
<1>2. kept \in Seq(Logins) /\ Len(kept) < MaxEarly
  <2>1. CASE Len(ids) < MaxEarly
    BY <1>1, <2>1
  <2>2. CASE ~(Len(ids) < MaxEarly)
    <3>1. Len(ids) = MaxEarly /\ Len(ids) > 0
      BY <1>1, <2>2, AccountFacts
    <3>2. Tail(ids) \in Seq(Logins) /\ Len(Tail(ids)) = Len(ids) - 1
      BY <1>1, <3>1
    <3>3. QED
      BY <1>1, <2>2, <3>1, <3>2
  <2>3. QED
    BY <2>1, <2>2
<1> HIDE DEF ids
<1>3. Remembered(l) = IF loginStart.revision # revision THEN loginStart
                      ELSE [loginStart EXCEPT !.ids = Append(kept, l)]
  BY DEF Remembered, ids
<1> HIDE DEF kept
<1>4. /\ Append(kept, l) \in Seq(Logins)
      /\ Len(Append(kept, l)) = Len(kept) + 1 /\ Len(kept) \in Nat
  BY <1>2, AppendProperties
<1>5. Len(Append(kept, l)) <= MaxEarly
  BY <1>2, <1>4, AccountFacts
<1>6. QED
  BY <1>0, <1>3, <1>4, <1>5, StateTyped

LEMMA OnNotificationBase ==
    ASSUME BaseInv, NoticesGood, OnNotification
    PROVE  BaseInv'
<1> DEFINE n == Head(notices)
<1>0. /\ notices \in Seq(NoticeState) /\ notices # <<>>
      /\ n \in NoticeState /\ Tail(notices) \in Seq(NoticeState)
      /\ n.kind = "completed" => n.login \in Logins
  <2>1. notices \in Seq(NoticeState) /\ notices # <<>>
    BY StateTyped DEF OnNotification
  <2>2. n \in Queued /\ n \in NoticeState
    BY <2>1, QueuedTail DEF OnNotification
  <2>3. QED
    BY <2>1, <2>2, HeadTailProperties DEF NoticesGood
<1>1. UNCHANGED <<connection, revision, background, publicVars, lockVars, thread, account,
                  logins, nextLogin>> /\ notices' = Tail(notices)
  BY DEF OnNotification
<1>u. unsure' \subseteq 0..MaxLogins
  <2>1. loginStart.ids \in Seq(Logins) /\ Len(loginStart.ids) \in Nat
    BY StateTyped
  <2>2. Len(loginStart.ids) = MaxEarly => Head(loginStart.ids) \in Logins
    BY <2>1, AccountFacts
  <2>3. unsure' = unsure \/ unsure' \subseteq unsure \cup Logins
    BY <2>2 DEF OnNotification, HandleCompleted, Displaced
  <2>4. QED
    BY <2>3, StateTyped, AccountFacts
<1>2. ThreadsGood'
  BY <1>1, ThreadsStay
<1>3. /\ loginStart' \in [revision : 0..MaxSwitches, ids : Seq(Logins)]
      /\ loginStart'.revision <= revision /\ Len(loginStart'.ids) <= MaxEarly
  <2>1. \/ loginStart' = loginStart
        \/ n.kind = "completed" /\ loginStart' = Remembered(n.login)
    BY DEF OnNotification, HandleCompleted
  <2>2. QED
    BY <1>0, <2>1, StateTyped, RememberedTyped
<1>4. reader' \in 0..MaxSwitches /\ reader' <= revision
  <2>1. revision <= revision
    BY StateTyped, AccountFacts
  <2>2. QED
    BY <2>1, StateTyped, ReaderTyped DEF OnNotification, HandleCompleted
<1>5. /\ attempt' \in 0..MaxLogins /\ latest' \in Threads \cup {NoThread}
      /\ status' \in Status /\ PendingHasAttempt'
  <2>1. 0 \in 0..MaxLogins
    BY AccountFacts
  <2>2. \/ attempt' = 0 /\ latest' = NoThread /\ status' = "checking"
        \/ UNCHANGED <<attempt, latest, status>>
    BY DEF OnNotification, HandleCompleted
  <2>3. QED
    BY <1>1, <2>1, <2>2, StateTyped DEF PendingHasAttempt, Status, Account
<1>6. QED
  BY <1>0, <1>1, <1>u, <1>2, <1>3, <1>4, <1>5, StateTyped, ReaderTyped, OtherStep
  DEF publicVars, lockVars

LEMMA LoginEndsBase ==
    ASSUME BaseInv, NEW l \in Logins, LoginEnds(l) \/ AccountReloads(l)
    PROVE  BaseInv'
<1>1. UNCHANGED <<stateVars, publicVars, lockVars, thread, reader, nextLogin, unsure>>
  BY DEF LoginEnds, AccountReloads
<1>2. ThreadsGood'
  BY <1>1, ThreadsStay DEF stateVars
<1>3. notices' \in Seq(NoticeState)
  <2>1. 0 \in 0..MaxLogins /\ l \in 0..MaxLogins
    BY AccountFacts
  <2>2. QED
    BY <2>1, NoticeTyped DEF LoginEnds, AccountReloads
<1>4. /\ logins' \in [Logins -> {"none", "active", "dropped", "reloading", "over"}]
      /\ account' \in Account
  BY StateTyped DEF LoginEnds, AccountReloads, Account
<1>5. QED
  BY <1>1, <1>2, <1>3, <1>4, StateTyped, ReaderTyped, OtherStep
  DEF stateVars, publicVars, lockVars, PendingHasAttempt

LEMMA PublishSwitchBase ==
    ASSUME BaseInv, PublishSwitch
    PROVE  BaseInv'
<1>1. UNCHANGED <<stateVars, lockVars, thread, reader, serverVars>> /\ switching' = "none"
      /\ published' \in Status \cup {"none"}
  BY StateTyped, ReaderTyped DEF PublishSwitch, PublishStatus
<1>2. ThreadsGood'
  BY <1>1, ThreadsStay DEF stateVars
<1>3. QED
  BY <1>1, <1>2, StateTyped, ReaderTyped, OtherStep
  DEF stateVars, lockVars, serverVars, otherServerVars, PendingHasAttempt

(***************************************************************************)
(* connect and disconnect: every captured revision is old from here on,    *)
(* and no thread is opening the browser.                                   *)
(***************************************************************************)
LEMMA SwitchBase ==
    ASSUME BaseInv, NEW new \in {"checking", "unavailable"},
           revision < MaxSwitches, SwitchConnection(connection', new),
           connection' = IF (revision + 1) % 2 = 0 THEN 0 ELSE (revision + 2) \div 2,
           notices' \in Seq(NoticeState), account' \in Account,
           logins' \in [Logins -> {"none", "active", "dropped", "reloading", "over"}]
    PROVE  BaseInv'
<1> USE DEF SwitchConnection
<1>0. revision \in Nat /\ revision + 1 \in 0..MaxSwitches
      /\ \A t \in Threads : /\ thread[t].revision \in Nat /\ thread[t].revision <= revision
                            /\ thread[t].task \in Nat /\ thread[t].task <= revision
  BY StateTyped, ThreadTyped, AccountFacts
<1>1. \A t \in Threads : /\ thread[t].revision <= revision + 1
                         /\ thread[t].task <= revision + 1 /\ thread[t].task # revision + 1
  BY <1>0
<1>2. Locks'
  <2>1. \A t \in Callers : thread[t].pc \notin BrowserPc
    BY AccountFacts DEF BaseInv, Locks
  <2>2. QED
    BY <2>1 DEF BaseInv, Locks, lockVars
<1>3. RefreshesGood'
  <2>1. \A b \in Background : ~Refreshes(b)'
    BY <1>1, AccountFacts DEF Refreshes
  <2>2. QED
    BY <2>1 DEF RefreshesGood
<1>4. reader <= revision + 1 /\ 0 <= revision + 1
  BY <1>0, ReaderTyped, AccountFacts
<1>5. Captured'
  BY <1>1, <1>4 DEF Captured, NoLoginStart
<1>6. Flow' /\ PendingHasAttempt'
  BY DEF BaseInv, Flow, PendingHasAttempt
<1>7. TypeOK'
  <2>1. loginStart'.revision \in 0..MaxSwitches /\ Len(loginStart'.ids) <= MaxEarly
    BY AccountFacts DEF NoLoginStart
  <2>2. connection' = IF revision' % 2 = 0 THEN 0 ELSE (revision' + 1) \div 2
    <3>1. (revision + 1) + 1 = revision + 2
      BY <1>0
    <3>2. QED
      BY <3>1
  <2>3. attempt' \in 0..MaxLogins
    BY AccountFacts
  <2>4. QED
    BY <1>0, <2>1, <2>2, <2>3 DEF TypeOK, BaseInv, Typed, lockVars, Status
<1>8. QED
  <2>1. loginStart' \in [revision : 0..MaxSwitches, ids : Seq(Logins)]
    BY AccountFacts DEF NoLoginStart
  <2>2. unsure' \subseteq 0..MaxLogins
    BY StateTyped
  <2>3. QED
    BY <1>2, <1>3, <1>5, <1>6, <1>7, <2>1, <2>2 DEF BaseInv, Typed

LEMMA ConnectBase ==
    ASSUME BaseInv, Connect
    PROVE  BaseInv'
<1>1. revision \in Nat /\ connection = IF revision % 2 = 0 THEN 0 ELSE (revision + 1) \div 2
  BY StateTyped, AccountFacts DEF BaseInv, Typed, TypeOK
<1>2. revision % 2 = 0
  BY <1>1 DEF Connect
<1>3. (revision + 1) % 2 # 0 /\ revision \div 2 + 1 = (revision + 2) \div 2
  BY <1>1, <1>2
<1>4. connection' = revision \div 2 + 1 /\ SwitchConnection(connection', "checking")
  BY DEF Connect, SwitchConnection
<1>5. <<>> \in Seq(NoticeState)
  OBVIOUS
<1>6. QED
  BY <1>3, <1>4, <1>5, StateTyped, SwitchBase DEF Connect

LEMMA DisconnectBase ==
    ASSUME BaseInv, Disconnect
    PROVE  BaseInv'
<1>1. revision \in Nat /\ connection = IF revision % 2 = 0 THEN 0 ELSE (revision + 1) \div 2
  BY StateTyped, AccountFacts DEF BaseInv, Typed, TypeOK
<1>2. (revision + 1) % 2 = 0
  BY <1>1 DEF Disconnect
<1>3. connection' = 0 /\ SwitchConnection(connection', "unavailable")
  BY DEF Disconnect, SwitchConnection
<1>4. /\ logins' \in [Logins -> {"none", "active", "dropped", "reloading", "over"}]
      /\ account' \in Account
  BY StateTyped DEF Disconnect, Account
<1>5. QED
  BY <1>2, <1>3, <1>4, StateTyped, SwitchBase DEF Disconnect

-----------------------------------------------------------------------------
(***************************************************************************)
(* The steps of the specification, one by one.                             *)
(***************************************************************************)
CallerActions(t) ==
    \/ \E command \in Command : Execute(t, command)
    \/ EnterGate(t) \/ CancelAnswered(t) \/ PrepareLogin(t) \/ LoginRefused(t)
    \/ FinishLoginStart(t) \/ LoginWasCompleted(t) \/ OpenBrowser(t)
    \/ UndoAnswered(t) \/ UndoStatus(t) \/ BeginLogout(t) \/ LogoutAnswered(t)
    \/ LookAtStatus(t) \/ Publish(t)

ThreadActions(t) ==
    \/ BeginRefresh(t) \/ Read(t) \/ PublishRefresh(t)
    \/ ServeRead(t) \/ ServeCancel(t) \/ ServeLogin(t) \/ ServeLogout(t) \/ RequestFails(t)

OtherActions ==
    \/ Connect \/ Disconnect \/ PublishSwitch
    \/ \E b \in Background : RunBackground(b) \/ FinishBackground(b)
    \/ OnNotification \/ ReaderSchedules
    \/ \E l \in Logins : LoginEnds(l) \/ AccountReloads(l)

LEMMA NextCases ==
    ASSUME [Next]_vars
    PROVE  \/ \E t \in Callers : CallerActions(t)
           \/ \E t \in Threads : ThreadActions(t)
           \/ OtherActions
           \/ UNCHANGED vars
<1>1. \A t \in Callers : Does[t] \subseteq Command
  BY AccountAssumption
<1>2. CASE \E t \in Callers : \E command \in Does[t] : Execute(t, command)
  BY <1>1, <1>2 DEF CallerActions
<1>3. CASE \E t \in Threads : ThreadStep(t)
  BY <1>3 DEF ThreadStep, RefreshStep, Serve, CallerStep, CallerActions, ThreadActions,
              OtherActions
<1>4. CASE Rest
  BY <1>4 DEF Rest
<1>5. QED
  BY <1>2, <1>3, <1>4 DEF Next, ReaderStep, OtherActions

LEMMA NoticesStep ==
    ASSUME SafeInv, [Next]_vars
    PROVE  NoticesGood'
<1>1. \/ notices' = notices
      \/ notices' = <<>>
      \/ notices' = Tail(notices) /\ notices # <<>>
      \/ notices' = notices \o Notice("updated", 0)
      \/ \E l \in Logins : notices' = notices \o Notice("completed", l)
  <2>1. CASE \E t \in Callers : CallerActions(t)
    BY <2>1
    DEF CallerActions, Execute, EnterGate, CancelAnswered, PrepareLogin, LoginRefused,
        FinishLoginStart, LoginWasCompleted, OpenBrowser, UndoAnswered, UndoStatus,
        BeginLogout, LogoutAnswered, LookAtStatus, Publish, serverVars, otherServerVars
  <2>2. CASE \E t \in Threads : ThreadActions(t)
    BY <2>2
    DEF ThreadActions, BeginRefresh, Read, PublishRefresh, ServeRead, ServeCancel,
        ServeLogin, ServeLogout, RequestFails, serverVars, otherServerVars
  <2>3. CASE OtherActions
    BY <2>3
    DEF OtherActions, Connect, Disconnect, PublishSwitch, RunBackground, FinishBackground,
        OnNotification, ReaderSchedules, LoginEnds, AccountReloads, serverVars,
        otherServerVars
  <2>4. QED
    BY <2>1, <2>2, <2>3, NextCases DEF vars, serverVars, otherServerVars
<1>2. CASE notices' = notices \/ notices' = <<>>
  BY <1>2 DEF SafeInv, NoticesGood, Queued
<1>3. CASE notices' = Tail(notices) /\ notices # <<>>
  BY <1>3, QueuedTail DEF SafeInv, NoticesGood
<1>4. CASE notices' = notices \o Notice("updated", 0)
  <2>1. Queued' = Queued \cup {[kind |-> "updated", login |-> 0, connection |-> connection]}
    BY <1>4, QueuedAppended DEF SafeInv
  <2>2. QED
    BY <2>1 DEF SafeInv, NoticesGood
<1>5. ASSUME NEW l \in Logins, notices' = notices \o Notice("completed", l)
      PROVE  NoticesGood'
  <2>1. Queued' = Queued \cup {[kind |-> "completed", login |-> l, connection |-> connection]}
    BY <1>5, QueuedAppended DEF SafeInv
  <2>2. QED
    BY <2>1 DEF SafeInv, NoticesGood
<1>6. QED
  BY <1>1, <1>2, <1>3, <1>4, <1>5

LEMMA SafeStep ==
    ASSUME SafeInv, [Next]_vars
    PROVE  SafeInv'
<1>1. BaseInv /\ NoticesGood
  BY DEF SafeInv
<1>2. CASE \E t \in Callers : CallerActions(t)
  BY <1>1, <1>2, ExecuteBase, EnterGateBase, CancelAnsweredBase, PrepareLoginBase,
     LoginRefusedBase, FinishLoginStartBase, LoginWasCompletedBase, OpenBrowserBase,
     UndoAnsweredBase, UndoStatusBase, BeginLogoutBase, LogoutAnsweredBase,
     LookAtStatusBase, PublishBase, NoticesStep
  DEF CallerActions, SafeInv
<1>3. CASE \E t \in Threads : ThreadActions(t)
  BY <1>1, <1>3, BeginRefreshBase, ReadBase, PublishRefreshBase, ServeReadBase,
     ServeCancelBase, ServeLoginBase, ServeLogoutBase, RequestFailsBase, NoticesStep
  DEF ThreadActions, SafeInv
<1>4. CASE OtherActions
  BY <1>1, <1>4, ConnectBase, DisconnectBase, PublishSwitchBase, RunBackgroundBase,
     FinishBackgroundBase, OnNotificationBase, ReaderSchedulesBase, LoginEndsBase,
     NoticesStep
  DEF OtherActions, SafeInv
<1>5. CASE UNCHANGED vars
  <2>1. ThreadsGood'
    BY <1>1, <1>5, ThreadsStay DEF vars, stateVars, lockVars
  <2>2. BaseInv'
    BY <1>1, <1>5, <2>1, StateTyped, ReaderTyped, OtherStep
    DEF vars, stateVars, publicVars, lockVars, serverVars, otherServerVars,
        PendingHasAttempt
  <2>3. QED
    BY <2>2, NoticesStep DEF SafeInv
<1>6. QED
  BY <1>2, <1>3, <1>4, <1>5, NextCases

LEMMA SafeInit == Init => SafeInv
<1> SUFFICES ASSUME Init PROVE SafeInv
  OBVIOUS
<1> USE AccountFacts DEF Init
<1>1. Typed
  <2>1. /\ <<>> \in Seq(Logins) /\ <<>> \in Seq(NoticeState) /\ Len(<<>>) = 0
    OBVIOUS
  <2>2. Idle.pc \in Pc /\ Idle.reply = "none"
    BY DEF Pc, Idle
  <2>3. revision \in 0..MaxSwitches /\ revision % 2 = 0 /\ 0 \in 0..MaxLogins
        /\ 1 \in 1..MaxLogins + 1
    OBVIOUS
  <2>4. TypeOK
    BY <2>1, <2>2, <2>3 DEF TypeOK, Status
  <2>5. thread \in [Threads -> ThreadState]
    OBVIOUS
  <2>6. QED
    BY <2>1, <2>3, <2>4, <2>5 DEF Typed
<1>2. Flow
  BY DEF Flow, FlowOK, BackgroundPc, Idle
<1>3. Captured
  BY DEF Captured, Idle
<1>4. Locks
  BY DEF Locks, GatePc, BrowserPc, Idle
<1>5. PendingHasAttempt
  BY DEF PendingHasAttempt
<1>6. RefreshesGood
  BY DEF RefreshesGood, Refreshes, At, Idle
<1>7. NoticesGood
  BY DEF NoticesGood, Queued
<1>8. QED
  BY <1>1, <1>2, <1>3, <1>4, <1>5, <1>6, <1>7 DEF SafeInv, BaseInv

LEMMA SafeInvariant == Spec => []SafeInv
<1>1. QED
  BY SafeInit, SafeStep, PTL DEF Spec

(***************************************************************************)
(* At every step, whichever way commands, refreshes, notifications and     *)
(* reconnects overlap: the state is well formed, the service waits for the *)
(* browser exactly while it holds an attempt of a live connection, the     *)
(* browser is opened for a login of the connection in use, and at most one *)
(* background refresh works for a connection.                              *)
(***************************************************************************)
THEOREM AccountWellFormed == Spec => []AccountInv
<1>1. SafeInv => AccountInv
  <2> SUFFICES ASSUME SafeInv PROVE AccountInv
    OBVIOUS
  <2>1. TypeOK /\ PendingHasAttempt
    BY DEF SafeInv, BaseInv, Typed
  <2>2. OpenedWhileCurrent
    BY DEF SafeInv, BaseInv, Locks, OpenedWhileCurrent, BrowserPc, At
  <2>3. OneBackgroundRefresh
    BY DEF SafeInv, BaseInv, RefreshesGood, Refreshes, OneBackgroundRefresh
  <2>4. QED
    BY <2>1, <2>2, <2>3 DEF AccountInv
<1>2. QED
  BY <1>1, SafeInvariant, PTL

-----------------------------------------------------------------------------
(***************************************************************************)
(* PublishUnderWay.                                                        *)
(***************************************************************************)
LEMMA PublishMove ==
    ASSUME SafeInv, PublishUnderWay, NEW t \in Threads, NEW h,
           thread' = [thread EXCEPT ![t] = h], UNCHANGED revision,
           \/ Tells(h, status')
           \/ status' = "checking"
           \/ published' = status'
           \/ UNCHANGED <<status, published, switching>> /\ ~Tells(thread[t], status)
    PROVE  PublishUnderWay'
<1>1. /\ thread'[t] = h
      /\ \A u \in Threads : u # t => thread'[u] = thread[u]
  BY DEF SafeInv, BaseInv, Typed
<1>2. CASE Tells(h, status')
  BY <1>1, <1>2 DEF PublishUnderWay
<1>3. CASE status' = "checking" \/ published' = status'
  BY <1>3 DEF PublishUnderWay
<1>4. CASE UNCHANGED <<status, published, switching>> /\ ~Tells(thread[t], status)
  <2>1. \A u \in Threads : Tells(thread[u], status) => Tells(thread'[u], status')
    BY <1>1, <1>4
  <2>2. QED
    BY <1>4, <2>1 DEF PublishUnderWay
<1>5. QED
  BY <1>2, <1>3, <1>4

\* A command that returns reply will publish it.
LEMMA ReturnTells ==
    ASSUME NEW reply
    PROVE  Tells(Returned(reply), reply)
BY DEF Tells, Returned, Idle

LEMMA GotoTells ==
    ASSUME SafeInv, PublishUnderWay, NEW t \in Threads, NEW where, Goto(t, where),
           where \in {"look", "opening", "scheduling", "undoing", "undone", "undoneStatus"},
           UNCHANGED revision
    PROVE  PublishUnderWay'
<1>1. thread' = [thread EXCEPT ![t] = At2(t, where)]
  BY DEF Goto, At2
<1>2. Tells(At2(t, where), status')
  BY ThreadTyped DEF SafeInv, Tells, At2, ThreadState
<1>3. QED
  BY <1>1, <1>2, PublishMove

LEMMA CallerPublish ==
    ASSUME SafeInv, PublishUnderWay, NEW t \in Callers, CallerActions(t)
    PROVE  PublishUnderWay'
<1>0. t \in Threads
  BY AccountFacts
<1> USE <1>0
<1>1. ASSUME NEW command \in Command, Execute(t, command) PROVE PublishUnderWay'
  BY <1>1, PublishMove DEF Execute, At, Tells, stateVars, publicVars
<1>2. CASE EnterGate(t)
  BY <1>2, PublishMove DEF EnterGate, At, Tells, stateVars, publicVars
<1>3. CASE CancelAnswered(t)
  <2>1. CASE thread[t].reply = "ok"
    <3>1. status' = "checking" \/ UNCHANGED <<status, published, switching>>
      BY <1>3, <2>1 DEF CancelAnswered, Cleared, publicVars
    <3>2. thread' = [thread EXCEPT ![t] = At2(t, AfterCancel(thread[t].command))]
      BY <1>3, <2>1 DEF CancelAnswered, Goto, At2
    <3>3. ~Tells(thread[t], status) /\ UNCHANGED revision
      BY <1>3 DEF CancelAnswered, At, Tells
    <3>4. QED
      BY <3>1, <3>2, <3>3, PublishMove
  <2>2. CASE thread[t].reply # "ok"
    BY <1>3, <2>2, ReturnTells, PublishMove DEF CancelAnswered, Return, Returned
  <2>3. QED
    BY <2>1, <2>2
<1>4. CASE PrepareLogin(t)
  <2>1. CASE connection = 0
    BY <1>4, <2>1, ReturnTells, PublishMove DEF PrepareLogin, Return, Returned
  <2>2. CASE connection # 0
    BY <1>4, <2>2, PublishMove DEF PrepareLogin, At, Tells, publicVars
  <2>3. QED
    BY <2>1, <2>2
<1>5. CASE LoginRefused(t)
  <2>1. CASE Return(t, status')
    BY <1>5, <2>1, ReturnTells, PublishMove DEF LoginRefused, Return, Returned
  <2>2. CASE Goto(t, "undoing")
    BY <1>5, <2>2, GotoTells DEF LoginRefused
  <2>3. QED
    BY <1>5, <2>1, <2>2 DEF LoginRefused
<1>6. CASE FinishLoginStart(t)
  <2>1. PICK where \in {"undoing", "scheduling", "opening"} : Goto(t, where)
    BY <1>6 DEF FinishLoginStart
  <2>2. QED
    BY <1>6, <2>1, GotoTells DEF FinishLoginStart
<1>7. CASE LoginWasCompleted(t)
  <2>1. thread'[t] = [thread[t] EXCEPT !.pc = "look"]
    <3>1. t \notin Background
      BY AccountFacts
    <3>2. QED
      BY <1>7, <3>1 DEF LoginWasCompleted, ScheduleRefresh, SafeInv, BaseInv, Typed
  <2>2. Tells(thread'[t], status')
    BY <2>1, ThreadTyped DEF SafeInv, ThreadState, Tells
  <2>3. QED
    BY <2>2 DEF PublishUnderWay
<1>8. CASE OpenBrowser(t)
  <2>1. CASE Return(t, status)
    BY <1>8, <2>1, ReturnTells, PublishMove DEF OpenBrowser, Return, Returned, stateVars
  <2>2. CASE Goto(t, "undoing")
    BY <1>8, <2>2, GotoTells DEF OpenBrowser, stateVars
  <2>3. QED
    BY <1>8, <2>1, <2>2 DEF OpenBrowser
<1>9. CASE UndoAnswered(t)
  <2>1. PICK where \in {"undoneStatus", "look"} : Goto(t, where)
    BY <1>9 DEF UndoAnswered
  <2>2. QED
    BY <1>9, <2>1, GotoTells DEF UndoAnswered
<1>10. CASE UndoStatus(t)
  BY <1>10, ReturnTells, PublishMove DEF UndoStatus, Return, Returned
<1>11. CASE BeginLogout(t)
  BY <1>11, PublishMove DEF BeginLogout, Return, At, Tells, stateVars, publicVars
<1>12. CASE LogoutAnswered(t)
  BY <1>12, PublishMove DEF LogoutAnswered, Return, Goto, At, Tells, stateVars, publicVars
<1>13. CASE LookAtStatus(t)
  BY <1>13, ReturnTells, PublishMove DEF LookAtStatus, Return, Returned, stateVars
<1>14. CASE Publish(t)
  BY <1>14, PublishMove DEF Publish, PublishStatus, At, Tells, stateVars
<1>15. QED
  BY <1>1, <1>2, <1>3, <1>4, <1>5, <1>6, <1>7, <1>8, <1>9, <1>10, <1>11, <1>12, <1>13, <1>14
  DEF CallerActions

\* An answer leaves a thread that undoes a login on its way.
LEMMA AnswerTells ==
    ASSUME SafeInv, PublishUnderWay, NEW t \in Threads, NEW reply, Answered(t, reply),
           thread[t].pc \in Asking, UNCHANGED <<revision, status, publicVars>>
    PROVE  PublishUnderWay'
<1>1. CASE thread[t].pc = "undoing"
  <2>1. thread'[t].pc = "undone"
    BY <1>1, ThreadTyped DEF Answered, SafeInv, BaseInv, Typed, ThreadState
  <2>2. QED
    BY <2>1 DEF PublishUnderWay, Tells
<1>2. CASE thread[t].pc # "undoing"
  <2>1. ~Tells(thread[t], status)
    BY <1>2 DEF Tells, Asking
  <2>2. thread' = [thread EXCEPT ![t] = WithAnswer(t, reply)]
    BY AnsweredShape DEF SafeInv
  <2>3. QED
    BY <2>1, <2>2, PublishMove DEF publicVars
<1>3. QED
  BY <1>1, <1>2

LEMMA ThreadPublish ==
    ASSUME SafeInv, PublishUnderWay, NEW t \in Threads, ThreadActions(t)
    PROVE  PublishUnderWay'
<1>1. CASE BeginRefresh(t)
  BY <1>1, PublishMove DEF BeginRefresh, At, Tells, publicVars
<1>2. CASE Read(t)
  <2>1. thread' = [thread EXCEPT ![t] = [thread[t] EXCEPT !.pc = "refreshed", !.reply = status']]
    BY <1>2 DEF Read
  <2>2. Tells([thread[t] EXCEPT !.pc = "refreshed", !.reply = status'], status')
    BY ThreadTyped DEF SafeInv, ThreadState, Tells
  <2>3. QED
    BY <1>2, <2>1, <2>2, PublishMove DEF Read
<1>3. CASE PublishRefresh(t)
  BY <1>3, PublishMove DEF PublishRefresh, PublishStatus, At, Tells, stateVars
<1>4. CASE ServeRead(t) \/ ServeCancel(t) \/ ServeLogout(t) \/ RequestFails(t)
  BY <1>4, AnswerTells
  DEF ServeRead, ServeCancel, ServeLogout, RequestFails, At, Asking, stateVars
<1>5. CASE ServeLogin(t)
  <2>1. ~Tells(thread[t], status)
    BY <1>5 DEF ServeLogin, At, Tells
  <2>2. thread' = [thread EXCEPT ![t] = thread'[t]]
    BY <1>5 DEF ServeLogin, SafeInv, BaseInv, Typed
  <2>3. QED
    BY <1>5, <2>1, <2>2, PublishMove DEF ServeLogin, stateVars, publicVars
<1>6. QED
  BY <1>1, <1>2, <1>3, <1>4, <1>5 DEF ThreadActions

LEMMA OtherPublish ==
    ASSUME SafeInv, PublishUnderWay, OtherActions
    PROVE  PublishUnderWay'
<1>1. CASE Connect \/ Disconnect
  BY <1>1 DEF Connect, Disconnect, SwitchConnection, PublishUnderWay
<1>2. CASE PublishSwitch
  BY <1>2 DEF PublishSwitch, PublishStatus, PublishUnderWay, stateVars
<1>3. ASSUME NEW b \in Background, RunBackground(b) \/ FinishBackground(b)
      PROVE  PublishUnderWay'
  <2>1. b \in Threads
    BY AccountFacts
  <2>2. ~Tells(thread[b], status)
    BY <1>3 DEF RunBackground, FinishBackground, At, Tells
  <2>3. thread' = [thread EXCEPT ![b] = thread'[b]]
    BY <1>3, <2>1 DEF RunBackground, FinishBackground, Goto, SafeInv, BaseInv, Typed
  <2>4. QED
    BY <1>3, <2>1, <2>2, <2>3, PublishMove DEF RunBackground, FinishBackground, publicVars
<1>4. CASE OnNotification
  BY <1>4 DEF OnNotification, HandleCompleted, PublishUnderWay, publicVars
<1>5. CASE ReaderSchedules
  <2>1. CASE thread' = thread
    BY <1>5, <2>1 DEF ReaderSchedules, PublishUnderWay, publicVars
  <2>2. ASSUME NEW b \in Background, At(b, "idle"),
               thread' = [thread EXCEPT ![b] = [Idle EXCEPT !.pc = "spawned", !.task = reader]]
        PROVE  PublishUnderWay'
    <3>1. b \in Threads /\ ~Tells(thread[b], status)
      BY <2>2, AccountFacts DEF At, Tells
    <3>2. QED
      BY <1>5, <2>2, <3>1, PublishMove DEF ReaderSchedules, publicVars
  <2>3. QED
    BY <1>5, <2>1, <2>2 DEF ReaderSchedules, ScheduleRefresh
<1>6. ASSUME NEW l \in Logins, LoginEnds(l) \/ AccountReloads(l)
      PROVE  PublishUnderWay'
  BY <1>6 DEF LoginEnds, AccountReloads, PublishUnderWay, stateVars, publicVars
<1>7. QED
  BY <1>1, <1>2, <1>3, <1>4, <1>5, <1>6 DEF OtherActions

(***************************************************************************)
(* At rest the user interface was told what the service holds, unless that *)
(* is "checking": no status is set that nobody publishes, and none is      *)
(* published over a newer one.                                             *)
(***************************************************************************)
THEOREM StatusIsPublished == Spec => []PublishedAtRest
<1>1. Init => PublishUnderWay
  BY DEF Init, PublishUnderWay
<1>2. SafeInv /\ PublishUnderWay /\ [Next]_vars => PublishUnderWay'
  <2> SUFFICES ASSUME SafeInv, PublishUnderWay, [Next]_vars PROVE PublishUnderWay'
    OBVIOUS
  <2>1. CASE UNCHANGED vars
    BY <2>1 DEF vars, stateVars, publicVars, PublishUnderWay
  <2>2. QED
    BY <2>1, NextCases, CallerPublish, ThreadPublish, OtherPublish
<1>3. SafeInv /\ PublishUnderWay => PublishedAtRest
  <2> SUFFICES ASSUME SafeInv, PublishUnderWay, AtRest, revision # 0
               PROVE  published = status \/ status = "checking"
    BY DEF PublishedAtRest
  <2>1. \A t \in Threads : ~Tells(thread[t], status)
    BY DEF AtRest, At, Tells
  <2>2. switching # status
    BY StateTyped DEF AtRest, SafeInv, Status, Account
  <2>3. QED
    BY <2>1, <2>2 DEF PublishUnderWay
<1>4. QED
  BY <1>1, <1>2, <1>3, SafeInvariant, PTL DEF Spec

-----------------------------------------------------------------------------
(***************************************************************************)
(* TruthUnderWay.                                                          *)
(***************************************************************************)
ReadPc == {"reading", "read"}

\* Neither the answers that are awaited nor the refreshes to come are lost.
LEMMA TruthFrame ==
    ASSUME SafeInv, TruthUnderWay, UNCHANGED <<connection, revision, account>>,
           0 \in unsure => 0 \in unsure',
           connection # 0 /\ 0 \notin unsure' /\ RefreshComing => RefreshComing',
           \A u \in Threads : thread[u].pc \in ReadPc \/ thread'[u].pc \in ReadPc =>
               thread'[u] = thread[u],
           \/ UNCHANGED <<status, latest>>
           \/ status' \notin Account /\ latest' \in {latest, NoThread}
    PROVE  TruthUnderWay'
<1> SUFFICES ASSUME connection # 0, 0 \notin unsure'
             PROVE  /\ status' \in Account =>
                          status' = account' \/ RefreshComing' \/ LatestReads'
                    /\ LatestReads' /\ At(latest, "read")' =>
                          thread'[latest'].reply \in {account', "unavailable"} \/ RefreshComing'
  BY DEF TruthUnderWay
<1>1. /\ status \in Account => status = account \/ RefreshComing \/ LatestReads
      /\ LatestReads /\ At(latest, "read") =>
            thread[latest].reply \in {account, "unavailable"} \/ RefreshComing
  BY DEF TruthUnderWay
<1>2. NoThread \notin Threads
  BY AccountFacts
<1>3. LatestReads' => LatestReads /\ latest' = latest /\ thread'[latest] = thread[latest]
  BY <1>2 DEF LatestReads, ReadPc
<1>4. UNCHANGED latest => (LatestReads => LatestReads')
  BY DEF LatestReads, ReadPc
<1>5. QED
  BY <1>1, <1>3, <1>4 DEF At

LEMMA TruthMove ==
    ASSUME SafeInv, TruthUnderWay, NEW t \in Threads, NEW h,
           thread' = [thread EXCEPT ![t] = h],
           UNCHANGED <<connection, revision, reader, background, notices, account>>,
           0 \in unsure => 0 \in unsure',
           thread[t].pc \notin ReadPc \cup {"refresh"}, h.pc \notin ReadPc,
           \/ UNCHANGED <<status, latest>>
           \/ status' \notin Account /\ latest' \in {latest, NoThread}
    PROVE  TruthUnderWay'
<1>1. /\ thread'[t] = h
      /\ \A u \in Threads : u # t => thread'[u] = thread[u]
  BY DEF SafeInv, BaseInv, Typed
<1>2. RefreshComing => RefreshComing'
  BY <1>1 DEF RefreshComing, Queued, At
<1>3. \A u \in Threads : thread[u].pc \in ReadPc \/ thread'[u].pc \in ReadPc =>
        thread'[u] = thread[u]
  BY <1>1
<1>4. QED
  BY <1>2, <1>3, TruthFrame

LEMMA ReturnTruth ==
    ASSUME SafeInv, TruthUnderWay, NEW t \in Threads, NEW reply, Return(t, reply),
           UNCHANGED <<connection, revision, reader, background, notices, account, unsure>>,
           thread[t].pc \notin ReadPc \cup {"refresh"},
           \/ UNCHANGED <<status, latest>>
           \/ status' \notin Account /\ latest' \in {latest, NoThread}
    PROVE  TruthUnderWay'
<1>1. thread' = [thread EXCEPT ![t] = Returned(reply)]
  BY DEF Return, Returned
<1>2. Returned(reply).pc \notin ReadPc
  BY DEF Returned, Idle, ReadPc
<1>3. QED
  BY <1>1, <1>2, TruthMove

LEMMA GotoTruth ==
    ASSUME SafeInv, TruthUnderWay, NEW t \in Threads, NEW where, Goto(t, where),
           where \notin ReadPc,
           UNCHANGED <<connection, revision, reader, background, notices, account, unsure>>,
           thread[t].pc \notin ReadPc \cup {"refresh"},
           \/ UNCHANGED <<status, latest>>
           \/ status' \notin Account /\ latest' \in {latest, NoThread}
    PROVE  TruthUnderWay'
<1>1. thread' = [thread EXCEPT ![t] = At2(t, where)]
  BY DEF Goto, At2
<1>2. At2(t, where).pc \notin ReadPc
  BY ThreadTyped DEF SafeInv, At2, ThreadState
<1>3. QED
  BY <1>1, <1>2, TruthMove

\* Scheduling a refresh for the connection in use makes sure of one, or marks its loss.
LEMMA ScheduleTruth ==
    ASSUME SafeInv, TruthUnderWay, NEW r, NEW others, ScheduleRefresh(r, others),
           DOMAIN others = Threads,
           \A u \in Threads :
               \/ others[u] = thread[u]
               \/ {thread[u].pc, others[u].pc} \cap (ReadPc \cup {"refresh"}) = {},
           UNCHANGED <<connection, revision, status, latest, account, notices>>,
           reader' = reader \/ r = reader
    PROVE  TruthUnderWay'
<1>1. 0 \in unsure => 0 \in unsure'
  BY DEF ScheduleRefresh
<1>2. \A u \in Threads : /\ thread[u].pc \in ReadPc \/ thread'[u].pc \in ReadPc =>
                                thread'[u] = thread[u]
                         /\ thread[u].pc = "refresh" => thread'[u].pc = "refresh"
  <2>1. CASE thread' = others
    BY <2>1
  <2>2. ASSUME NEW b \in Background, At(b, "idle"),
               thread' = [others EXCEPT ![b] = [Idle EXCEPT !.pc = "spawned", !.task = r]]
        PROVE  \A u \in Threads : /\ thread[u].pc \in ReadPc \/ thread'[u].pc \in ReadPc =>
                                         thread'[u] = thread[u]
                                  /\ thread[u].pc = "refresh" => thread'[u].pc = "refresh"
    <3>1. b \in Threads
      BY AccountFacts
    <3>2. thread'[b].pc = "spawned" /\ \A u \in Threads : u # b => thread'[u] = others[u]
      BY <2>2, <3>1 DEF Idle
    <3>3. QED
      BY <2>2, <3>2 DEF At, ReadPc
  <2>3. QED
    BY <2>1, <2>2 DEF ScheduleRefresh
<1>3. ASSUME connection # 0, 0 \notin unsure', RefreshComing
      PROVE  RefreshComing'
  <2>1. IsCurrent(r) => background' \in {"scheduled", "requested"}
    BY <1>3, ReaderTyped DEF ScheduleRefresh, SafeInv
  <2>2. background \in {"scheduled", "requested"} => background' \in {"scheduled", "requested"}
    BY DEF ScheduleRefresh
  <2>3. reader = revision => reader' = revision' \/ background' \in {"scheduled", "requested"}
    BY <1>3, <2>1 DEF IsCurrent
  <2>4. QED
    BY <1>2, <1>3, <2>2, <2>3 DEF RefreshComing, Queued, At
<1>4. QED
  BY <1>1, <1>2, <1>3, TruthFrame

LEMMA CallerTruth ==
    ASSUME SafeInv, TruthUnderWay, NEW t \in Callers, CallerActions(t)
    PROVE  TruthUnderWay'
<1>0. t \in Threads /\ \A s \in {"checking", "pending", "loginError"} : s \notin Account
  BY AccountFacts DEF Account
<1> USE <1>0 DEF serverVars, otherServerVars
<1>1. ASSUME NEW command \in Command, Execute(t, command) PROVE TruthUnderWay'
  <2> DEFINE h == [Idle EXCEPT !.command = command,
                       !.pc = IF connection = 0 THEN "publish"
                              ELSE IF command = "getStatus" THEN "refresh" ELSE "gate",
                       !.reply = IF connection = 0 THEN "unavailable" ELSE "none"]
  <2>1. h.pc \notin ReadPc /\ thread' = [thread EXCEPT ![t] = h]
    BY <1>1 DEF ReadPc, Idle, Execute
  <2> HIDE DEF h
  <2>2. QED
    BY <1>1, <2>1, TruthMove DEF Execute, At, ReadPc, stateVars
<1>2. CASE EnterGate(t)
  <2>1. AfterCancel(thread[t].command) \in {"prepare", "refresh", "leaving"}
    BY <1>2, ThreadTyped, AfterCancelCases DEF FlowOK, EnterGate, At, SafeInv
  <2>2. thread'[t].pc \in {"prepare", "refresh", "leaving", "canceling"}
    BY <1>2, <2>1, ThreadTyped DEF EnterGate, SafeInv, BaseInv, Typed, ThreadState
  <2>3. thread' = [thread EXCEPT ![t] = thread'[t]]
    BY <1>2 DEF EnterGate, SafeInv, BaseInv, Typed
  <2>4. QED
    BY <1>2, <2>2, <2>3, TruthMove DEF EnterGate, At, ReadPc, stateVars
<1>3. CASE CancelAnswered(t)
  <2>1. AfterCancel(thread[t].command) \in {"prepare", "refresh", "leaving"}
    BY <1>3, ThreadTyped, AfterCancelCases DEF FlowOK, CancelAnswered, At, SafeInv
  <2>2. \/ UNCHANGED <<status, latest>>
        \/ status' \notin Account /\ latest' \in {latest, NoThread}
    BY <1>3 DEF CancelAnswered, Cleared
  <2>3. QED
    BY <1>3, <2>1, <2>2, GotoTruth, ReturnTruth DEF CancelAnswered, At, ReadPc
<1>4. CASE PrepareLogin(t)
  <2>1. CASE connection = 0
    BY <1>4, <2>1, ReturnTruth DEF PrepareLogin, At, ReadPc
  <2>2. CASE connection # 0
    <3>1. thread'[t].pc = "starting" /\ thread' = [thread EXCEPT ![t] = thread'[t]]
      BY <1>4, <2>2, ThreadTyped, ZenonT(40) DEF PrepareLogin, SafeInv, BaseInv, Typed, ThreadState
    <3>2. QED
      BY <1>4, <2>2, <3>1, TruthMove DEF PrepareLogin, At, ReadPc
  <2>3. QED
    BY <2>1, <2>2
<1>5. CASE LoginRefused(t)
  <2>1. \/ UNCHANGED <<status, latest>>
        \/ status' \notin Account /\ latest' \in {latest, NoThread}
    BY <1>5 DEF LoginRefused, SetStatusFor
  <2>2. QED
    BY <1>5, <2>1, GotoTruth, ReturnTruth DEF LoginRefused, At, ReadPc
<1>6. CASE FinishLoginStart(t)
  <2>1. PICK where \in {"undoing", "scheduling", "opening"} : Goto(t, where)
    BY <1>6 DEF FinishLoginStart
  <2>2. \/ UNCHANGED <<status, latest>>
        \/ status' \notin Account /\ latest' \in {latest, NoThread}
    BY <1>6 DEF FinishLoginStart
  <2>3. QED
    BY <1>6, <2>1, <2>2, GotoTruth DEF FinishLoginStart, At, ReadPc
<1>7. CASE LoginWasCompleted(t)
  <2> DEFINE others == [thread EXCEPT ![t].pc = "look"]
  <2>1. /\ DOMAIN others = Threads
        /\ others[t].pc = "look"
        /\ \A u \in Threads : u # t => others[u] = thread[u]
    BY ThreadTyped DEF SafeInv, BaseInv, Typed, ThreadState
  <2> HIDE DEF others
  <2>2. \A u \in Threads :
          \/ others[u] = thread[u]
          \/ {thread[u].pc, others[u].pc} \cap (ReadPc \cup {"refresh"}) = {}
    BY <1>7, <2>1 DEF LoginWasCompleted, At, ReadPc
  <2>3. QED
    BY <1>7, <2>1, <2>2, ScheduleTruth DEF LoginWasCompleted, others
<1>8. CASE OpenBrowser(t)
  BY <1>8, GotoTruth, ReturnTruth DEF OpenBrowser, At, ReadPc, stateVars
<1>9. CASE UndoAnswered(t)
  <2>1. PICK where \in {"undoneStatus", "look"} : Goto(t, where)
    BY <1>9 DEF UndoAnswered
  <2>2. \/ UNCHANGED <<status, latest>>
        \/ status' \notin Account /\ latest' \in {latest, NoThread}
    BY <1>9 DEF UndoAnswered, Cleared
  <2>3. QED
    BY <1>9, <2>1, <2>2, GotoTruth DEF UndoAnswered, At, ReadPc
<1>10. CASE UndoStatus(t)
  <2>1. \/ UNCHANGED <<status, latest>>
        \/ status' \notin Account /\ latest' \in {latest, NoThread}
    BY <1>10 DEF UndoStatus, SetStatusFor
  <2>2. QED
    BY <1>10, <2>1, ReturnTruth DEF UndoStatus, At, ReadPc
<1>11. CASE BeginLogout(t)
  <2>1. CASE connection = 0
    BY <1>11, <2>1, ReturnTruth DEF BeginLogout, At, ReadPc, stateVars
  <2>2. CASE connection # 0
    <3>1. thread'[t].pc = "loggingOut" /\ thread' = [thread EXCEPT ![t] = thread'[t]]
      BY <1>11, <2>2, ThreadTyped, ZenonT(40) DEF BeginLogout, SafeInv, BaseInv, Typed, ThreadState
    <3>2. QED
      BY <1>11, <2>2, <3>1, TruthMove DEF BeginLogout, At, ReadPc, stateVars
  <2>3. QED
    BY <2>1, <2>2
<1>12. CASE LogoutAnswered(t)
  BY <1>12, GotoTruth, ReturnTruth DEF LogoutAnswered, At, ReadPc, stateVars
<1>13. CASE LookAtStatus(t)
  BY <1>13, ReturnTruth DEF LookAtStatus, At, ReadPc, stateVars
<1>14. CASE Publish(t)
  <2>1. Idle.pc \notin ReadPc
    BY DEF Idle, ReadPc
  <2>2. QED
    BY <1>14, <2>1, TruthMove DEF Publish, At, ReadPc, stateVars
<1>15. QED
  BY <1>1, <1>2, <1>3, <1>4, <1>5, <1>6, <1>7, <1>8, <1>9, <1>10, <1>11, <1>12, <1>13, <1>14
  DEF CallerActions

\* A refresh that is answered has the account of now, or no account.
LEMMA ReadingAnswered ==
    ASSUME SafeInv, TruthUnderWay, NEW t \in Threads, At(t, "reading"),
           NEW reply \in {account, "unavailable"}, Answered(t, reply),
           UNCHANGED <<stateVars, reader, notices, account, unsure>>
    PROVE  TruthUnderWay'
<1>1. thread' = [thread EXCEPT ![t] = WithAnswer(t, reply)]
  BY AnsweredShape DEF SafeInv
<1>2. AnswerPc("reading") = "read"
  BY DEF AnswerPc
<1>3. /\ WithAnswer(t, reply).pc = "read" /\ WithAnswer(t, reply).reply = reply
      /\ WithAnswer(t, reply).revision = thread[t].revision
  BY <1>2, ThreadTyped DEF WithAnswer, At, SafeInv, ThreadState
<1>4. /\ thread'[t].pc = "read" /\ thread'[t].reply = reply
      /\ thread'[t].revision = thread[t].revision
      /\ \A u \in Threads : u # t => thread'[u] = thread[u]
  BY <1>1, <1>3 DEF SafeInv, BaseInv, Typed
<1>5. UNCHANGED <<connection, revision, background, status, latest, account, unsure>>
  BY DEF stateVars
<1>6. RefreshComing => RefreshComing'
  BY <1>4, <1>5 DEF RefreshComing, Queued, At
<1>7. LatestReads' <=> LatestReads
  BY <1>4, <1>5 DEF LatestReads, At
<1>8. LatestReads' /\ At(latest, "read")' =>
        \/ thread'[latest'].reply \in {account', "unavailable"}
        \/ LatestReads /\ At(latest, "read") /\ thread'[latest'].reply = thread[latest].reply
  BY <1>4, <1>5, <1>7 DEF LatestReads, At
<1>9. QED
  BY <1>5, <1>6, <1>7, <1>8 DEF TruthUnderWay

\* An answer that is taken is the one the latest refresh got.
LEMMA ReadTruth ==
    ASSUME SafeInv, TruthUnderWay, NEW t \in Threads, Read(t)
    PROVE  TruthUnderWay'
<1>1. /\ thread'[t].pc = "refreshed"
      /\ \A u \in Threads : u # t => thread'[u] = thread[u]
  BY ThreadTyped DEF Read, SafeInv, BaseInv, Typed, ThreadState
<1>2. /\ UNCHANGED <<connection, revision, background, latest, account, unsure, notices,
                     attempt, reader>>
      /\ At(t, "read")
  BY DEF Read, serverVars, otherServerVars
<1>3. RefreshComing => RefreshComing'
  BY <1>1, <1>2 DEF RefreshComing, Queued, At
<1>4. CASE thread[t].revision = revision /\ latest = t /\ attempt = 0
  <2>1. LatestReads /\ At(latest, "read") /\ status' = thread[latest].reply
    BY <1>2, <1>4 DEF LatestReads, At, Read
  <2>2. ~LatestReads'
    BY <1>1, <1>2, <1>4 DEF LatestReads
  <2>3. "unavailable" \notin Account
    BY DEF Account
  <2>4. QED
    BY <1>2, <1>3, <2>1, <2>2, <2>3 DEF TruthUnderWay
<1>5. CASE latest # t
  <2>1. UNCHANGED status
    BY <1>5 DEF Read
  <2>2. LatestReads' <=> LatestReads
    BY <1>1, <1>2, <1>5 DEF LatestReads
  <2>3. LatestReads => thread'[latest'] = thread[latest]
    BY <1>1, <1>2, <1>5 DEF LatestReads
  <2>4. QED
    BY <1>2, <1>3, <2>1, <2>2, <2>3 DEF TruthUnderWay, At
<1>6. CASE latest = t /\ ~(thread[t].revision = revision /\ attempt = 0)
  <2>1. UNCHANGED status /\ ~LatestReads'
    BY <1>1, <1>2, <1>6 DEF Read, LatestReads
  <2>2. status \in Account => ~LatestReads
    BY <1>6, StateTyped DEF LatestReads, SafeInv, PendingHasAttempt
  <2>3. QED
    BY <1>2, <1>3, <2>1, <2>2 DEF TruthUnderWay
<1>7. QED
  BY <1>4, <1>5, <1>6

LEMMA ThreadTruth ==
    ASSUME SafeInv, TruthUnderWay, NEW t \in Threads, ThreadActions(t)
    PROVE  TruthUnderWay'
<1>1. CASE BeginRefresh(t)
  <2>1. CASE connection = 0
    BY <1>1, <2>1 DEF BeginRefresh, TruthUnderWay
  <2>2. CASE connection # 0
    <3>1. thread'[t].pc = "reading" /\ thread'[t].revision = revision
      BY <1>1, <2>2, ThreadTyped DEF BeginRefresh, SafeInv, BaseInv, Typed, ThreadState
    <3>2. latest' = t /\ revision' = revision
      BY <1>1 DEF BeginRefresh
    <3>3. LatestReads' /\ ~At(latest, "read")'
      BY <3>1, <3>2 DEF LatestReads, At
    <3>4. QED
      BY <3>3 DEF TruthUnderWay
  <2>3. QED
    BY <2>1, <2>2
<1>2. CASE Read(t)
  BY <1>2, ReadTruth
<1>3. CASE PublishRefresh(t)
  <2>1. thread'[t].pc \in {"publish", "finish"} /\ thread' = [thread EXCEPT ![t] = thread'[t]]
    BY <1>3 DEF PublishRefresh, SafeInv, BaseInv, Typed, Idle
  <2>2. QED
    BY <1>3, <2>1, TruthMove
    DEF PublishRefresh, At, ReadPc, stateVars, serverVars, otherServerVars
<1>4. CASE ServeRead(t)
  BY <1>4, ReadingAnswered DEF ServeRead, serverVars, otherServerVars
<1>5. CASE ServeCancel(t) \/ (RequestFails(t) /\ ~At(t, "reading"))
  <2>1. PICK reply : Answered(t, reply)
    BY <1>5 DEF ServeCancel, RequestFails
  <2>2. thread[t].pc \in {"canceling", "undoing", "starting", "loggingOut"}
    BY <1>5 DEF ServeCancel, RequestFails, Asking, At
  <2>3. AnswerPc(thread[t].pc) \in {"canceled", "undone", "started", "loggedOut"}
    BY <2>2 DEF AnswerPc
  <2>4. WithAnswer(t, reply).pc \notin ReadPc
    BY <2>3, ThreadTyped DEF WithAnswer, SafeInv, ThreadState, ReadPc
  <2>5. thread' = [thread EXCEPT ![t] = WithAnswer(t, reply)]
    BY <2>1, AnsweredShape DEF SafeInv
  <2>6. /\ UNCHANGED <<connection, revision, reader, background, notices, account>>
        /\ UNCHANGED <<status, latest>>
        /\ 0 \in unsure => 0 \in unsure'
    BY <1>5 DEF ServeCancel, RequestFails, stateVars
  <2>7. thread[t].pc \notin ReadPc \cup {"refresh"}
    BY <2>2 DEF ReadPc
  <2>8. QED
    BY <2>4, <2>5, <2>6, <2>7, TruthMove
<1>6. CASE ServeLogin(t)
  <2>1. thread'[t].pc = "started" /\ thread' = [thread EXCEPT ![t] = thread'[t]]
    <3>1. PICK reply : thread' = [thread EXCEPT ![t].pc = "started", ![t].reply = reply,
                                               ![t].login = nextLogin]
      BY <1>6 DEF ServeLogin
    <3>2. QED
      BY <3>1, ThreadTyped DEF SafeInv, BaseInv, Typed, ThreadState
  <2>2. 0 \in unsure => 0 \in unsure'
    BY <1>6 DEF ServeLogin
  <2>3. QED
    BY <1>6, <2>1, <2>2, TruthMove DEF ServeLogin, At, ReadPc, stateVars
<1>7. CASE ServeLogout(t)
  <2>1. Queued' = Queued \cup {[kind |-> "updated", login |-> 0, connection |-> connection]}
    BY <1>7, QueuedAppended DEF ServeLogout, SafeInv
  <2>2. connection' = connection
    BY <1>7 DEF ServeLogout, stateVars
  <2>3. \E n \in Queued' : n.kind = "updated" /\ n.connection = connection'
    <3>1. PICK n : n = [kind |-> "updated", login |-> 0, connection |-> connection]
      OBVIOUS
    <3>2. n \in Queued' /\ n.kind = "updated" /\ n.connection = connection
      BY <2>1, <3>1
    <3>3. QED
      BY <2>2, <3>2
  <2>4. RefreshComing'
    BY <2>3 DEF RefreshComing
  <2>5. QED
    BY <2>4 DEF TruthUnderWay
<1>8. CASE RequestFails(t) /\ At(t, "reading")
  <2>1. unsure' = unsure /\ Answered(t, "unavailable")
    BY <1>8 DEF RequestFails, At
  <2>2. QED
    BY <1>8, <2>1, ReadingAnswered DEF RequestFails
<1>9. QED
  BY <1>1, <1>2, <1>3, <1>4, <1>5, <1>6, <1>7, <1>8 DEF ThreadActions

\* The notifications: an update of the connection in use asks for a refresh.
LEMMA NotificationTruth ==
    ASSUME SafeInv, TruthUnderWay, OnNotification
    PROVE  TruthUnderWay'
<1>0. /\ reader = 0 /\ notices # <<>> /\ notices' = Tail(notices)
      /\ UNCHANGED <<connection, revision, background, thread, account>>
      /\ 0 \in unsure => 0 \in unsure'
  BY DEF OnNotification, HandleCompleted
<1>1. /\ Queued \subseteq Queued' \cup {Head(notices)}
      /\ Head(notices) \in NoticeState
  BY <1>0, QueuedTail DEF SafeInv
<1>2. reader' \in {reader, revision}
  BY DEF OnNotification, HandleCompleted
<1>3. ASSUME RefreshComing PROVE RefreshComing'
  <2>1. CASE Head(notices).kind = "updated" /\ Head(notices).connection = connection
    <3>1. reader' = revision
      BY <2>1 DEF OnNotification
    <3>2. QED
      BY <1>0, <3>1 DEF RefreshComing
  <2>2. CASE ~(Head(notices).kind = "updated" /\ Head(notices).connection = connection)
    BY <1>0, <1>1, <1>2, <1>3, <2>2 DEF RefreshComing, At
  <2>3. QED
    BY <2>1, <2>2
<1>4. "checking" \notin Account
  BY DEF Account
<1>5. \/ UNCHANGED <<status, latest>>
      \/ status' \notin Account /\ latest' \in {latest, NoThread}
  BY <1>4 DEF OnNotification, HandleCompleted
<1>6. QED
  BY <1>0, <1>3, <1>5, TruthFrame

\* The background refresh: asked to run once more, it does, or its loss is known.
LEMMA BackgroundTruth ==
    ASSUME SafeInv, TruthUnderWay, NEW b \in Background, RunBackground(b) \/ FinishBackground(b)
    PROVE  TruthUnderWay'
<1>0. b \in Threads
  BY AccountFacts
<1>1. /\ thread'[b].pc \in {"refresh", "idle", "spawned"}
      /\ \A u \in Threads : u # b => thread'[u] = thread[u]
  BY <1>0, ThreadTyped
  DEF RunBackground, FinishBackground, Goto, SafeInv, BaseInv, Typed, ThreadState, Idle
<1>2. /\ UNCHANGED <<connection, revision, status, latest, account, notices, reader>>
      /\ thread[b].pc \in {"spawned", "finish"}
      /\ 0 \in unsure => 0 \in unsure'
  BY DEF RunBackground, FinishBackground, At, serverVars, otherServerVars
<1>3. ASSUME connection # 0, 0 \notin unsure', RefreshComing
      PROVE  RefreshComing'
  <2>1. CASE RunBackground(b)
    <3>1. CASE IsCurrent(thread[b].task) /\ background = "scheduled"
      <4>1. At(b, "refresh")'
        BY <1>0, <2>1, <3>1, ThreadTyped
        DEF RunBackground, Goto, At, SafeInv, BaseInv, Typed, ThreadState
      <4>2. QED
        BY <1>0, <4>1 DEF RefreshComing
    <3>2. CASE ~(IsCurrent(thread[b].task) /\ background = "scheduled")
      <4>1. UNCHANGED background
        BY <2>1, <3>2 DEF RunBackground
      <4>2. \A u \in Threads : At(u, "refresh") => At(u, "refresh")'
        BY <1>1, <1>2 DEF At
      <4>3. QED
        BY <1>2, <1>3, <4>1, <4>2 DEF RefreshComing, Queued
    <3>3. QED
      BY <3>1, <3>2
  <2>2. CASE FinishBackground(b)
    <3>1. \A u \in Threads : At(u, "refresh") => At(u, "refresh")'
      BY <1>1, <1>2 DEF At
    <3>2. background \in {"scheduled", "requested"} =>
            background' \in {"scheduled", "requested"}
      <4>1. CASE IsCurrent(thread[b].task)
        <5>1. Refreshes(b) /\ ~At(b, "spawned")
          BY <2>2, <4>1 DEF FinishBackground, At, IsCurrent, Refreshes
        <5>2. background # "scheduled"
          BY <5>1 DEF SafeInv, BaseInv, RefreshesGood
        <5>3. QED
          BY <1>3, <2>2, <4>1, <5>2 DEF FinishBackground
      <4>2. CASE ~IsCurrent(thread[b].task)
        BY <2>2, <4>2 DEF FinishBackground
      <4>3. QED
        BY <4>1, <4>2
    <3>3. QED
      BY <1>2, <1>3, <3>1, <3>2 DEF RefreshComing, Queued
  <2>3. QED
    BY <2>1, <2>2
<1>4. \A u \in Threads : thread[u].pc \in ReadPc \/ thread'[u].pc \in ReadPc =>
        thread'[u] = thread[u]
  BY <1>1, <1>2 DEF ReadPc
<1>5. QED
  BY <1>2, <1>3, <1>4, TruthFrame

LEMMA OtherTruth ==
    ASSUME SafeInv, TruthUnderWay, OtherActions
    PROVE  TruthUnderWay'
<1>1. CASE Connect
  <2>1. status' = "checking" /\ revision' = revision + 1 /\ UNCHANGED <<thread, latest>>
    BY <1>1 DEF Connect, SwitchConnection
  <2>2. \A u \in Threads : thread[u].revision # revision + 1
    BY ThreadTyped DEF SafeInv
  <2>3. ~LatestReads' /\ status' \notin Account
    BY <2>1, <2>2 DEF LatestReads, Account
  <2>4. QED
    BY <2>3 DEF TruthUnderWay
<1>2. CASE Disconnect
  BY <1>2 DEF Disconnect, SwitchConnection, TruthUnderWay
<1>3. CASE PublishSwitch
  BY <1>3, TruthFrame
  DEF PublishSwitch, stateVars, serverVars, otherServerVars, RefreshComing, Queued, At
<1>4. CASE \E b \in Background : RunBackground(b) \/ FinishBackground(b)
  BY <1>4, BackgroundTruth
<1>5. CASE OnNotification
  BY <1>5, NotificationTruth
<1>6. CASE ReaderSchedules
  <2>1. DOMAIN thread = Threads
    BY DEF SafeInv, BaseInv, Typed
  <2>2. QED
    BY <1>6, <2>1, ScheduleTruth DEF ReaderSchedules, otherServerVars
<1>7. ASSUME NEW l \in Logins, LoginEnds(l)
      PROVE  TruthUnderWay'
  <2>1. Queued' = Queued \cup {[kind |-> "completed", login |-> l, connection |-> connection]}
    BY <1>7, QueuedAppended DEF LoginEnds, SafeInv
  <2>2. UNCHANGED <<connection, revision, background, status, latest, reader, thread, account,
                    unsure>>
    BY <1>7 DEF LoginEnds, stateVars
  <2>3. RefreshComing => RefreshComing'
    BY <2>1, <2>2 DEF RefreshComing, At
  <2>4. QED
    BY <2>2, <2>3, TruthFrame
<1>8. ASSUME NEW l \in Logins, AccountReloads(l)
      PROVE  TruthUnderWay'
  <2>1. Queued' = Queued \cup {[kind |-> "updated", login |-> 0, connection |-> connection]}
    BY <1>8, QueuedAppended DEF AccountReloads, SafeInv
  <2>2. connection' = connection
    BY <1>8 DEF AccountReloads, stateVars
  <2>3. \E n \in Queued' : n.kind = "updated" /\ n.connection = connection'
    <3>1. PICK n : n = [kind |-> "updated", login |-> 0, connection |-> connection]
      OBVIOUS
    <3>2. n \in Queued' /\ n.kind = "updated" /\ n.connection = connection
      BY <2>1, <3>1
    <3>3. QED
      BY <2>2, <3>2
  <2>4. QED
    BY <2>3 DEF TruthUnderWay, RefreshComing
<1>9. QED
  BY <1>1, <1>2, <1>3, <1>4, <1>5, <1>6, <1>7, <1>8 DEF OtherActions

(***************************************************************************)
(* What the service settles on is the account the App Server has: an       *)
(* answer that was overtaken by a change of the account, by a reconnect or *)
(* by a newer refresh is not kept, and no change stays unnoticed.          *)
(***************************************************************************)
THEOREM SettledStatusIsTrue == Spec => []StatusIsTrue
<1>1. Init => TruthUnderWay
  BY DEF Init, TruthUnderWay
<1>2. SafeInv /\ TruthUnderWay /\ [Next]_vars => TruthUnderWay'
  <2> SUFFICES ASSUME SafeInv, TruthUnderWay, [Next]_vars PROVE TruthUnderWay'
    OBVIOUS
  <2>1. CASE UNCHANGED vars
    BY <2>1 DEF vars, stateVars, serverVars, otherServerVars, TruthUnderWay, RefreshComing,
                LatestReads, Queued, At
  <2>2. QED
    BY <2>1, NextCases, CallerTruth, ThreadTruth, OtherTruth
<1>3. SafeInv /\ TruthUnderWay => StatusIsTrue
  <2> SUFFICES ASSUME SafeInv, TruthUnderWay, AtRest, connection # 0, 0 \notin unsure,
                      status \in Account
               PROVE  status = account
    BY DEF StatusIsTrue
  <2>1. ~LatestReads
    BY DEF AtRest, At, LatestReads
  <2>2. background = "idle"
    BY AccountFacts DEF AtRest, At, SafeInv, BaseInv, RefreshesGood, Refreshes
  <2>3. reader # revision
    BY DEF AtRest, SafeInv, BaseInv, Typed, TypeOK
  <2>4. Queued = {}
    BY DEF AtRest, Queued
  <2>5. ~RefreshComing
    BY <2>2, <2>3, <2>4 DEF RefreshComing, AtRest, At
  <2>6. QED
    BY <2>1, <2>5 DEF TruthUnderWay
<1>4. QED
  BY <1>1, <1>2, <1>3, SafeInvariant, PTL DEF Spec

-----------------------------------------------------------------------------
(***************************************************************************)
(* LoginInv.                                                               *)
(***************************************************************************)
\* Where something is known of the login of a caller.  It holds the gate there.
KnowPc == {"canceling", "canceled", "prepare", "starting", "started", "opening", "undoing",
           "undone"}

LEMMA LoginTyped ==
    ASSUME SafeInv
    PROVE  /\ nextLogin \in Nat /\ nextLogin > 0 /\ nextLogin <= MaxLogins + 1
           /\ attempt \in Nat /\ 0 \notin Logins
           /\ \A t \in Callers : t \in Threads /\ thread[t].login \in Nat
           /\ \A l \in Logins : l \in Nat
<1>1. nextLogin \in 1..MaxLogins + 1 /\ attempt \in 0..MaxLogins
  BY StateTyped DEF SafeInv
<1>2. \A t \in Callers : t \in Threads /\ thread[t].login \in Nat
  BY AccountFacts, ThreadTyped DEF SafeInv
<1>3. QED
  BY <1>1, <1>2, AccountFacts DEF Logins

\* What is known stays known as long as the logins do.
LEMMA KnowsKept ==
    ASSUME NEW k, Knows(k), unsure \subseteq unsure',
           UNCHANGED <<connection, revision, loginStart, attempt, notices, logins, nextLogin>>
    PROVE  Knows(k)'
BY DEF Knows, NotActive, IsCurrent, CompletionComing, CompletedEarly, Queued

\* t goes on as h; the logins and what is known of them do not change.
LEMMA LoginMove ==
    ASSUME SafeInv, LoginInv, NEW t \in Threads, NEW h, thread' = [thread EXCEPT ![t] = h],
           UNCHANGED <<connection, revision, loginStart, attempt, notices, logins, nextLogin>>,
           unsure \subseteq unsure', t \in Callers => Knows(h)',
           \A l \in Logins : t \in Callers /\ logins[l] = "active" /\ Holds(thread[t], l) =>
               l \in unsure' \/ Holds(h, l)
    PROVE  LoginInv'
<1>1. /\ thread'[t] = h
      /\ \A u \in Threads : u # t => thread'[u] = thread[u]
  BY DEF SafeInv, BaseInv, Typed
<1>2. Numbered'
  BY DEF LoginInv, Numbered
<1>3. OverGood'
  BY DEF LoginInv, OverGood, Queued, NotActive, Distinct
<1>4. CallersKnow'
  <2> SUFFICES ASSUME NEW u \in Callers PROVE Knows(thread[u])'
    BY DEF CallersKnow
  <2>1. PICK k : k = thread'[u]
    OBVIOUS
  <2>2. Knows(k)'
    <3>1. CASE u = t
      BY <1>1, <2>1, <3>1
    <3>2. CASE u # t
      <4>1. k = thread[u]
        BY <1>1, <2>1, <3>2, LoginTyped
      <4>2. Knows(k)
        BY <4>1 DEF LoginInv, CallersKnow
      <4>3. QED
        BY <4>2, KnowsKept
    <3>3. QED
      BY <3>1, <3>2
  <2>3. QED
    BY <2>1, <2>2 DEF Knows
<1>5. ActiveKnown'
  <2> SUFFICES ASSUME NEW l \in Logins, logins[l] = "active"
               PROVE  l = attempt \/ l \in unsure' \/ \E u \in Callers : Holds(thread'[u], l)
    BY DEF ActiveKnown, Holds
  <2>1. l = attempt \/ l \in unsure \/ \E u \in Callers : Holds(thread[u], l)
    BY DEF LoginInv, ActiveKnown
  <2>2. QED
    BY <1>1, <2>1, LoginTyped
<1>6. AttemptGood'
  BY DEF LoginInv, AttemptGood, CompletionComing, Queued
<1>7. QED
  BY <1>2, <1>3, <1>4, <1>5, <1>6 DEF LoginInv

\* Most moves go where nothing is known of the login.
LEMMA PlainMove ==
    ASSUME SafeInv, LoginInv, NEW t \in Threads, NEW h, thread' = [thread EXCEPT ![t] = h],
           UNCHANGED <<connection, revision, loginStart, attempt, notices, logins, nextLogin>>,
           unsure \subseteq unsure',
           t \in Callers => h.pc \notin KnowPc /\ h.login < nextLogin,
           \A l \in Logins : t \in Callers /\ logins[l] = "active" => ~Holds(thread[t], l)
    PROVE  LoginInv'
<1>1. t \in Callers => Knows(h)'
  BY DEF Knows, KnowPc
<1>2. QED
  BY <1>1, LoginMove

LEMMA ReturnLogin ==
    ASSUME SafeInv, LoginInv, NEW t \in Callers, NEW reply, Return(t, reply),
           UNCHANGED <<connection, revision, loginStart, attempt, notices, logins, nextLogin,
                       unsure>>,
           thread[t].pc \in {"undoing", "started"} => thread[t].reply = "failed",
           thread[t].pc # "undoing"
    PROVE  LoginInv'
<1>0. t \in Threads
  BY AccountFacts
<1>1. thread' = [thread EXCEPT ![t] = Returned(reply)]
  BY DEF Return, Returned
<1>2. Returned(reply).pc = "publish" /\ Returned(reply).login = 0
  BY DEF Returned, Idle
<1>3. Returned(reply).pc \notin KnowPc /\ Returned(reply).login < nextLogin
  BY <1>2, LoginTyped DEF KnowPc
<1>4. \A l \in Logins : ~Holds(thread[t], l)
  BY DEF Holds
<1>5. QED
  BY <1>0, <1>1, <1>3, <1>4, PlainMove

LEMMA GotoLogin ==
    ASSUME SafeInv, LoginInv, NEW t \in Callers, NEW where, Goto(t, where),
           UNCHANGED <<connection, revision, loginStart, attempt, notices, logins, nextLogin,
                       unsure>>,
           where \notin KnowPc, thread[t].pc \notin {"undoing", "started"}
    PROVE  LoginInv'
<1>0. t \in Threads
  BY AccountFacts
<1>1. thread' = [thread EXCEPT ![t] = At2(t, where)]
  BY DEF Goto, At2
<1>2. At2(t, where).pc = where /\ At2(t, where).login = thread[t].login
  BY <1>0, ThreadTyped DEF SafeInv, At2, ThreadState
<1>3. At2(t, where).login < nextLogin
  BY <1>2 DEF LoginInv, CallersKnow, Knows
<1>4. \A l \in Logins : ~Holds(thread[t], l)
  BY DEF Holds
<1>5. QED
  BY <1>0, <1>1, <1>2, <1>3, <1>4, PlainMove

(***************************************************************************)
(* The holder of the gate goes on as h and changes what is known of the    *)
(* logins: nobody else relies on it.                                       *)
(***************************************************************************)
LEMMA GateMove ==
    ASSUME SafeInv, LoginInv, NEW t \in Callers, thread[t].pc \in GatePc, NEW h,
           thread' = [thread EXCEPT ![t] = h],
           UNCHANGED <<connection, revision>>, nextLogin' \in Nat, nextLogin <= nextLogin',
           Knows(h)', Numbered', OverGood', AttemptGood',
           \A l \in Logins : logins'[l] = "active" =>
               l = attempt' \/ l \in unsure' \/ Holds(h, l)
    PROVE  LoginInv'
<1>0. t \in Threads
  BY AccountFacts
<1>1. /\ thread'[t] = h
      /\ \A u \in Threads : u # t => thread'[u] = thread[u]
  BY <1>0 DEF SafeInv, BaseInv, Typed
<1>2. CallersKnow'
  <2> SUFFICES ASSUME NEW u \in Callers PROVE Knows(thread[u])'
    BY DEF CallersKnow
  <2>1. CASE u = t
    BY <1>1, <2>1 DEF Knows
  <2>2. CASE u # t
    <3>1. thread'[u] = thread[u] /\ thread[u].login < nextLogin /\ thread[u].login \in Nat
      BY <1>1, <2>2, LoginTyped DEF LoginInv, CallersKnow, Knows
    <3>2. thread[u].pc \notin GatePc
      BY <2>2 DEF SafeInv, BaseInv, Locks
    <3>3. thread'[u].pc \notin KnowPc /\ thread'[u].login < nextLogin'
      BY <3>1, <3>2, LoginTyped DEF GatePc, KnowPc
    <3>4. QED
      BY <3>3 DEF Knows, KnowPc
  <2>3. QED
    BY <2>1, <2>2
<1>3. ActiveKnown'
  BY <1>1 DEF ActiveKnown, Holds
<1>4. QED
  BY <1>2, <1>3 DEF LoginInv

\* discard_login_start leaves no completion behind, or all.
LEMMA DiscardedIds ==
    ASSUME NEW r, loginStart' = Discarded(r)
    PROVE  \/ loginStart' = loginStart
           \/ loginStart'.ids = <<>> /\ DOMAIN loginStart'.ids = {}
BY DEF Discarded, NoLoginStart

\* Two callers that hold the gate are one.
LEMMA OneAtGate ==
    ASSUME SafeInv, NEW t \in Callers, NEW u \in Callers,
           thread[t].pc \in GatePc, thread[u].pc \in GatePc
    PROVE  u = t
BY DEF SafeInv, BaseInv, Locks

\* clear_attempt, for a login that is over: what is left is still known.
LEMMA ClearedLogin ==
    ASSUME SafeInv, LoginInv, NEW t \in Callers, thread[t].pc \in {"canceled", "undone"},
           thread[t].reply = "ok", Cleared(thread[t].login), NEW where \in Pc, Goto(t, where),
           where \in {"prepare", "refresh", "leaving", "undoneStatus"},
           UNCHANGED <<connection, revision, loginStart, notices, logins, nextLogin, unsure>>
    PROVE  LoginInv'
<1>0. t \in Threads /\ Knows(thread[t])
  BY AccountFacts DEF LoginInv, CallersKnow
<1>1. NotActive(thread[t].login) /\ attempt \in {0, thread[t].login}
  BY <1>0 DEF Knows
<1>2. attempt' = 0
  BY <1>1 DEF Cleared
<1>3. PICK h : h = At2(t, where)
  OBVIOUS
<1>4. thread' = [thread EXCEPT ![t] = h]
  BY <1>3 DEF Goto, At2
<1>5. h.pc = where /\ h.login = thread[t].login
  BY <1>0, <1>3, ThreadTyped DEF SafeInv, At2, ThreadState
<1>6. Knows(h)'
  BY <1>0, <1>2, <1>5 DEF Knows
<1>7. Numbered'
  BY <1>2, LoginTyped DEF LoginInv, Numbered
<1>8. OverGood' /\ AttemptGood'
  BY <1>2 DEF LoginInv, OverGood, Queued, NotActive, Distinct, AttemptGood
<1>9. ASSUME NEW l \in Logins, logins'[l] = "active"
      PROVE  l = attempt' \/ l \in unsure' \/ Holds(h, l)
  <2>1. \A u \in Callers : ~Holds(thread[u], l)
    <3>1. ASSUME NEW u \in Callers, Holds(thread[u], l) PROVE FALSE
      <4>1. thread[u].pc \in GatePc /\ thread[t].pc \in GatePc
        BY <3>1 DEF Holds, GatePc
      <4>2. u = t
        BY <4>1, OneAtGate
      <4>3. QED
        BY <3>1, <4>2 DEF Holds
    <3>2. QED
      BY <3>1
  <2>2. l # thread[t].login /\ l # 0
    BY <1>1, <1>9, LoginTyped DEF NotActive
  <2>3. l = attempt \/ l \in unsure
    BY <1>9, <2>1 DEF LoginInv, ActiveKnown
  <2>4. QED
    BY <1>1, <2>2, <2>3
<1>10. nextLogin' \in Nat /\ nextLogin <= nextLogin' /\ thread[t].pc \in GatePc
  BY LoginTyped DEF GatePc
<1>11. QED
  BY <1>4, <1>6, <1>7, <1>8, <1>9, <1>10, GateMove

\* A login that was started is given up: the thread answers for it until it is cancelled.
LEMMA StartedUndone ==
    ASSUME SafeInv, LoginInv, NEW t \in Callers, At(t, "started"), thread[t].reply # "failed",
           Goto(t, "undoing"), loginStart' = Discarded(thread[t].revision),
           UNCHANGED <<connection, revision, attempt, notices, logins, nextLogin, unsure>>
    PROVE  LoginInv'
<1>0. t \in Threads /\ Knows(thread[t])
  BY AccountFacts DEF LoginInv, CallersKnow
<1>1. PICK h : h = At2(t, "undoing")
  OBVIOUS
<1>2. thread' = [thread EXCEPT ![t] = h]
  BY <1>1 DEF Goto, At2
<1>3. h.pc = "undoing" /\ h.login = thread[t].login
  BY <1>0, <1>1, ThreadTyped DEF SafeInv, At2, ThreadState
<1>4. attempt = 0
  BY <1>0 DEF Knows, At
<1>5. Knows(h)'
  BY <1>0, <1>3, <1>4 DEF Knows
<1>6. Numbered' /\ AttemptGood'
  BY <1>4 DEF LoginInv, Numbered, AttemptGood
<1>7. OverGood'
  BY DiscardedIds DEF LoginInv, OverGood, Queued, NotActive, Distinct
<1>8. ASSUME NEW l \in Logins, logins'[l] = "active"
      PROVE  l = attempt' \/ l \in unsure' \/ Holds(h, l)
  <2>1. \A u \in Callers : u # t => ~Holds(thread[u], l)
    <3>1. ASSUME NEW u \in Callers, Holds(thread[u], l) PROVE u = t
      <4>1. thread[u].pc \in GatePc /\ thread[t].pc \in GatePc
        BY <3>1 DEF Holds, GatePc, At
      <4>2. QED
        BY <4>1, OneAtGate
    <3>2. QED
      BY <3>1
  <2>2. QED
    BY <1>3, <1>8, <2>1 DEF LoginInv, ActiveKnown, Holds
<1>9. nextLogin' \in Nat /\ nextLogin <= nextLogin' /\ thread[t].pc \in GatePc
  BY LoginTyped DEF GatePc, At
<1>10. QED
  BY <1>2, <1>5, <1>6, <1>7, <1>8, <1>9, GateMove

\* The logins stay as they are, and every caller that moves goes where nothing is known.
LEMMA CallersMove ==
    ASSUME SafeInv, LoginInv,
           \A u \in Callers :
               \/ thread'[u] = thread[u]
               \/ /\ thread[u].pc \notin {"undoing", "started"}
                  /\ thread'[u].pc \notin KnowPc /\ thread'[u].login < nextLogin,
           UNCHANGED <<connection, revision, loginStart, attempt, notices, logins, nextLogin>>,
           unsure \subseteq unsure'
    PROVE  LoginInv'
<1>1. Numbered' /\ OverGood' /\ AttemptGood'
  BY DEF LoginInv, Numbered, OverGood, Queued, NotActive, Distinct, AttemptGood,
         CompletionComing
<1>2. CallersKnow'
  <2> SUFFICES ASSUME NEW u \in Callers PROVE Knows(thread[u])'
    BY DEF CallersKnow
  <2>1. PICK k : k = thread'[u]
    OBVIOUS
  <2>2. Knows(k)'
    <3>1. CASE k = thread[u]
      <4>1. Knows(k)
        BY <3>1 DEF LoginInv, CallersKnow
      <4>2. QED
        BY <4>1, KnowsKept
    <3>2. CASE k # thread[u]
      BY <2>1, <3>2 DEF Knows, KnowPc
    <3>3. QED
      BY <3>1, <3>2
  <2>3. QED
    BY <2>1, <2>2 DEF Knows
<1>3. ActiveKnown'
  BY DEF LoginInv, ActiveKnown, Holds
<1>4. QED
  BY <1>1, <1>2, <1>3 DEF LoginInv

\* install_login_attempt: the login is under way, or its completion is on its way here or
\* was remembered.
LEMMA FinishLoginStartLogin ==
    ASSUME SafeInv, LoginInv, NEW t \in Callers, FinishLoginStart(t)
    PROVE  LoginInv'
<1>0. /\ t \in Threads /\ Knows(thread[t])
      /\ At(t, "started") /\ thread[t].reply = "browser"
      /\ UNCHANGED <<connection, revision, notices, logins, nextLogin, unsure>>
      /\ loginStart' = Discarded(thread[t].revision)
      /\ thread[t].login \in Logins
  <2>1. t \in Threads /\ Knows(thread[t])
    BY AccountFacts DEF LoginInv, CallersKnow
  <2>2. QED
    BY <2>1, ThreadTyped
    DEF FinishLoginStart, serverVars, otherServerVars, FlowOK, At, SafeInv
<1>1. CASE ~Installable(thread[t].revision)
  BY <1>0, <1>1, StartedUndone DEF FinishLoginStart
<1>2. CASE Installable(thread[t].revision)
  <2> DEFINE early == CompletedEarly(thread[t].login)
  <2>1. IsCurrent(thread[t].revision) /\ thread[t].revision = revision
    BY <1>2 DEF Installable, IsCurrent
  <2>2. /\ attempt' = IF early THEN 0 ELSE thread[t].login
        /\ Goto(t, IF early THEN "scheduling" ELSE "opening")
    BY <1>2, <2>1 DEF FinishLoginStart, CompletedEarly
  <2>3. early => NotActive(thread[t].login)
    BY DEF LoginInv, OverGood, CompletedEarly
  <2>4. ~early => \/ logins[thread[t].login] \in {"active", "dropped"}
                  \/ CompletionComing(thread[t].login)
                  \/ thread[t].login \in unsure
    BY <1>0, <2>1 DEF Knows, At
  <2> HIDE DEF early
  <2>5. PICK h : h = At2(t, IF early THEN "scheduling" ELSE "opening")
    OBVIOUS
  <2>6. thread' = [thread EXCEPT ![t] = h]
    BY <2>2, <2>5 DEF Goto, At2
  <2>7. h.pc = (IF early THEN "scheduling" ELSE "opening") /\ h.login = thread[t].login
    BY <1>0, <2>5, ThreadTyped DEF SafeInv, At2, ThreadState
  <2>8. thread[t].login < nextLogin
    BY <1>0 DEF Knows
  <2>9. Knows(h)'
    BY <1>0, <2>2, <2>7, <2>8 DEF Knows
  <2>10. Numbered'
    BY <1>0, <2>2, <2>8, LoginTyped DEF LoginInv, Numbered
  <2>11. OverGood'
    BY <1>0, DiscardedIds DEF LoginInv, OverGood, Queued, NotActive, Distinct
  <2>12. AttemptGood'
    BY <1>0, <2>2, <2>4 DEF AttemptGood, CompletionComing, Queued
  <2>13. ASSUME NEW l \in Logins, logins'[l] = "active"
         PROVE  l = attempt' \/ l \in unsure' \/ Holds(h, l)
    <3>1. ASSUME NEW u \in Callers, Holds(thread[u], l) PROVE u = t /\ l = thread[t].login
      <4>1. thread[u].pc \in GatePc /\ thread[t].pc \in GatePc
        BY <1>0, <3>1 DEF Holds, GatePc, At
      <4>2. u = t
        BY <4>1, OneAtGate
      <4>3. QED
        BY <3>1, <4>2 DEF Holds
    <3>2. l # 0 /\ attempt = 0
      BY <1>0, LoginTyped DEF Knows, At
    <3>3. l = thread[t].login \/ l \in unsure
      BY <1>0, <2>13, <3>1, <3>2 DEF LoginInv, ActiveKnown
    <3>4. QED
      BY <1>0, <2>2, <2>3, <2>13, <3>3 DEF NotActive
  <2>14. nextLogin' \in Nat /\ nextLogin <= nextLogin' /\ thread[t].pc \in GatePc
    BY <1>0, LoginTyped DEF GatePc, At
  <2>15. QED
    BY <1>0, <2>6, <2>9, <2>10, <2>11, <2>12, <2>13, <2>14, GateMove
<1>3. QED
  BY <1>1, <1>2

LEMMA UndoAnsweredLogin ==
    ASSUME SafeInv, LoginInv, NEW t \in Callers, UndoAnswered(t)
    PROVE  LoginInv'
<1>0. /\ t \in Threads /\ Knows(thread[t]) /\ thread[t].pc = "undone"
      /\ UNCHANGED <<connection, revision, loginStart, notices, logins, nextLogin, unsure>>
  BY AccountFacts
  DEF LoginInv, CallersKnow, UndoAnswered, At, serverVars, otherServerVars
<1>1. CASE thread[t].reply = "ok"
  BY <1>0, <1>1, ClearedLogin DEF UndoAnswered, Pc
<1>2. CASE thread[t].reply # "ok"
  <2>1. Goto(t, "look") /\ attempt' \in {attempt, thread[t].login}
    BY <1>2 DEF UndoAnswered
  <2>2. PICK h : h = At2(t, "look")
    OBVIOUS
  <2>3. thread' = [thread EXCEPT ![t] = h]
    BY <2>1, <2>2 DEF Goto, At2
  <2>4. h.pc = "look" /\ h.login = thread[t].login
    BY <1>0, <2>2, ThreadTyped DEF SafeInv, At2, ThreadState
  <2>5. /\ thread[t].login < nextLogin /\ thread[t].login \in unsure
        /\ attempt \in {0, thread[t].login}
    BY <1>0, <1>2 DEF Knows
  <2>6. Knows(h)'
    BY <1>0, <2>4, <2>5 DEF Knows
  <2>7. Numbered'
    BY <1>0, <2>1, <2>5 DEF LoginInv, Numbered
  <2>8. OverGood'
    BY <1>0 DEF LoginInv, OverGood, Queued, NotActive, Distinct
  <2>9. AttemptGood'
    BY <1>0, <2>1, <2>5 DEF AttemptGood
  <2>10. ASSUME NEW l \in Logins, logins'[l] = "active"
         PROVE  l = attempt' \/ l \in unsure' \/ Holds(h, l)
    <3>1. ASSUME NEW u \in Callers, Holds(thread[u], l) PROVE FALSE
      <4>1. thread[u].pc \in GatePc /\ thread[t].pc \in GatePc
        BY <1>0, <3>1 DEF Holds, GatePc
      <4>2. u = t
        BY <4>1, OneAtGate
      <4>3. QED
        BY <1>0, <3>1, <4>2 DEF Holds
    <3>2. l # 0
      BY LoginTyped
    <3>3. QED
      BY <1>0, <2>5, <2>10, <3>1, <3>2 DEF LoginInv, ActiveKnown
  <2>11. nextLogin' \in Nat /\ nextLogin <= nextLogin' /\ thread[t].pc \in GatePc
    BY <1>0, LoginTyped DEF GatePc
  <2>12. QED
    BY <1>0, <2>3, <2>6, <2>7, <2>8, <2>9, <2>10, <2>11, GateMove
<1>3. QED
  BY <1>1, <1>2

LEMMA PrepareLoginLogin ==
    ASSUME SafeInv, LoginInv, NEW t \in Callers, PrepareLogin(t)
    PROVE  LoginInv'
<1>0. /\ t \in Threads /\ Knows(thread[t]) /\ thread[t].pc = "prepare"
      /\ UNCHANGED <<connection, revision, attempt, notices, logins, nextLogin, unsure>>
  BY AccountFacts
  DEF LoginInv, CallersKnow, PrepareLogin, At, serverVars, otherServerVars
<1>1. CASE connection = 0
  BY <1>0, <1>1, ReturnLogin DEF PrepareLogin
<1>2. CASE connection # 0
  <2>1. PICK h : h = [thread[t] EXCEPT !.pc = "starting", !.revision = revision,
                                       !.connection = connection]
    OBVIOUS
  <2>2. /\ thread' = [thread EXCEPT ![t] = h]
        /\ loginStart' = [revision |-> revision, ids |-> <<>>]
    BY <1>2, <2>1 DEF PrepareLogin
  <2>3. h.pc = "starting" /\ h.login = thread[t].login /\ h.connection # 0
    BY <1>0, <1>2, <2>1, ThreadTyped DEF SafeInv, ThreadState
  <2>4. loginStart'.revision = revision /\ DOMAIN loginStart'.ids = {}
    BY <2>2
  <2>5. Knows(h)'
    BY <1>0, <2>3, <2>4 DEF Knows
  <2>6. Numbered' /\ AttemptGood'
    BY <1>0 DEF LoginInv, Numbered, AttemptGood, CompletionComing, Queued
  <2>7. OverGood'
    BY <1>0, <2>4 DEF LoginInv, OverGood, Queued, NotActive, Distinct
  <2>8. ASSUME NEW l \in Logins, logins'[l] = "active"
        PROVE  l = attempt' \/ l \in unsure' \/ Holds(h, l)
    <3>1. ASSUME NEW u \in Callers, Holds(thread[u], l) PROVE FALSE
      <4>1. thread[u].pc \in GatePc /\ thread[t].pc \in GatePc
        BY <1>0, <3>1 DEF Holds, GatePc
      <4>2. u = t
        BY <4>1, OneAtGate
      <4>3. QED
        BY <1>0, <3>1, <4>2 DEF Holds
    <3>2. QED
      BY <1>0, <2>8, <3>1 DEF LoginInv, ActiveKnown
  <2>9. nextLogin' \in Nat /\ nextLogin <= nextLogin' /\ thread[t].pc \in GatePc
    BY <1>0, LoginTyped DEF GatePc
  <2>10. QED
    BY <1>0, <2>2, <2>5, <2>6, <2>7, <2>8, <2>9, GateMove
<1>3. QED
  BY <1>1, <1>2

LEMMA LoginRefusedLogin ==
    ASSUME SafeInv, LoginInv, NEW t \in Callers, LoginRefused(t)
    PROVE  LoginInv'
<1>0. /\ t \in Threads /\ Knows(thread[t]) /\ At(t, "started")
      /\ UNCHANGED <<connection, revision, attempt, notices, logins, nextLogin, unsure>>
      /\ loginStart' = Discarded(thread[t].revision)
  BY AccountFacts DEF LoginInv, CallersKnow, LoginRefused, serverVars, otherServerVars
<1>1. CASE thread[t].reply = "unusable"
  BY <1>0, <1>1, StartedUndone DEF LoginRefused
<1>2. CASE thread[t].reply = "failed"
  <2>1. Return(t, status') /\ attempt = 0
    BY <1>0, <1>2 DEF LoginRefused, Knows, At
  <2>2. PICK h : h = Returned(status')
    OBVIOUS
  <2>3. thread' = [thread EXCEPT ![t] = h]
    BY <2>1, <2>2 DEF Return, Returned
  <2>4. h.pc = "publish" /\ h.login = 0
    BY <2>2 DEF Returned, Idle
  <2>5. Knows(h)'
    BY <1>0, <2>4, LoginTyped DEF Knows
  <2>6. Numbered' /\ AttemptGood'
    BY <1>0, <2>1 DEF LoginInv, Numbered, AttemptGood
  <2>7. OverGood'
    BY <1>0, DiscardedIds DEF LoginInv, OverGood, Queued, NotActive, Distinct
  <2>8. ASSUME NEW l \in Logins, logins'[l] = "active"
        PROVE  l = attempt' \/ l \in unsure' \/ Holds(h, l)
    <3>1. ASSUME NEW u \in Callers, Holds(thread[u], l) PROVE FALSE
      <4>1. thread[u].pc \in GatePc /\ thread[t].pc \in GatePc
        BY <1>0, <3>1 DEF Holds, GatePc, At
      <4>2. u = t
        BY <4>1, OneAtGate
      <4>3. QED
        BY <1>0, <1>2, <3>1, <4>2 DEF Holds, At
    <3>2. QED
      BY <1>0, <2>8, <3>1 DEF LoginInv, ActiveKnown
  <2>9. nextLogin' \in Nat /\ nextLogin <= nextLogin' /\ thread[t].pc \in GatePc
    BY <1>0, LoginTyped DEF GatePc, At
  <2>10. QED
    BY <1>0, <2>3, <2>5, <2>6, <2>7, <2>8, <2>9, GateMove
<1>3. QED
  BY <1>1, <1>2 DEF LoginRefused

LEMMA CallerLogin ==
    ASSUME SafeInv, LoginInv, NEW t \in Callers, CallerActions(t)
    PROVE  LoginInv'
<1>0. /\ t \in Threads /\ Knows(thread[t]) /\ thread[t].login < nextLogin
      /\ 0 < nextLogin /\ attempt < nextLogin
  BY AccountFacts, LoginTyped DEF LoginInv, CallersKnow, Knows, Numbered
<1> USE DEF serverVars, otherServerVars
<1>1. ASSUME NEW command \in Command, Execute(t, command) PROVE LoginInv'
  <2> DEFINE h == [Idle EXCEPT !.command = command,
                       !.pc = IF connection = 0 THEN "publish"
                              ELSE IF command = "getStatus" THEN "refresh" ELSE "gate",
                       !.reply = IF connection = 0 THEN "unavailable" ELSE "none"]
  <2>1. h.pc \notin KnowPc /\ h.login = 0 /\ thread' = [thread EXCEPT ![t] = h]
    BY <1>1 DEF KnowPc, Idle, Execute
  <2>2. \A l \in Logins : ~Holds(thread[t], l)
    BY <1>1 DEF Execute, At, Holds
  <2> HIDE DEF h
  <2>3. QED
    BY <1>0, <1>1, <2>1, <2>2, PlainMove DEF Execute, stateVars
<1>2. CASE EnterGate(t)
  <2>1. AfterCancel(thread[t].command) \in {"prepare", "refresh", "leaving"}
    BY <1>0, <1>2, ThreadTyped, AfterCancelCases DEF FlowOK, EnterGate, At, SafeInv
  <2>2. PICK p \in {"prepare", "refresh", "leaving", "canceling"} :
          p = (IF attempt = 0 THEN AfterCancel(thread[t].command) ELSE "canceling")
    BY <2>1
  <2>3. PICK h : h = [thread[t] EXCEPT !.pc = p, !.login = attempt, !.revision = revision,
                                       !.connection = connection]
    OBVIOUS
  <2>4. thread' = [thread EXCEPT ![t] = h]
    BY <1>2, <2>2, <2>3 DEF EnterGate
  <2>5. h.pc = p /\ h.login = attempt
    BY <1>0, <2>3, ThreadTyped DEF SafeInv, ThreadState
  <2>6. p = "prepare" => attempt = 0
    BY <2>2
  <2>7. UNCHANGED <<connection, revision, loginStart, attempt, notices, logins, nextLogin,
                    unsure>>
    BY <1>2 DEF EnterGate, stateVars
  <2>8. Knows(h)'
    BY <1>0, <2>2, <2>5, <2>6, <2>7 DEF Knows
  <2>9. \A l \in Logins : ~Holds(thread[t], l)
    BY <1>2 DEF EnterGate, At, Holds
  <2>10. QED
    BY <1>0, <2>4, <2>7, <2>8, <2>9, LoginMove
<1>3. CASE CancelAnswered(t)
  <2>1. AfterCancel(thread[t].command) \in {"prepare", "refresh", "leaving"}
    BY <1>0, <1>3, ThreadTyped, AfterCancelCases DEF FlowOK, CancelAnswered, At, SafeInv
  <2>2. CASE thread[t].reply = "ok"
    BY <1>3, <2>1, <2>2, ClearedLogin DEF CancelAnswered, At, Pc
  <2>3. CASE thread[t].reply # "ok"
    BY <1>3, <2>3, ReturnLogin DEF CancelAnswered, At
  <2>4. QED
    BY <2>2, <2>3
<1>4. CASE PrepareLogin(t)
  BY <1>4, PrepareLoginLogin
<1>5. CASE LoginRefused(t)
  BY <1>5, LoginRefusedLogin
<1>6. CASE FinishLoginStart(t)
  BY <1>6, FinishLoginStartLogin
<1>7. CASE LoginWasCompleted(t)
  <2> DEFINE others == [thread EXCEPT ![t].pc = "look"]
  <2>1. /\ DOMAIN others = Threads
        /\ others[t].pc = "look" /\ others[t].login = thread[t].login
        /\ \A u \in Threads : u # t => others[u] = thread[u]
    BY <1>0, ThreadTyped DEF SafeInv, BaseInv, Typed, ThreadState
  <2>2. ScheduleRefresh(thread[t].revision, others)
    BY <1>7 DEF LoginWasCompleted
  <2> HIDE DEF others
  <2>3. \A u \in Callers : thread'[u] = others[u]
    BY <2>1, <2>2, AccountFacts DEF ScheduleRefresh
  <2>4. \A u \in Callers : \/ thread'[u] = thread[u]
                           \/ /\ thread[u].pc \notin {"undoing", "started"}
                              /\ thread'[u].pc \notin KnowPc /\ thread'[u].login < nextLogin
    BY <1>0, <1>7, <2>1, <2>3, AccountFacts DEF LoginWasCompleted, At, KnowPc
  <2>5. unsure \subseteq unsure'
    BY <2>2 DEF ScheduleRefresh
  <2>6. QED
    BY <1>7, <2>4, <2>5, CallersMove DEF LoginWasCompleted
<1>8. CASE OpenBrowser(t)
  <2>1. UNCHANGED <<connection, revision, loginStart, attempt, notices, logins, nextLogin,
                    unsure>>
    BY <1>8 DEF OpenBrowser, stateVars
  <2>2. CASE Return(t, status)
    BY <1>8, <2>1, <2>2, ReturnLogin DEF OpenBrowser, At
  <2>3. CASE Goto(t, "undoing")
    <3>1. PICK h : h = At2(t, "undoing")
      OBVIOUS
    <3>2. thread' = [thread EXCEPT ![t] = h]
      BY <2>3, <3>1 DEF Goto, At2
    <3>3. h.pc = "undoing" /\ h.login = thread[t].login
      BY <1>0, <3>1, ThreadTyped DEF SafeInv, At2, ThreadState
    <3>4. attempt \in {0, thread[t].login}
      BY <1>0, <1>8 DEF Knows, OpenBrowser, At
    <3>5. Knows(h)'
      BY <1>0, <2>1, <3>3, <3>4 DEF Knows
    <3>6. \A l \in Logins : ~Holds(thread[t], l)
      BY <1>8 DEF OpenBrowser, At, Holds
    <3>7. QED
      BY <1>0, <2>1, <3>2, <3>5, <3>6, LoginMove
  <2>4. QED
    BY <1>8, <2>2, <2>3 DEF OpenBrowser
<1>9. CASE UndoAnswered(t)
  BY <1>9, UndoAnsweredLogin
<1>10. CASE UndoStatus(t)
  BY <1>10, ReturnLogin DEF UndoStatus, At
<1>11. CASE BeginLogout(t)
  <2>1. UNCHANGED <<connection, revision, loginStart, attempt, notices, logins, nextLogin,
                    unsure>>
    BY <1>11 DEF BeginLogout, stateVars
  <2>2. CASE connection = 0
    BY <1>11, <2>1, <2>2, ReturnLogin DEF BeginLogout, At
  <2>3. CASE connection # 0
    <3>1. PICK h : h = [thread[t] EXCEPT !.pc = "loggingOut", !.revision = revision,
                                         !.connection = connection]
      OBVIOUS
    <3>2. thread' = [thread EXCEPT ![t] = h]
      BY <1>11, <2>3, <3>1 DEF BeginLogout
    <3>3. h.pc = "loggingOut" /\ h.login = thread[t].login
      BY <1>0, <3>1, ThreadTyped DEF SafeInv, ThreadState
    <3>4. \A l \in Logins : ~Holds(thread[t], l)
      BY <1>11 DEF BeginLogout, At, Holds
    <3>5. QED
      BY <1>0, <2>1, <3>2, <3>3, <3>4, PlainMove DEF KnowPc
  <2>4. QED
    BY <2>2, <2>3
<1>12. CASE LogoutAnswered(t)
  BY <1>12, GotoLogin, ReturnLogin DEF LogoutAnswered, At, KnowPc, stateVars
<1>13. CASE LookAtStatus(t)
  BY <1>13, ReturnLogin DEF LookAtStatus, At, stateVars
<1>14. CASE Publish(t)
  <2>1. Idle.pc \notin KnowPc /\ Idle.login = 0
    BY DEF Idle, KnowPc
  <2>2. \A l \in Logins : ~Holds(thread[t], l)
    BY <1>14 DEF Publish, At, Holds
  <2>3. QED
    BY <1>0, <1>14, <2>1, <2>2, PlainMove DEF Publish, stateVars
<1>15. QED
  BY <1>1, <1>2, <1>3, <1>4, <1>5, <1>6, <1>7, <1>8, <1>9, <1>10, <1>11, <1>12, <1>13, <1>14
  DEF CallerActions

\* Dropping the login that is under way leaves none, and starts none.
LEMMA DroppedFacts ==
    ASSUME SafeInv, NEW l \in Logins
    PROVE  /\ Dropped[l] # "active"
           /\ Dropped[l] \in {"active", "dropped"} <=> logins[l] \in {"active", "dropped"}
           /\ Dropped[l] = "none" <=> logins[l] = "none"
BY StateTyped DEF Dropped, SafeInv

\* Where an answer leaves the login of a thread.
LEMMA AnswerLogin ==
    ASSUME SafeInv, NEW t \in Threads, NEW reply
    PROVE  /\ WithAnswer(t, reply).pc = AnswerPc(thread[t].pc)
           /\ WithAnswer(t, reply).reply = reply
           /\ WithAnswer(t, reply).login = thread[t].login
           /\ WithAnswer(t, reply).revision = thread[t].revision
BY ThreadTyped DEF WithAnswer, SafeInv, ThreadState

\* A cancellation that is confirmed leaves the login not under way; one that is not
\* answered leaves it unsure.
LEMMA ServeCancelLogin ==
    ASSUME SafeInv, LoginInv, NEW t \in Threads, ServeCancel(t)
    PROVE  LoginInv'
<1>0. /\ thread[t].pc \in {"canceling", "undoing"}
      /\ UNCHANGED <<connection, revision, loginStart, attempt, notices, nextLogin>>
      /\ logins' = IF logins[thread[t].login] = "active" THEN Dropped ELSE logins
  BY DEF ServeCancel, stateVars
<1>1. t \in Callers /\ Knows(thread[t]) /\ thread[t].login \in Logins
  BY <1>0, ThreadTyped, AccountFacts
  DEF FlowOK, BackgroundPc, SafeInv, LoginInv, CallersKnow
<1>2. PICK reply \in {"ok", "failed"} :
        /\ Answered(t, reply)
        /\ unsure' = IF reply = "failed" THEN unsure \cup {thread[t].login} ELSE unsure
  BY DEF ServeCancel, Reply
<1>3. PICK h : h = WithAnswer(t, reply)
  OBVIOUS
<1>4. thread' = [thread EXCEPT ![t] = h]
  BY <1>2, <1>3, AnsweredShape DEF SafeInv
<1>5. AnswerPc(thread[t].pc) \in {"canceled", "undone"}
  BY <1>0 DEF AnswerPc
<1>6. h.pc \in {"canceled", "undone"} /\ h.reply = reply /\ h.login = thread[t].login
  BY <1>3, <1>5, AnswerLogin
<1>7. \A l \in Logins : /\ logins'[l] = "active" => logins' = logins /\ l # thread[t].login
                        /\ logins'[l] = "active" => logins[l] = "active"
                        /\ logins[l] \in {"active", "dropped"} =>
                              logins'[l] \in {"active", "dropped"}
                        /\ logins[l] = "none" => logins'[l] = "none"
  BY <1>0, DroppedFacts
<1>8. \A l : NotActive(l) => NotActive(l)'
  BY <1>0, <1>7 DEF NotActive
<1>9. Knows(h)'
  BY <1>0, <1>1, <1>2, <1>6, <1>7 DEF Knows, NotActive
<1>10. Numbered'
  BY <1>0, <1>7 DEF LoginInv, Numbered
<1>11. OverGood'
  BY <1>0, <1>8 DEF LoginInv, OverGood, Queued, Distinct
<1>12. AttemptGood'
  <2>1. attempt # 0 => attempt \in Logins
    BY StateTyped, AccountFacts DEF SafeInv, Logins
  <2>2. QED
    BY <1>0, <1>2, <1>7, <2>1 DEF LoginInv, AttemptGood, CompletionComing, Queued
<1>13. ASSUME NEW l \in Logins, logins'[l] = "active"
       PROVE  l = attempt' \/ l \in unsure' \/ Holds(h, l)
  <2>1. ASSUME NEW u \in Callers, Holds(thread[u], l) PROVE FALSE
    <3>1. thread[u].pc \in GatePc /\ thread[t].pc \in GatePc
      BY <1>0, <2>1 DEF Holds, GatePc
    <3>2. u = t
      BY <1>1, <3>1, OneAtGate
    <3>3. QED
      BY <1>7, <1>13, <2>1, <3>2 DEF Holds
  <2>2. QED
    BY <1>0, <1>2, <1>7, <1>13, <2>1 DEF LoginInv, ActiveKnown
<1>14. nextLogin' \in Nat /\ nextLogin <= nextLogin' /\ thread[t].pc \in GatePc
  BY <1>0, LoginTyped DEF GatePc
<1>15. QED
  BY <1>0, <1>1, <1>4, <1>9, <1>10, <1>11, <1>12, <1>13, <1>14, GateMove

\* A login that starts replaces the one before; the thread that asked for it answers for it.
LEMMA ServeLoginLogin ==
    ASSUME SafeInv, LoginInv, NEW t \in Threads, ServeLogin(t)
    PROVE  LoginInv'
<1>0. /\ thread[t].pc = "starting" /\ nextLogin \in Logins
      /\ UNCHANGED <<connection, revision, loginStart, attempt, notices>>
      /\ nextLogin' = nextLogin + 1
      /\ logins' = [Dropped EXCEPT ![nextLogin] = "active"]
      /\ thread[t].connection = connection
  BY DEF ServeLogin, stateVars, At
<1>1. t \in Callers /\ Knows(thread[t])
  BY <1>0, ThreadTyped, AccountFacts
  DEF FlowOK, BackgroundPc, SafeInv, LoginInv, CallersKnow
<1>2. PICK reply \in {"browser", "unusable", "failed"} :
        /\ thread' = [thread EXCEPT ![t].pc = "started", ![t].reply = reply,
                                    ![t].login = nextLogin]
        /\ unsure' = IF reply = "failed" THEN unsure \cup {nextLogin} ELSE unsure
  BY DEF ServeLogin, Reply
<1>3. PICK h : h = [thread[t] EXCEPT !.pc = "started", !.reply = reply, !.login = nextLogin]
  OBVIOUS
<1>4. thread' = [thread EXCEPT ![t] = h]
  BY <1>2, <1>3 DEF SafeInv, BaseInv, Typed
<1>5. /\ h.pc = "started" /\ h.reply = reply /\ h.login = nextLogin
      /\ h.revision = thread[t].revision
  BY <1>3, ThreadTyped DEF SafeInv, ThreadState
<1>6. attempt = 0 /\ (IsCurrent(thread[t].revision) => loginStart.revision = revision)
  BY <1>0, <1>1 DEF Knows
<1>7. /\ logins'[nextLogin] = "active"
      /\ \A l \in Logins : l # nextLogin => logins'[l] = Dropped[l]
  BY <1>0 DEF Dropped
<1>8. nextLogin \in Nat /\ nextLogin' \in Nat /\ nextLogin < nextLogin'
      /\ nextLogin <= nextLogin' /\ \A l \in Logins : l \in Nat
  BY <1>0, LoginTyped
<1>9. \A l : NotActive(l) => NotActive(l)'
  BY <1>7, <1>8, DroppedFacts DEF NotActive
<1>10. Knows(h)'
  BY <1>0, <1>5, <1>6, <1>7, <1>8 DEF Knows, IsCurrent
<1>11. connection # 0
  BY <1>0, <1>1 DEF Knows
<1>12. Numbered'
  <2>1. attempt' < nextLogin'
    BY <1>0, <1>6, <1>8
  <2>2. \A l \in Logins : l >= nextLogin' => logins'[l] = "none"
    <3>1. \A l \in Logins : l >= nextLogin' => l # nextLogin /\ l >= nextLogin
      BY <1>8
    <3>2. QED
      BY <1>7, <3>1, DroppedFacts DEF LoginInv, Numbered
  <2>3. QED
    BY <1>0, <1>11, <2>1, <2>2 DEF Numbered
<1>13. OverGood'
  BY <1>0, <1>9 DEF LoginInv, OverGood, Queued, Distinct
<1>14. AttemptGood'
  BY <1>0, <1>6 DEF AttemptGood
<1>15. \A l \in Logins : logins'[l] = "active" =>
         l = attempt' \/ l \in unsure' \/ Holds(h, l)
  BY <1>2, <1>5, <1>7, DroppedFacts DEF Holds
<1>16. thread[t].pc \in GatePc
  BY <1>0 DEF GatePc
<1>17. QED
  BY <1>0, <1>1, <1>4, <1>8, <1>10, <1>12, <1>13, <1>14, <1>15, <1>16, GateMove

\* A notification is sent and no login starts; a login that ends reports it.
LEMMA NoticeLogin ==
    ASSUME SafeInv, LoginInv, NEW kind, NEW login, notices' = notices \o Notice(kind, login),
           kind = "completed" => NotActive(login)',
           \A l \in Logins : /\ logins'[l] = "active" => logins[l] = "active"
                             /\ logins[l] = "none" => logins'[l] = "none"
                             /\ logins[l] \in {"active", "dropped"} =>
                                   \/ logins'[l] \in {"active", "dropped"}
                                   \/ kind = "completed" /\ login = l,
           UNCHANGED <<connection, revision, loginStart, attempt, nextLogin, unsure>>,
           \A u \in Callers :
               \/ thread'[u] = thread[u]
               \/ thread[u].pc \notin {"undoing", "started"}
                  /\ thread'[u].pc \notin KnowPc /\ thread'[u].login < nextLogin
    PROVE  LoginInv'
<1>0. PICK n : n = [kind |-> kind, login |-> login, connection |-> connection]
  OBVIOUS
<1>1. /\ Queued' = Queued \cup {n}
      /\ n.kind = kind /\ n.login = login /\ n.connection = connection
  BY <1>0, QueuedAppended DEF SafeInv
<1>2. \A l : NotActive(l) => NotActive(l)'
  BY DEF NotActive
<1>3. \A l : /\ CompletionComing(l) => CompletionComing(l)'
             /\ kind = "completed" /\ login = l => CompletionComing(l)'
  BY <1>1 DEF CompletionComing
<1>4. Numbered'
  BY DEF LoginInv, Numbered
<1>5. OverGood'
  <2>1. \A m \in Queued' : m.kind = "completed" => NotActive(m.login)'
    BY <1>1, <1>2 DEF LoginInv, OverGood
  <2>2. \A i \in DOMAIN loginStart'.ids : NotActive(loginStart.ids[i])'
    BY DEF LoginInv, OverGood, NotActive
  <2>3. QED
    BY <2>1, <2>2 DEF LoginInv, OverGood, Distinct, NotActive
<1>6. CallersKnow'
  <2> SUFFICES ASSUME NEW u \in Callers PROVE Knows(thread[u])'
    BY DEF CallersKnow
  <2>1. PICK k : k = thread'[u]
    OBVIOUS
  <2>2. Knows(k)'
    <3>1. CASE k # thread[u]
      BY <2>1, <3>1 DEF Knows, KnowPc
    <3>2. CASE k = thread[u]
      <4>1. Knows(k)
        BY <3>2 DEF LoginInv, CallersKnow
      <4>2. k.pc = "started" /\ k.reply # "failed" => k.login \in Logins
        BY <3>2, LoginTyped, ThreadTyped DEF SafeInv, FlowOK
      <4>3. \A l : CompletedEarly(l)' <=> CompletedEarly(l)
        BY DEF CompletedEarly
      <4>4. QED
        BY <1>2, <1>3, <4>1, <4>2, <4>3 DEF Knows, IsCurrent
    <3>3. QED
      BY <3>1, <3>2
  <2>3. QED
    BY <2>1, <2>2 DEF Knows
<1>7. ActiveKnown'
  BY DEF LoginInv, ActiveKnown, Holds
<1>8. AttemptGood'
  <2>1. attempt # 0 => attempt \in Logins
    BY StateTyped, AccountFacts DEF SafeInv, Logins
  <2>2. attempt # 0 => \/ logins'[attempt] \in {"active", "dropped"}
                       \/ attempt \in unsure
                       \/ CompletionComing(attempt)'
    BY <1>3, <2>1 DEF LoginInv, AttemptGood
  <2>3. QED
    BY <2>2 DEF AttemptGood, CompletionComing
<1>9. QED
  BY <1>4, <1>5, <1>6, <1>7, <1>8 DEF LoginInv

\* A request that fails leaves the login it was about unsure.
LEMMA RequestFailsLogin ==
    ASSUME SafeInv, LoginInv, NEW t \in Threads, RequestFails(t)
    PROVE  LoginInv'
<1>0. /\ thread[t].pc \in Asking
      /\ UNCHANGED <<connection, revision, loginStart, attempt, notices, logins, nextLogin>>
      /\ unsure' = IF thread[t].pc \in {"canceling", "undoing"}
                   THEN unsure \cup {thread[t].login} ELSE unsure
  BY DEF RequestFails, stateVars
<1>1. PICK reply \in {"unavailable", "failed"} :
        Answered(t, reply) /\ (thread[t].pc # "reading" => reply = "failed")
  BY DEF RequestFails, At
<1>2. PICK h : h = WithAnswer(t, reply)
  OBVIOUS
<1>3. thread' = [thread EXCEPT ![t] = h]
  BY <1>1, <1>2, AnsweredShape DEF SafeInv
<1>4. h.reply = reply /\ h.login = thread[t].login /\ h.revision = thread[t].revision
  BY <1>2, AnswerLogin
<1>5. /\ h.pc \in {"canceled", "undone"} => thread[t].pc \in {"canceling", "undoing"}
      /\ h.pc = "started" => thread[t].pc = "starting"
      /\ h.pc \in {"canceled", "undone", "started", "loggedOut", "read"}
  <2>1. h.pc = AnswerPc(thread[t].pc)
    BY <1>2, AnswerLogin
  <2>2. QED
    BY <1>0, <2>1 DEF AnswerPc, Asking
<1>6. t \in Callers => Knows(h)'
  <2> SUFFICES ASSUME t \in Callers PROVE Knows(h)'
    OBVIOUS
  <2>1. Knows(thread[t])
    BY DEF LoginInv, CallersKnow
  <2>2. CASE thread[t].pc \in {"canceling", "undoing"}
    <3>1. h.pc \in {"canceled", "undone"} /\ reply = "failed"
      <4>1. h.pc = AnswerPc(thread[t].pc)
        BY <1>2, AnswerLogin
      <4>2. QED
        BY <1>1, <2>2, <4>1 DEF AnswerPc
    <3>2. QED
      BY <1>0, <1>4, <2>1, <2>2, <3>1 DEF Knows
  <2>3. CASE thread[t].pc = "starting"
    <3>1. h.pc = "started" /\ reply = "failed"
      <4>1. h.pc = AnswerPc(thread[t].pc)
        BY <1>2, AnswerLogin
      <4>2. QED
        BY <1>1, <2>3, <4>1 DEF AnswerPc
    <3>2. QED
      BY <1>0, <1>4, <2>1, <2>3, <3>1 DEF Knows, IsCurrent
  <2>4. CASE thread[t].pc \notin {"canceling", "undoing", "starting"}
    BY <1>0, <1>4, <1>5, <2>1, <2>4 DEF Knows
  <2>5. QED
    BY <2>2, <2>3, <2>4
<1>7. \A l \in Logins : Holds(thread[t], l) => l \in unsure'
  BY <1>0 DEF Holds, Asking
<1>8. QED
  BY <1>0, <1>3, <1>6, <1>7, LoginMove

LEMMA ThreadLogin ==
    ASSUME SafeInv, LoginInv, NEW t \in Threads, ThreadActions(t)
    PROVE  LoginInv'
<1>0. 0 < nextLogin /\ (t \in Callers => thread[t].login < nextLogin)
  BY LoginTyped DEF LoginInv, CallersKnow, Knows
<1> USE DEF serverVars, otherServerVars
<1>1. CASE BeginRefresh(t)
  <2>1. PICK h : h = [thread[t] EXCEPT !.pc = IF connection = 0 THEN "read" ELSE "reading",
                    !.reply = IF connection = 0 THEN "unavailable" ELSE "none",
                    !.revision = revision, !.connection = connection, !.login = 0]
    OBVIOUS
  <2>2. thread' = [thread EXCEPT ![t] = h]
    BY <1>1, <2>1 DEF BeginRefresh
  <2>3. h.pc \in {"read", "reading"} /\ h.login = 0
    BY <2>1, ThreadTyped DEF SafeInv, ThreadState
  <2>4. \A l \in Logins : ~Holds(thread[t], l)
    BY <1>1 DEF BeginRefresh, At, Holds
  <2>5. QED
    BY <1>0, <1>1, <2>2, <2>3, <2>4, PlainMove, ZenonT(40) DEF BeginRefresh, KnowPc
<1>2. CASE Read(t)
  <2>1. PICK h : h = [thread[t] EXCEPT !.pc = "refreshed", !.reply = status']
    OBVIOUS
  <2>2. thread' = [thread EXCEPT ![t] = h]
    BY <1>2, <2>1 DEF Read
  <2>3. h.pc = "refreshed" /\ h.login = thread[t].login
    BY <2>1, ThreadTyped DEF SafeInv, ThreadState
  <2>4. \A l \in Logins : ~Holds(thread[t], l)
    BY <1>2 DEF Read, At, Holds
  <2>5. QED
    BY <1>0, <1>2, <2>2, <2>3, <2>4, PlainMove DEF Read, KnowPc
<1>3. CASE PublishRefresh(t)
  <2>1. PICK h : h = [Idle EXCEPT !.pc = IF t \in Callers THEN "publish" ELSE "finish",
                       !.reply = IF t \in Callers THEN thread[t].reply ELSE "none",
                       !.task = thread[t].task]
    OBVIOUS
  <2>2. thread' = [thread EXCEPT ![t] = h]
    BY <1>3, <2>1 DEF PublishRefresh
  <2>3. h.pc \in {"publish", "finish"} /\ h.login = 0
    BY <2>1 DEF Idle
  <2>4. \A l \in Logins : ~Holds(thread[t], l)
    BY <1>3 DEF PublishRefresh, At, Holds
  <2>5. QED
    BY <1>0, <1>3, <2>2, <2>3, <2>4, PlainMove, ZenonT(40) DEF PublishRefresh, KnowPc, stateVars
<1>4. CASE ServeRead(t)
  <2>1. PICK h : h = WithAnswer(t, account)
    OBVIOUS
  <2>2. thread' = [thread EXCEPT ![t] = h]
    BY <1>4, <2>1, AnsweredShape DEF ServeRead, SafeInv
  <2>3. h.pc = "read" /\ h.login = thread[t].login
    BY <1>4, <2>1, AnswerLogin DEF ServeRead, At, AnswerPc
  <2>4. \A l \in Logins : ~Holds(thread[t], l)
    BY <1>4 DEF ServeRead, At, Holds
  <2>5. QED
    BY <1>0, <1>4, <2>2, <2>3, <2>4, PlainMove DEF ServeRead, KnowPc, stateVars
<1>5. CASE ServeCancel(t)
  BY <1>5, ServeCancelLogin
<1>6. CASE ServeLogin(t)
  BY <1>6, ServeLoginLogin
<1>7. CASE ServeLogout(t)
  <2>1. PICK reply : Answered(t, reply)
    BY <1>7 DEF ServeLogout
  <2>2. thread' = [thread EXCEPT ![t] = WithAnswer(t, reply)]
    BY <2>1, AnsweredShape DEF SafeInv
  <2>3. WithAnswer(t, reply).pc = "loggedOut" /\ WithAnswer(t, reply).login = thread[t].login
    BY <1>7, AnswerLogin DEF ServeLogout, At, AnswerPc
  <2>4. thread'[t].pc = "loggedOut" /\ thread'[t].login = thread[t].login
        /\ \A u \in Threads : u # t => thread'[u] = thread[u]
    BY <2>2, <2>3 DEF SafeInv, BaseInv, Typed
  <2>5. \A u \in Callers :
               \/ thread'[u] = thread[u]
               \/ thread[u].pc \notin {"undoing", "started"}
                  /\ thread'[u].pc \notin KnowPc /\ thread'[u].login < nextLogin
    BY <1>0, <1>7, <2>4, LoginTyped DEF ServeLogout, At, KnowPc
  <2>6. /\ notices' = notices \o Notice("updated", 0) /\ logins' = Dropped
        /\ UNCHANGED <<connection, revision, loginStart, attempt, nextLogin, unsure>>
    BY <1>7 DEF ServeLogout, stateVars
  <2>7. \A l \in Logins : /\ logins'[l] = "active" => logins[l] = "active"
                          /\ logins[l] = "none" => logins'[l] = "none"
                          /\ logins[l] \in {"active", "dropped"} =>
                                logins'[l] \in {"active", "dropped"}
    BY <2>6, DroppedFacts
  <2>8. QED
    BY <2>5, <2>6, <2>7, NoticeLogin
<1>8. CASE RequestFails(t)
  BY <1>8, RequestFailsLogin
<1>9. QED
  BY <1>1, <1>2, <1>3, <1>4, <1>5, <1>6, <1>7, <1>8 DEF ThreadActions

\* The completions that are remembered: at most the displaced one gives way.
LEMMA RememberedIds ==
    ASSUME BaseInv, NEW l \in Logins, Distinct(loginStart.ids),
           loginStart.revision = revision, loginStart' = Remembered(l)
    PROVE  /\ loginStart'.revision = revision
           /\ Distinct(loginStart'.ids)
           /\ \E j \in DOMAIN loginStart'.ids : loginStart'.ids[j] = l
           /\ \A i \in DOMAIN loginStart.ids :
                 \/ loginStart.ids[i] \in Displaced(l)
                 \/ \E j \in DOMAIN loginStart'.ids : loginStart'.ids[j] = loginStart.ids[i]
           /\ \A j \in DOMAIN loginStart'.ids :
                 \/ loginStart'.ids[j] = l
                 \/ \E i \in DOMAIN loginStart.ids : loginStart'.ids[j] = loginStart.ids[i]
<1>0. /\ loginStart.ids \in Seq(Logins) /\ Len(loginStart.ids) <= MaxEarly
      /\ loginStart \in [revision : 0..MaxSwitches, ids : Seq(Logins)]
  BY StateTyped
<1>1. PICK ids : ids = WithoutId(loginStart.ids, l)
  OBVIOUS
<1>2. /\ ids \in Seq(Logins) /\ Distinct(ids)
      /\ \A i \in DOMAIN ids : ids[i] # l
  BY <1>0, <1>1, WithoutIdTyped
<1>3. \A i \in DOMAIN loginStart.ids : loginStart.ids[i] # l =>
        \E j \in DOMAIN ids : ids[j] = loginStart.ids[i]
  BY <1>0, <1>1, WithoutIdTyped
<1>4. \A j \in DOMAIN ids : \E i \in DOMAIN loginStart.ids : loginStart.ids[i] = ids[j]
  BY <1>0, <1>1, WithoutIdTyped
<1>5. PICK kept : kept = IF Len(ids) < MaxEarly THEN ids ELSE Tail(ids)
  OBVIOUS
<1>6. /\ kept \in Seq(Logins) /\ Distinct(kept)
      /\ \A i \in DOMAIN kept : \E j \in DOMAIN ids : kept[i] = ids[j]
      /\ \A j \in DOMAIN ids : ids[j] \in Displaced(l) \/ \E i \in DOMAIN kept : kept[i] = ids[j]
  <2>1. CASE Len(ids) < MaxEarly
    BY <1>2, <1>5, <2>1
  <2>2. CASE ~(Len(ids) < MaxEarly)
    <3>1. /\ ids = loginStart.ids /\ Len(ids) = MaxEarly
          /\ Len(ids) \in Nat /\ Len(ids) > 0 /\ DOMAIN ids = 1..Len(ids)
      <4>1. Len(ids) \in Nat /\ Len(loginStart.ids) \in Nat
        BY <1>0, <1>2
      <4>2. ids = loginStart.ids \/ Len(ids) = Len(loginStart.ids) - 1
        BY <1>0, <1>1, WithoutIdTyped
      <4>3. ids = loginStart.ids /\ Len(ids) = MaxEarly /\ Len(ids) > 0
        BY <1>0, <2>2, <4>1, <4>2, AccountFacts
      <4>4. QED
        BY <1>2, <4>1, <4>3
    <3>2. Displaced(l) = {ids[1]}
      BY <1>2, <3>1 DEF Displaced
    <3>3. /\ kept \in Seq(Logins) /\ DOMAIN kept = 1..Len(ids) - 1
          /\ \A i \in 1..Len(ids) - 1 : kept[i] = ids[i + 1]
      <4>1. kept = Tail(ids)
        BY <1>5, <2>2
      <4>2. kept \in Seq(Logins) /\ Len(kept) = Len(ids) - 1
        BY <1>2, <3>1, <4>1, HeadTailProperties
      <4>3. DOMAIN kept = 1..Len(kept)
        BY <4>2
      <4>4. DOMAIN kept = 1..Len(ids) - 1
        BY <4>2, <4>3
      <4>5. ASSUME NEW i \in 1..Len(ids) - 1 PROVE kept[i] = ids[i + 1]
        BY <1>2, <3>1, <4>1
      <4>6. QED
        BY <4>2, <4>4, <4>5
    <3>4. Distinct(kept)
      <4>1. ASSUME NEW i \in DOMAIN kept, NEW j \in DOMAIN kept, kept[i] = kept[j]
            PROVE  i = j
        <5>1. /\ i + 1 \in DOMAIN ids /\ j + 1 \in DOMAIN ids
              /\ kept[i] = ids[i + 1] /\ kept[j] = ids[j + 1]
          BY <3>1, <3>3
        <5>2. i + 1 = j + 1
          BY <1>2, <4>1, <5>1 DEF Distinct
        <5>3. i \in Int /\ j \in Int
          BY <3>1, <3>3
        <5>4. QED
          BY <5>2, <5>3
      <4>2. QED
        BY <4>1 DEF Distinct
    <3>5. ASSUME NEW i \in DOMAIN kept PROVE \E j \in DOMAIN ids : kept[i] = ids[j]
      <4>1. i + 1 \in DOMAIN ids /\ kept[i] = ids[i + 1]
        BY <3>1, <3>3
      <4>2. QED
        BY <4>1
    <3>6. ASSUME NEW j \in DOMAIN ids, j # 1 PROVE \E i \in DOMAIN kept : kept[i] = ids[j]
      <4>1. j - 1 \in 1..Len(ids) - 1 /\ j - 1 + 1 = j
        BY <3>1, <3>6
      <4>2. QED
        BY <3>3, <4>1
    <3>7. QED
      BY <3>2, <3>3, <3>4, <3>5, <3>6
  <2>3. QED
    BY <2>1, <2>2
<1>7. loginStart' = [loginStart EXCEPT !.ids = Append(kept, l)]
  BY <1>1, <1>5 DEF Remembered
<1>8. loginStart'.revision = revision /\ loginStart'.ids = Append(kept, l)
  BY <1>0, <1>7
<1>9. PICK new : new = loginStart'.ids
  OBVIOUS
<1>10. /\ Len(kept) \in Nat /\ DOMAIN kept = 1..Len(kept)
       /\ DOMAIN new = 1..Len(kept) + 1
       /\ \A i \in 1..Len(kept) : new[i] = kept[i]
       /\ new[Len(kept) + 1] = l
  BY <1>6, <1>8, <1>9
<1>11. \A i \in DOMAIN kept : kept[i] # l
  BY <1>2, <1>6
<1>12. Distinct(new)
  BY <1>6, <1>10, <1>11 DEF Distinct
<1>13. Len(kept) + 1 \in DOMAIN new /\ \A j \in DOMAIN kept : j \in DOMAIN new /\ new[j] = kept[j]
  BY <1>10
<1>14. \A j \in DOMAIN new : j \in DOMAIN kept \/ j = Len(kept) + 1
  BY <1>10
<1>15. ASSUME NEW i \in DOMAIN loginStart.ids
       PROVE  \/ loginStart.ids[i] \in Displaced(l)
              \/ \E j \in DOMAIN new : new[j] = loginStart.ids[i]
  <2>1. CASE loginStart.ids[i] = l
    BY <1>10, <1>13, <2>1
  <2>2. CASE loginStart.ids[i] # l
    <3>1. PICK j \in DOMAIN ids : ids[j] = loginStart.ids[i]
      BY <1>3, <2>2
    <3>2. QED
      BY <1>6, <1>13, <3>1
  <2>3. QED
    BY <2>1, <2>2
<1>16. ASSUME NEW j \in DOMAIN new
       PROVE  new[j] = l \/ \E i \in DOMAIN loginStart.ids : new[j] = loginStart.ids[i]
  <2>1. CASE j = Len(kept) + 1
    BY <1>10, <2>1
  <2>2. CASE j \in DOMAIN kept
    <3>1. PICK k \in DOMAIN ids : kept[j] = ids[k]
      BY <1>6, <2>2
    <3>2. PICK i \in DOMAIN loginStart.ids : loginStart.ids[i] = ids[k]
      BY <1>4
    <3>3. QED
      BY <1>13, <2>2, <3>1, <3>2
  <2>3. QED
    BY <1>14, <2>1, <2>2
<1>17. QED
  BY <1>8, <1>9, <1>10, <1>12, <1>13, <1>15, <1>16

\* A completion ends the attempt, or is remembered for the thread that waits for its login.
LEMMA NotificationLogin ==
    ASSUME SafeInv, LoginInv, OnNotification
    PROVE  LoginInv'
<1>0. /\ notices # <<>> /\ notices' = Tail(notices)
      /\ UNCHANGED <<connection, revision, thread, logins, nextLogin>>
      /\ unsure \subseteq unsure'
  BY DEF OnNotification, HandleCompleted
<1>1. PICK n : n = Head(notices)
  OBVIOUS
<1>2. /\ Queued \subseteq Queued' \cup {n} /\ Queued' \subseteq Queued /\ n \in Queued
  BY <1>0, <1>1, QueuedTail DEF SafeInv
<1>3. \A l : CompletionComing(l) => \/ CompletionComing(l)'
                                    \/ /\ n.kind = "completed" /\ n.login = l
                                       /\ n.connection = connection
  BY <1>0, <1>2 DEF CompletionComing
<1>4. \A l : NotActive(l)' <=> NotActive(l)
  BY <1>0 DEF NotActive
<1>5. \A m \in Queued' : m.kind = "completed" => NotActive(m.login)'
  BY <1>2, <1>4 DEF LoginInv, OverGood
<1>6. CASE n.connection = connection /\ n.kind = "completed" /\ attempt = n.login
  <2>1. attempt' = 0 /\ loginStart' = loginStart
    BY <1>1, <1>6 DEF OnNotification, HandleCompleted
  <2>2. NotActive(attempt)
    BY <1>2, <1>6 DEF LoginInv, OverGood
  <2>3. attempt # 0
    BY <2>2, LoginTyped DEF NotActive
  <2>4. Numbered'
    BY <1>0, <2>1, LoginTyped DEF LoginInv, Numbered
  <2>5. OverGood'
    BY <1>0, <1>5, <2>1 DEF LoginInv, OverGood, Distinct, NotActive
  <2>6. CallersKnow'
    <3> SUFFICES ASSUME NEW u \in Callers PROVE Knows(thread[u])'
      BY DEF CallersKnow
    <3>1. Knows(thread[u])
      BY DEF LoginInv, CallersKnow
    <3>2. thread[u].pc \notin {"starting", "started"}
      BY <2>3, <3>1 DEF Knows
    <3>3. QED
      BY <1>0, <2>1, <3>1, <3>2 DEF Knows, NotActive
  <2>7. ActiveKnown'
    BY <1>0, <2>2 DEF LoginInv, ActiveKnown, Holds, NotActive
  <2>8. AttemptGood'
    BY <2>1 DEF AttemptGood
  <2>9. QED
    BY <2>4, <2>5, <2>6, <2>7, <2>8 DEF LoginInv
<1>7. CASE ~(n.connection = connection /\ n.kind = "completed" /\ attempt = n.login)
  <2>1. UNCHANGED attempt
    BY <1>1, <1>7 DEF OnNotification, HandleCompleted
  <2>2. Distinct(loginStart.ids) /\ \A i \in DOMAIN loginStart.ids : NotActive(loginStart.ids[i])
    BY DEF LoginInv, OverGood
  <2>3. /\ loginStart'.revision = loginStart.revision
        /\ Distinct(loginStart'.ids)
        /\ \A l : CompletedEarly(l) => CompletedEarly(l)' \/ l \in unsure'
        /\ n.connection = connection /\ n.kind = "completed" /\ loginStart.revision = revision
              => CompletedEarly(n.login)'
        /\ \A j \in DOMAIN loginStart'.ids : \A l : l = loginStart'.ids[j] => NotActive(l)
    <3>1. CASE n.connection = connection /\ n.kind = "completed"
               /\ loginStart.revision = revision
      <4>1. loginStart' = Remembered(n.login) /\ unsure' = unsure \cup Displaced(n.login)
        BY <1>1, <1>7, <3>1 DEF OnNotification, HandleCompleted
      <4>2. n.login \in Logins /\ NotActive(n.login)
        BY <1>2, <3>1 DEF LoginInv, OverGood, NotActive
      <4>3. /\ loginStart'.revision = revision
            /\ Distinct(loginStart'.ids)
            /\ \E j \in DOMAIN loginStart'.ids : loginStart'.ids[j] = n.login
            /\ \A i \in DOMAIN loginStart.ids :
                  \/ loginStart.ids[i] \in Displaced(n.login)
                  \/ \E j \in DOMAIN loginStart'.ids : loginStart'.ids[j] = loginStart.ids[i]
            /\ \A j \in DOMAIN loginStart'.ids :
                  \/ loginStart'.ids[j] = n.login
                  \/ \E i \in DOMAIN loginStart.ids : loginStart'.ids[j] = loginStart.ids[i]
        BY <2>2, <3>1, <4>1, <4>2, RememberedIds DEF SafeInv
      <4>4. /\ \A l : CompletedEarly(l) => CompletedEarly(l)' \/ l \in unsure'
            /\ CompletedEarly(n.login)'
        BY <1>0, <4>1, <4>3 DEF CompletedEarly
      <4>5. \A j \in DOMAIN loginStart'.ids : \A l : l = loginStart'.ids[j] => NotActive(l)
        BY <2>2, <4>2, <4>3
      <4>6. QED
        BY <3>1, <4>3, <4>4, <4>5
    <3>2. CASE ~(n.connection = connection /\ n.kind = "completed"
                 /\ loginStart.revision = revision)
      <4>1. loginStart' = loginStart
        BY <1>1, <1>7, <3>2 DEF OnNotification, HandleCompleted, Remembered
      <4>2. \A l : CompletedEarly(l) => CompletedEarly(l)'
        BY <1>0, <4>1 DEF CompletedEarly
      <4>3. QED
        BY <2>2, <3>2, <4>1, <4>2
    <3>3. QED
      BY <3>1, <3>2
  <2>4. Numbered'
    BY <1>0, <2>1 DEF LoginInv, Numbered
  <2>5. OverGood'
    BY <1>0, <1>5, <2>3 DEF OverGood, NotActive
  <2>6. CallersKnow'
    <3> SUFFICES ASSUME NEW u \in Callers PROVE Knows(thread[u])'
      BY DEF CallersKnow
    <3>1. PICK k : k = thread[u] /\ k = thread'[u]
      BY <1>0
    <3>2. Knows(k)
      BY <3>1 DEF LoginInv, CallersKnow
    <3>3. k.pc = "started" /\ k.reply # "failed" /\ IsCurrent(k.revision) =>
            \/ logins[k.login] \in {"active", "dropped"}
            \/ CompletionComing(k.login)'
            \/ CompletedEarly(k.login)'
            \/ k.login \in unsure'
      BY <1>0, <1>3, <2>3, <3>2 DEF Knows
    <3>4. Knows(k)'
      BY <1>0, <1>4, <2>1, <2>3, <3>2, <3>3 DEF Knows, IsCurrent
    <3>5. QED
      BY <3>1, <3>4 DEF Knows
  <2>7. ActiveKnown'
    BY <1>0, <2>1 DEF LoginInv, ActiveKnown, Holds
  <2>8. AttemptGood'
    <3>1. CompletionComing(attempt) => CompletionComing(attempt)'
      BY <1>0, <1>2, <1>7, <2>1 DEF CompletionComing
    <3>2. QED
      BY <1>0, <2>1, <3>1 DEF LoginInv, AttemptGood
  <2>9. QED
    BY <2>4, <2>5, <2>6, <2>7, <2>8 DEF LoginInv
<1>8. QED
  BY <1>6, <1>7

\* A reconnect forgets the attempt; the logins of the connection before are over.
LEMMA SwitchLogin ==
    ASSUME SafeInv, LoginInv, Connect \/ Disconnect
    PROVE  LoginInv'
<1>1. /\ revision' = revision + 1 /\ loginStart' = NoLoginStart /\ attempt' = 0
      /\ unsure' = unsure \ {0} /\ UNCHANGED <<thread, nextLogin>>
      /\ \/ notices' = <<>> /\ connection = 0 /\ UNCHANGED logins
         \/ /\ UNCHANGED notices
            /\ logins' = [l \in Logins |-> IF l < nextLogin THEN "over" ELSE "none"]
  BY DEF Connect, Disconnect, SwitchConnection
<1>2. \A l \in Logins : logins'[l] # "active"
  BY <1>1 DEF LoginInv, Numbered
<1>3. \A l : NotActive(l) => NotActive(l)'
  BY <1>1, <1>2 DEF NotActive
<1>4. /\ loginStart'.ids = <<>> /\ DOMAIN loginStart'.ids = {}
      /\ Queued' \subseteq Queued
  BY <1>1 DEF NoLoginStart, Queued
<1>5. Numbered'
  <2>1. \A l \in Logins : l >= nextLogin => logins'[l] = "none"
    BY <1>1, LoginTyped DEF LoginInv, Numbered
  <2>2. QED
    BY <1>1, <1>2, <2>1, LoginTyped DEF Numbered
<1>6. OverGood'
  <2>1. \A m \in Queued' : m.kind = "completed" => NotActive(m.login)'
    BY <1>3, <1>4 DEF LoginInv, OverGood
  <2>2. QED
    BY <1>4, <2>1 DEF OverGood, Distinct
<1>7. CallersKnow'
  <2> SUFFICES ASSUME NEW u \in Callers PROVE Knows(thread[u])'
    BY DEF CallersKnow
  <2>1. PICK k : k = thread[u] /\ k = thread'[u]
    BY <1>1
  <2>2. Knows(k)
    BY <2>1 DEF LoginInv, CallersKnow
  <2>3. k.revision # revision + 1
    <3>1. u \in Threads /\ BaseInv
      BY LoginTyped DEF SafeInv
    <3>2. k.revision \in Nat /\ revision \in Nat /\ k.revision <= revision
      BY <2>1, <3>1, ThreadTyped
    <3>3. QED
      BY <3>2
  <2>4. k.pc \in {"canceled", "undone"} => k.login # 0
    BY <2>1, LoginTyped, ThreadTyped DEF SafeInv, FlowOK
  <2>5. ~IsCurrent(k.revision)'
    BY <1>1, <2>3 DEF IsCurrent
  <2>6. Knows(k)'
    BY <1>1, <1>3, <2>2, <2>4, <2>5 DEF Knows
  <2>7. QED
    BY <2>1, <2>6 DEF Knows
<1>8. ActiveKnown' /\ AttemptGood'
  BY <1>1, <1>2 DEF ActiveKnown, AttemptGood
<1>9. QED
  BY <1>5, <1>6, <1>7, <1>8 DEF LoginInv

LEMMA OtherLogin ==
    ASSUME SafeInv, LoginInv, OtherActions
    PROVE  LoginInv'
<1> USE DEF serverVars, otherServerVars
<1>1. CASE Connect \/ Disconnect
  BY <1>1, SwitchLogin
<1>2. CASE PublishSwitch
  BY <1>2, CallersMove DEF PublishSwitch, stateVars
<1>3. ASSUME NEW b \in Background, RunBackground(b) \/ FinishBackground(b)
      PROVE  LoginInv'
  <2>1. \A u \in Callers : thread'[u] = thread[u]
    BY <1>3, LoginTyped, AccountFacts
    DEF RunBackground, FinishBackground, Goto, SafeInv, BaseInv, Typed
  <2>2. unsure \subseteq unsure'
    BY <1>3 DEF RunBackground, FinishBackground
  <2>3. QED
    BY <1>3, <2>1, <2>2, CallersMove DEF RunBackground, FinishBackground
<1>4. CASE OnNotification
  BY <1>4, NotificationLogin
<1>5. CASE ReaderSchedules
  <2>1. \A u \in Callers : thread'[u] = thread[u]
    BY <1>5, LoginTyped, AccountFacts
    DEF ReaderSchedules, ScheduleRefresh, SafeInv, BaseInv, Typed
  <2>2. unsure \subseteq unsure'
    BY <1>5 DEF ReaderSchedules, ScheduleRefresh
  <2>3. QED
    BY <1>5, <2>1, <2>2, CallersMove DEF ReaderSchedules
<1>6. ASSUME NEW l \in Logins, LoginEnds(l)
      PROVE  LoginInv'
  <2>1. /\ notices' = notices \o Notice("completed", l)
        /\ UNCHANGED <<connection, revision, loginStart, attempt, nextLogin, unsure, thread>>
        /\ logins[l] \in {"active", "dropped"}
    BY <1>6 DEF LoginEnds, stateVars
  <2>2. PICK end \in {"reloading", "over"} : logins' = [logins EXCEPT ![l] = end]
    BY <1>6 DEF LoginEnds
  <2>3. \A k \in Logins : logins'[k] = IF k = l THEN end ELSE logins[k]
    BY <2>2, StateTyped DEF SafeInv
  <2>4. l < nextLogin
    BY <2>1, LoginTyped DEF LoginInv, Numbered
  <2>5. NotActive(l)'
    BY <2>1, <2>3, <2>4 DEF NotActive
  <2>6. QED
    BY <2>1, <2>3, <2>5, NoticeLogin
<1>7. ASSUME NEW l \in Logins, AccountReloads(l)
      PROVE  LoginInv'
  <2>1. /\ notices' = notices \o Notice("updated", 0)
        /\ UNCHANGED <<connection, revision, loginStart, attempt, nextLogin, unsure, thread>>
        /\ logins[l] = "reloading" /\ logins' = [logins EXCEPT ![l] = "over"]
    BY <1>7 DEF AccountReloads, stateVars
  <2>2. \A k \in Logins : logins'[k] = IF k = l THEN "over" ELSE logins[k]
    BY <2>1, StateTyped DEF SafeInv
  <2>3. QED
    BY <2>1, <2>2, NoticeLogin
<1>8. QED
  BY <1>1, <1>2, <1>3, <1>4, <1>5, <1>6, <1>7 DEF OtherActions

(***************************************************************************)
(* No login is forgotten: at rest every login the App Server has under way *)
(* is the attempt of the service, and the attempt is under way, unless its *)
(* start or cancellation was never answered, or it completed before its    *)
(* start was answered and that completion gave way to later ones.          *)
(***************************************************************************)
THEOREM NoLoginForgotten == Spec => []AttemptIsUnderWay
<1>1. Init => LoginInv
  <2> SUFFICES ASSUME Init PROVE LoginInv
    OBVIOUS
  <2>1. /\ attempt = 0 /\ nextLogin = 1 /\ Queued = {} /\ DOMAIN loginStart.ids = {}
        /\ \A l \in Logins : logins[l] = "none"
        /\ \A t \in Callers : thread[t].pc = "idle" /\ thread[t].login = 0
    BY AccountFacts DEF Init, Queued, Idle
  <2>2. Numbered /\ OverGood /\ ActiveKnown /\ AttemptGood
    BY <2>1 DEF Numbered, OverGood, Distinct, ActiveKnown, AttemptGood
  <2>3. CallersKnow
    BY <2>1 DEF CallersKnow, Knows
  <2>4. QED
    BY <2>2, <2>3 DEF LoginInv
<1>2. SafeInv /\ LoginInv /\ [Next]_vars => LoginInv'
  <2> SUFFICES ASSUME SafeInv, LoginInv, [Next]_vars PROVE LoginInv'
    OBVIOUS
  <2>1. CASE UNCHANGED vars
    BY <2>1, CallersMove DEF vars, stateVars, serverVars, otherServerVars
  <2>2. QED
    BY <2>1, NextCases, CallerLogin, ThreadLogin, OtherLogin
<1>3. SafeInv /\ LoginInv => AttemptIsUnderWay
  <2> SUFFICES ASSUME SafeInv, LoginInv, AtRest
               PROVE  /\ \A l \in Logins : logins[l] = "active" => l = attempt \/ l \in unsure
                      /\ attempt # 0 => logins[attempt] = "active" \/ attempt \in unsure
    BY DEF AttemptIsUnderWay
  <2>1. \A t \in Callers : \A l \in Logins : ~Holds(thread[t], l)
    BY LoginTyped DEF AtRest, At, Holds
  <2>2. Queued = {}
    BY DEF AtRest, Queued
  <2>3. attempt # 0 => attempt \in Logins
    BY StateTyped, AccountFacts DEF SafeInv, Logins
  <2>4. attempt # 0 => logins[attempt] # "dropped"
    BY <2>3 DEF AtRest
  <2>5. QED
    BY <2>1, <2>2, <2>4 DEF LoginInv, ActiveKnown, AttemptGood, CompletionComing
<1>4. QED
  BY <1>1, <1>2, <1>3, SafeInvariant, PTL DEF Spec

=============================================================================

--------------------------- MODULE AccountService ---------------------------
(***************************************************************************)
(* AccountService: the commands of the user interface, the background      *)
(* refresh, the notifications of the reader and the connect and disconnect *)
(* of the supervisor, which all change one state under its lock and ask    *)
(* the App Server with the lock released.  What a thread learned before it *)
(* asked may be stale when the answer comes: connection_revision and       *)
(* refresh_revision are there to find out.                                 *)
(*                                                                         *)
(* A step is what a thread does under one acquisition of the state lock,   *)
(* or what the App Server does with one request.  The App Server, its      *)
(* account and its logins are external; AppServer shows that connections   *)
(* come and go as they do here.                                            *)
(***************************************************************************)
EXTENDS Integers, Sequences, FiniteSets

CONSTANTS
    Callers,            \* threads that execute commands
    Background,         \* threads for background refreshes
    Does,               \* caller -> the commands it executes
    NoThread,           \* nobody holds a lock
    MaxSwitches,        \* bound on the connects and disconnects
    MaxLogins,          \* bound on the logins the App Server starts
    MaxEarly,           \* MAX_EARLY_COMPLETION_IDS
    MaxCommands,        \* bound on the commands
    Faults              \* the failures that can happen

FaultKinds == {"request", "reply", "open", "spawn"}

Command == {"getStatus", "login", "cancel", "logout"}

ASSUME AccountAssumption ==
    /\ Callers \cap Background = {}
    /\ NoThread \notin Callers \cup Background
    /\ Does \in [Callers -> SUBSET Command]
    /\ {MaxSwitches, MaxLogins, MaxEarly, MaxCommands} \subseteq Nat
    /\ MaxEarly > 0
    /\ 2 * Cardinality(Background) >= MaxSwitches
    /\ Faults \subseteq FaultKinds

VARIABLES
    connection,         \* the number of the connection, or 0
    revision,           \* connection_revision
    loginStart,         \* the revision of LoginStartState, or 0, and its completion ids
    background,         \* BackgroundRefreshState
    attempt,            \* the login of login_attempt, or 0
    latest,             \* the thread whose refresh took the current refresh_revision
    status,             \* the status the service holds
    published,          \* published_status: what the user interface was told last
    switching,          \* the status connect or disconnect is about to publish, or "none"
    loginLock,          \* holder of login_operation
    browserLock,        \* holder of browser_open_operation
    thread,             \* thread -> what it does and what it captured
    reader,             \* the revision the reader schedules a refresh for, or 0
    notices,            \* notifications of the App Server the reader has not handled
    account,            \* the account as the App Server knows it
    logins,             \* login -> the state of its task in the App Server
    nextLogin,          \* the next login
    unsure,             \* history: logins whose start or cancellation was never
                        \* answered, or whose early completion gave way to later ones;
                        \* 0: a refresh could not be spawned
    commands            \* commands executed so far

stateVars ==
    <<connection, revision, loginStart, background, attempt, latest, status>>

publicVars == <<published, switching>>

lockVars == <<loginLock, browserLock>>

otherServerVars == <<notices, account, logins, nextLogin>>

serverVars == <<otherServerVars, unsure>>

vars == <<stateVars, publicVars, lockVars, thread, reader, serverVars, commands>>

Threads == Callers \cup Background

Logins == 1..MaxLogins

Account == {"signedIn", "signedOut"}

\* loginError: login_unavailable_error or browser_open_error.
Status == Account \cup {"checking", "pending", "unavailable", "loginError", "logoutError"}

\* The requests a thread waits for, and where it is otherwise.
Asking == {"canceling", "starting", "undoing", "loggingOut", "reading"}

Pc == Asking \cup {"idle", "entered", "gate", "canceled", "prepare", "started", "opening",
                   "scheduling", "undone", "undoneStatus", "leaving", "loggedOut",
                   "refresh", "read", "refreshed", "look", "publish", "spawned", "finish"}

\* task: the revision of a background refresh.  reply: the answer of the App Server, or
\* the status to publish.
Idle == [pc |-> "idle", command |-> "getStatus", revision |-> 0, connection |-> 0,
         task |-> 0, login |-> 0, reply |-> "none"]

Init ==
    /\ connection = 0
    /\ revision = 0
    /\ loginStart = [revision |-> 0, ids |-> <<>>]
    /\ background = "idle"
    /\ attempt = 0
    /\ latest = NoThread
    /\ status = "checking"
    /\ published = "none"
    /\ switching = "none"
    /\ loginLock = NoThread
    /\ browserLock = NoThread
    /\ thread = [t \in Threads |-> Idle]
    /\ reader = 0
    /\ notices = <<>>
    /\ account \in Account
    /\ logins = [l \in Logins |-> "none"]
    /\ nextLogin = 1
    /\ unsure = {}
    /\ commands = 0

-----------------------------------------------------------------------------

At(t, where) == thread[t].pc = where

Goto(t, where) == thread' = [thread EXCEPT ![t].pc = where]

\* The connection of that revision is still the one in use.
IsCurrent(r) == r = revision /\ connection # 0

\* The thread returns reply; the login gate, if it holds it, is released on return.
Return(t, reply) ==
    /\ thread' = [thread EXCEPT ![t] = [Idle EXCEPT !.pc = "publish", !.reply = reply]]
    /\ loginLock' = IF loginLock = t THEN NoThread ELSE loginLock

NoLoginStart == [revision |-> 0, ids |-> <<>>]

\* Mutant of SwitchConnection: the browser that is being opened is not waited for.
SwitchConnectionAtOnce(c, new) ==
    /\ switching = "none"
    /\ connection' = c
    /\ revision' = revision + 1
    /\ loginStart' = NoLoginStart
    /\ background' = "idle"
    /\ attempt' = 0
    /\ status' = new
    /\ switching' = new
    /\ unsure' = unsure \ {0}
    /\ UNCHANGED <<latest, published, lockVars, thread, reader, commands, nextLogin>>

\* connect and disconnect wait for browser_open_operation and hold it until they have
\* published.
SwitchConnection(c, new) ==
    /\ browserLock = NoThread
    /\ switching = "none"
    /\ connection' = c
    /\ revision' = revision + 1
    /\ loginStart' = NoLoginStart
    /\ background' = "idle"
    /\ attempt' = 0
    /\ status' = new
    /\ switching' = new
    /\ unsure' = unsure \ {0}
    /\ UNCHANGED <<latest, published, lockVars, thread, reader, commands, nextLogin>>

\* The reader of the connection before has been joined.
Connect ==
    /\ connection = 0
    /\ reader = 0
    /\ revision < MaxSwitches
    /\ SwitchConnection(revision \div 2 + 1, "checking")
    /\ notices' = <<>>
    /\ UNCHANGED <<account, logins>>

\* The logins end with the process; the next one finds stored credentials.
Disconnect ==
    /\ connection # 0
    /\ revision < MaxSwitches
    /\ SwitchConnection(0, "unavailable")
    /\ logins' = [l \in Logins |-> IF l < nextLogin THEN "over" ELSE "none"]
    /\ account' = IF \E l \in Logins : logins[l] = "reloading" THEN "signedIn" ELSE account
    /\ UNCHANGED notices

\* Mutant of PublishStatus: a status that was overtaken is told too.
PublishStatusAnyway(new) == published' = new

\* publish_status: told only if it is still the status.
PublishStatus(new) == published' = IF status = new THEN new ELSE published

PublishSwitch ==
    /\ switching # "none"
    /\ PublishStatus(switching)
    /\ switching' = "none"
    /\ UNCHANGED <<stateVars, lockVars, thread, reader, serverVars, commands>>

-----------------------------------------------------------------------------
(* execute_command *)

Execute(t, command) ==
    /\ At(t, "idle")
    /\ commands < MaxCommands
    /\ commands' = commands + 1
    /\ thread' = [thread EXCEPT ![t] =
          [Idle EXCEPT !.command = command,
                       !.pc = IF connection = 0 THEN "publish"
                              ELSE IF command = "getStatus" THEN "refresh" ELSE "gate",
                       !.reply = IF connection = 0 THEN "unavailable" ELSE "none"]]
    /\ UNCHANGED <<stateVars, publicVars, lockVars, reader, serverVars>>

Publish(t) ==
    /\ At(t, "publish")
    /\ PublishStatus(thread[t].reply)
    /\ thread' = [thread EXCEPT ![t] = Idle]
    /\ UNCHANGED <<stateVars, switching, lockVars, reader, serverVars, commands>>

\* A last look at the status for the answer of the command.
LookAtStatus(t) ==
    /\ At(t, "look")
    /\ Return(t, status)
    /\ UNCHANGED <<stateVars, publicVars, browserLock, reader, serverVars, commands>>

\* Where a command goes on when no attempt is left to cancel.
AfterCancel(command) ==
    CASE command = "login" -> "prepare"
      [] command = "cancel" -> "refresh"
      [] command = "logout" -> "leaving"

\* login_operation, and cancel_active_attempt up to its request.
EnterGate(t) ==
    /\ At(t, "gate")
    /\ loginLock = NoThread
    /\ loginLock' = t
    /\ thread' = [thread EXCEPT ![t] =
          [@ EXCEPT !.pc = IF attempt = 0 THEN AfterCancel(thread[t].command) ELSE "canceling",
                    !.login = attempt, !.revision = revision, !.connection = connection]]
    /\ UNCHANGED <<stateVars, publicVars, browserLock, reader, serverVars, commands>>

\* Mutant of Cleared: the status goes on waiting for the browser.
ClearedOnly(login) ==
    /\ attempt' = IF attempt = login THEN 0 ELSE attempt
    /\ UNCHANGED <<latest, status>>

\* clear_attempt
Cleared(login) ==
    IF attempt # 0 /\ attempt = login
    THEN /\ attempt' = 0
         /\ latest' = NoThread
         /\ status' = "checking"
    ELSE UNCHANGED <<attempt, latest, status>>

CancelAnswered(t) ==
    /\ At(t, "canceled")
    /\ IF thread[t].reply = "ok"
       THEN /\ Cleared(thread[t].login)
            /\ Goto(t, AfterCancel(thread[t].command))
            /\ UNCHANGED loginLock
       ELSE /\ IF IsCurrent(thread[t].revision) /\ attempt = thread[t].login
               THEN /\ latest' = NoThread
                    /\ status' = "loginError"
               ELSE UNCHANGED <<latest, status>>
            /\ Return(t, status')
            /\ UNCHANGED attempt
    /\ UNCHANGED <<connection, revision, loginStart, background, publicVars, browserLock,
                   reader, serverVars, commands>>

-----------------------------------------------------------------------------
(* refresh *)

\* Mutant of BeginRefresh: without a connection there is no answer.
BeginRefreshUnanswered(t) ==
    /\ At(t, "refresh")
    /\ latest' = t
    /\ thread' = [thread EXCEPT ![t] =
          [@ EXCEPT !.pc = IF connection = 0 THEN "read" ELSE "reading", !.reply = "none",
                    !.revision = revision, !.connection = connection, !.login = 0]]
    /\ UNCHANGED <<connection, revision, loginStart, background, attempt, status,
                   publicVars, lockVars, reader, serverVars, commands>>

BeginRefresh(t) ==
    /\ At(t, "refresh")
    /\ latest' = t
    /\ thread' = [thread EXCEPT ![t] =
          [@ EXCEPT !.pc = IF connection = 0 THEN "read" ELSE "reading",
                    !.reply = IF connection = 0 THEN "unavailable" ELSE "none",
                    !.revision = revision, !.connection = connection, !.login = 0]]
    /\ UNCHANGED <<connection, revision, loginStart, background, attempt, status,
                   publicVars, lockVars, reader, serverVars, commands>>

\* Mutant of Read: an answer is taken whatever happened since it was asked for.
ReadStale(t) ==
    /\ At(t, "read")
    /\ status' = IF thread[t].revision = revision /\ attempt = 0 THEN thread[t].reply ELSE status
    /\ thread' = [thread EXCEPT ![t].pc = "refreshed", ![t].reply = status']
    /\ UNCHANGED <<connection, revision, loginStart, background, attempt, latest,
                   publicVars, lockVars, reader, serverVars, commands>>

Read(t) ==
    /\ At(t, "read")
    /\ status' = IF /\ thread[t].revision = revision
                    /\ latest = t
                    /\ attempt = 0
                 THEN thread[t].reply ELSE status
    /\ thread' = [thread EXCEPT ![t].pc = "refreshed", ![t].reply = status']
    /\ UNCHANGED <<connection, revision, loginStart, background, attempt, latest,
                   publicVars, lockVars, reader, serverVars, commands>>

\* A refresh publishes for itself, before its command does.
PublishRefresh(t) ==
    /\ At(t, "refreshed")
    /\ PublishStatus(thread[t].reply)
    /\ loginLock' = IF loginLock = t THEN NoThread ELSE loginLock
    /\ thread' = [thread EXCEPT ![t] =
          [Idle EXCEPT !.pc = IF t \in Callers THEN "publish" ELSE "finish",
                       !.reply = IF t \in Callers THEN thread[t].reply ELSE "none",
                       !.task = thread[t].task]]
    /\ UNCHANGED <<stateVars, switching, browserLock, reader, serverVars, commands>>

-----------------------------------------------------------------------------
(* The background refresh *)

\* Mutant of ScheduleRefresh: another refresh is spawned while one runs.
ScheduleRefreshAlways(r, others) ==
    /\ IF IsCurrent(r) /\ \E b \in Background : At(b, "idle")
       THEN /\ \E b \in Background :
                  /\ At(b, "idle")
                  /\ thread' = [others EXCEPT ![b] =
                        [Idle EXCEPT !.pc = "spawned", !.task = r]]
            /\ background' = "scheduled"
       ELSE thread' = others /\ UNCHANGED background
    /\ UNCHANGED unsure

(***************************************************************************)
(* schedule_background_refresh for revision r; others is what becomes of   *)
(* the threads otherwise.  A refresh that runs is asked to run once more,  *)
(* and one that cannot be spawned is lost.                                 *)
(***************************************************************************)
ScheduleRefresh(r, others) ==
    \/ /\ ~IsCurrent(r)
       /\ thread' = others
       /\ UNCHANGED <<background, unsure>>
    \/ /\ IsCurrent(r)
       /\ background = "idle"
       /\ \E b \in Background :
             /\ At(b, "idle")
             /\ thread' = [others EXCEPT ![b] = [Idle EXCEPT !.pc = "spawned", !.task = r]]
       /\ background' = "scheduled"
       /\ UNCHANGED unsure
    \/ /\ IsCurrent(r)
       /\ background = "idle"
       /\ "spawn" \in Faults
       /\ thread' = others
       /\ unsure' = unsure \cup {0}
       /\ UNCHANGED background
    \/ /\ IsCurrent(r)
       /\ background # "idle"
       /\ thread' = others
       /\ background' = IF background = "scheduled" THEN "scheduled" ELSE "requested"
       /\ UNCHANGED unsure

RunBackground(b) ==
    /\ At(b, "spawned")
    /\ IF IsCurrent(thread[b].task) /\ background = "scheduled"
       THEN Goto(b, "refresh") /\ background' = "running"
       ELSE thread' = [thread EXCEPT ![b] = Idle] /\ UNCHANGED background
    /\ UNCHANGED <<connection, revision, loginStart, attempt, latest, status,
                   publicVars, lockVars, reader, serverVars, commands>>

\* Asked to run once more, it hands over to another thread.
FinishBackground(b) ==
    /\ At(b, "finish")
    /\ LET over == [thread EXCEPT ![b] = Idle]
       IN  \/ /\ IsCurrent(thread[b].task)
              /\ background = "requested"
              /\ \/ /\ thread' = [over EXCEPT ![b].pc = "spawned", ![b].task = thread[b].task]
                    /\ background' = "scheduled"
                    /\ UNCHANGED unsure
                 \/ /\ "spawn" \in Faults
                    /\ thread' = over
                    /\ background' = "idle"
                    /\ unsure' = unsure \cup {0}
           \/ /\ ~IsCurrent(thread[b].task) \/ background # "requested"
              /\ thread' = over
              /\ background' = IF IsCurrent(thread[b].task) THEN "idle" ELSE background
              /\ UNCHANGED unsure
    /\ UNCHANGED <<connection, revision, loginStart, attempt, latest, status,
                   publicVars, lockVars, reader, otherServerVars, commands>>

-----------------------------------------------------------------------------
(* The notifications, handled by the reader *)

\* Mutant of Remembered: a completion of a login that is not installed is dropped.
Forgotten(login) == loginStart

\* The ids, which are distinct, without login.
WithoutId(ids, login) ==
    IF \E i \in DOMAIN ids : ids[i] = login
    THEN LET i == CHOOSE i \in DOMAIN ids : ids[i] = login
         IN  SubSeq(ids, 1, i - 1) \o SubSeq(ids, i + 1, Len(ids))
    ELSE ids

\* remember_early_completion: a completion is kept once, the oldest ids give way.
Remembered(login) ==
    LET ids == WithoutId(loginStart.ids, login)
    IN  IF loginStart.revision # revision THEN loginStart
        ELSE [loginStart EXCEPT !.ids =
                Append(IF Len(ids) < MaxEarly THEN ids ELSE Tail(ids), login)]

\* The login whose completion, the oldest of MAX_EARLY_COMPLETION_IDS, gives way.
Displaced(login) ==
    IF /\ loginStart.revision = revision
       /\ Len(loginStart.ids) = MaxEarly
       /\ \A i \in DOMAIN loginStart.ids : loginStart.ids[i] # login
    THEN {Head(loginStart.ids)} ELSE {}

HandleCompleted(login) ==
    IF attempt = login
    THEN /\ attempt' = 0
         /\ latest' = NoThread
         /\ status' = "checking"
         /\ reader' = revision
         /\ UNCHANGED <<loginStart, unsure>>
    ELSE /\ loginStart' = Remembered(login)
         /\ unsure' = unsure \cup Displaced(login)
         /\ UNCHANGED <<attempt, latest, status, reader>>

OnNotification ==
    /\ reader = 0
    /\ notices # <<>>
    /\ notices' = Tail(notices)
    /\ LET n == Head(notices)
       IN  \/ /\ n.connection = connection
              /\ n.kind = "completed"
              /\ HandleCompleted(n.login)
           \/ /\ n.connection = connection
              /\ n.kind = "updated"
              /\ reader' = revision
              /\ UNCHANGED <<loginStart, attempt, latest, status, unsure>>
           \/ /\ n.connection # connection
              /\ UNCHANGED <<loginStart, attempt, latest, status, reader, unsure>>
    /\ UNCHANGED <<connection, revision, background, publicVars, lockVars, thread, account,
                   logins, nextLogin, commands>>

ReaderSchedules ==
    /\ reader # 0
    /\ ScheduleRefresh(reader, thread)
    /\ reader' = 0
    /\ UNCHANGED <<connection, revision, loginStart, attempt, latest, status,
                   publicVars, lockVars, otherServerVars, commands>>

-----------------------------------------------------------------------------
(* start_browser_login *)

PrepareLogin(t) ==
    /\ At(t, "prepare")
    /\ IF connection = 0
       THEN /\ latest' = NoThread
            /\ status' = "loginError"
            /\ Return(t, status')
            /\ UNCHANGED loginStart
       ELSE /\ loginStart' = [revision |-> revision, ids |-> <<>>]
            /\ thread' = [thread EXCEPT ![t] =
                  [@ EXCEPT !.pc = "starting", !.revision = revision,
                            !.connection = connection]]
            /\ UNCHANGED <<latest, status, loginLock>>
    /\ UNCHANGED <<connection, revision, background, attempt, publicVars, browserLock,
                   reader, serverVars, commands>>

\* discard_login_start
Discarded(r) == IF loginStart.revision = r THEN NoLoginStart ELSE loginStart

\* set_status_for_connection
SetStatusFor(r, new) ==
    IF IsCurrent(r)
    THEN /\ latest' = NoThread
         /\ status' = new
    ELSE UNCHANGED <<latest, status>>

\* The answer carries no login, or one that this service cannot use: a device code, or
\* one with an address that is not official.
LoginRefused(t) ==
    /\ At(t, "started")
    /\ thread[t].reply # "browser"
    /\ loginStart' = Discarded(thread[t].revision)
    /\ \/ /\ thread[t].reply = "failed"
          /\ SetStatusFor(thread[t].revision, "loginError")
          /\ Return(t, status')
       \/ /\ thread[t].reply = "unusable"
          /\ Goto(t, "undoing")
          /\ UNCHANGED <<latest, status, loginLock>>
    /\ UNCHANGED <<connection, revision, background, attempt, publicVars, browserLock,
                   reader, serverVars, commands>>

\* Mutant of Installable: an answer of a connection that was lost is not told apart.
InstallableAnyway(r) == connection # 0

Installable(r) == IsCurrent(r)

(***************************************************************************)
(* finish_login_start_with_attempt, under browser_open_operation: the      *)
(* login is installed, or it has completed before its answer was read, or  *)
(* the connection has changed and the login is given up.                   *)
(***************************************************************************)
FinishLoginStart(t) ==
    /\ At(t, "started")
    /\ thread[t].reply = "browser"
    /\ browserLock = NoThread
    /\ switching = "none"
    /\ \/ /\ ~Installable(thread[t].revision)
          /\ loginStart' = Discarded(thread[t].revision)
          /\ Goto(t, "undoing")
          /\ UNCHANGED <<attempt, latest, status, browserLock>>
       \/ /\ Installable(thread[t].revision)
          /\ LET early == loginStart.revision = thread[t].revision
                          /\ \E i \in DOMAIN loginStart.ids :
                                loginStart.ids[i] = thread[t].login
             IN  /\ attempt' = IF early THEN 0 ELSE thread[t].login
                 /\ status' = IF early THEN "checking" ELSE "pending"
                 /\ Goto(t, IF early THEN "scheduling" ELSE "opening")
          /\ loginStart' = Discarded(thread[t].revision)
          /\ latest' = NoThread
          /\ browserLock' = t
    /\ UNCHANGED <<connection, revision, background, publicVars, loginLock, reader,
                   serverVars, commands>>

\* The login was over before it was installed.
LoginWasCompleted(t) ==
    /\ At(t, "scheduling")
    /\ ScheduleRefresh(thread[t].revision, [thread EXCEPT ![t].pc = "look"])
    /\ browserLock' = NoThread
    /\ UNCHANGED <<connection, revision, loginStart, attempt, latest, status,
                   publicVars, loginLock, reader, otherServerVars, commands>>

OpenBrowser(t) ==
    /\ At(t, "opening")
    /\ \/ Return(t, status)
       \/ /\ "open" \in Faults
          /\ Goto(t, "undoing")
          /\ UNCHANGED loginLock
    /\ browserLock' = NoThread
    /\ UNCHANGED <<stateVars, publicVars, reader, serverVars, commands>>

\* cancel_started_attempt: a login that could not be cancelled stays as the attempt.
\* Of a login given up because its connection is lost no status remains.
UndoAnswered(t) ==
    /\ At(t, "undone")
    /\ IF thread[t].reply = "ok"
       THEN /\ Cleared(thread[t].login)
            /\ Goto(t, "undoneStatus")
       ELSE /\ IF IsCurrent(thread[t].revision)
               THEN /\ attempt' = thread[t].login
                    /\ latest' = NoThread
                    /\ status' = "loginError"
               ELSE UNCHANGED <<attempt, latest, status>>
            /\ Goto(t, "look")
    /\ UNCHANGED <<connection, revision, loginStart, background, publicVars, lockVars,
                   reader, serverVars, commands>>

UndoStatus(t) ==
    /\ At(t, "undoneStatus")
    /\ SetStatusFor(thread[t].revision, "loginError")
    /\ Return(t, status')
    /\ UNCHANGED <<connection, revision, loginStart, background, attempt, publicVars,
                   browserLock, reader, serverVars, commands>>

-----------------------------------------------------------------------------
(* logout_account *)

BeginLogout(t) ==
    /\ At(t, "leaving")
    /\ IF connection = 0 THEN Return(t, "logoutError")
       ELSE /\ thread' = [thread EXCEPT ![t] =
                  [@ EXCEPT !.pc = "loggingOut", !.revision = revision,
                            !.connection = connection]]
            /\ UNCHANGED loginLock
    /\ UNCHANGED <<stateVars, publicVars, browserLock, reader, serverVars, commands>>

\* An error of the current connection is returned and changes nothing here.
LogoutAnswered(t) ==
    /\ At(t, "loggedOut")
    /\ \/ /\ ~IsCurrent(thread[t].revision)
          /\ Goto(t, "look")
          /\ UNCHANGED loginLock
       \/ /\ IsCurrent(thread[t].revision)
          /\ thread[t].reply # "ok"
          /\ Return(t, "logoutError")
       \/ /\ IsCurrent(thread[t].revision)
          /\ thread[t].reply = "ok"
          /\ Goto(t, "refresh")
          /\ UNCHANGED loginLock
    /\ UNCHANGED <<stateVars, publicVars, browserLock, reader, serverVars, commands>>

-----------------------------------------------------------------------------
(* The App Server: account_processor *)

Notice(kind, login) == <<[kind |-> kind, login |-> login, connection |-> connection]>>

\* Dropping the active login shuts its task down, which then reports its end.
Dropped == [l \in Logins |-> IF logins[l] = "active" THEN "dropped" ELSE logins[l]]

\* The thread goes on with the answer of its request.
Answered(t, reply) ==
    thread' = [thread EXCEPT ![t].reply = reply, ![t].pc =
        CASE thread[t].pc = "canceling" -> "canceled"
          [] thread[t].pc = "starting" -> "started"
          [] thread[t].pc = "undoing" -> "undone"
          [] thread[t].pc = "loggingOut" -> "loggedOut"
          [] thread[t].pc = "reading" -> "read"]

\* A request can time out after the App Server has done what it asks for.
Reply(value) == {value} \cup (IF "request" \in Faults THEN {"failed"} ELSE {})

ServeRead(t) ==
    /\ At(t, "reading")
    /\ thread[t].connection = connection
    /\ Answered(t, account)
    /\ UNCHANGED <<stateVars, publicVars, lockVars, reader, serverVars, commands>>

\* Cancelling a login that is over is confirmed too.
ServeCancel(t) ==
    /\ thread[t].pc \in {"canceling", "undoing"}
    /\ thread[t].connection = connection
    /\ logins' = IF logins[thread[t].login] = "active" THEN Dropped ELSE logins
    /\ \E reply \in Reply("ok") :
          /\ Answered(t, reply)
          /\ unsure' = IF reply = "failed" THEN unsure \cup {thread[t].login} ELSE unsure
    /\ UNCHANGED <<stateVars, publicVars, lockVars, reader, notices, account, nextLogin,
                   commands>>

\* A login replaces the one before it.
ServeLogin(t) ==
    /\ At(t, "starting")
    /\ thread[t].connection = connection
    /\ nextLogin \in Logins
    /\ logins' = [Dropped EXCEPT ![nextLogin] = "active"]
    /\ nextLogin' = nextLogin + 1
    /\ \E reply \in Reply("browser") \cup
                    (IF "reply" \in Faults THEN {"unusable"} ELSE {}) :
          /\ thread' = [thread EXCEPT ![t].pc = "started", ![t].reply = reply,
                                      ![t].login = nextLogin]
          /\ unsure' = IF reply = "failed" THEN unsure \cup {nextLogin} ELSE unsure
    /\ UNCHANGED <<stateVars, publicVars, lockVars, reader, notices, account, commands>>

ServeLogout(t) ==
    /\ At(t, "loggingOut")
    /\ thread[t].connection = connection
    /\ account' = "signedOut"
    /\ logins' = Dropped
    /\ notices' = notices \o Notice("updated", 0)
    /\ \E reply \in Reply("ok") : Answered(t, reply)
    /\ UNCHANGED <<stateVars, publicVars, lockVars, reader, nextLogin, unsure, commands>>

\* The connection is closed, the request times out, or it is answered with an error.
RequestFails(t) ==
    /\ thread[t].pc \in Asking
    /\ \/ thread[t].connection # connection
       \/ "request" \in Faults
       \/ At(t, "starting") /\ nextLogin \notin Logins
    /\ Answered(t, IF At(t, "reading") THEN "unavailable" ELSE "failed")
    /\ unsure' = IF thread[t].pc \in {"canceling", "undoing"}
                 THEN unsure \cup {thread[t].login} ELSE unsure
    /\ UNCHANGED <<stateVars, publicVars, lockVars, reader, notices, account, logins,
                   nextLogin, commands>>

(***************************************************************************)
(* The task of a login ends: the user finishes it in the browser, it is    *)
(* dropped, or it times out.  Its completion is sent first; then, if it    *)
(* succeeded, the account is reloaded and the update is sent.              *)
(***************************************************************************)
LoginEnds(l) ==
    /\ \/ logins[l] = "active" /\ \E end \in {"reloading", "over"} :
             logins' = [logins EXCEPT ![l] = end]
       \/ logins[l] = "dropped" /\ logins' = [logins EXCEPT ![l] = "over"]
    /\ notices' = notices \o Notice("completed", l)
    /\ UNCHANGED <<stateVars, publicVars, lockVars, thread, reader, account, nextLogin,
                   unsure, commands>>

AccountReloads(l) ==
    /\ logins[l] = "reloading"
    /\ logins' = [logins EXCEPT ![l] = "over"]
    /\ account' = "signedIn"
    /\ notices' = notices \o Notice("updated", 0)
    /\ UNCHANGED <<stateVars, publicVars, lockVars, thread, reader, nextLogin, unsure,
                   commands>>

-----------------------------------------------------------------------------

(***************************************************************************)
(* Nothing is under way: no command, no refresh, no notification, no       *)
(* request, and the App Server has reported everything.                    *)
(***************************************************************************)
AtRest ==
    /\ \A t \in Threads : At(t, "idle")
    /\ switching = "none"
    /\ reader = 0
    /\ notices = <<>>
    /\ \A l \in Logins : logins[l] \notin {"dropped", "reloading"}

Rest == AtRest /\ UNCHANGED vars

CallerStep(t) ==
    \/ EnterGate(t) \/ CancelAnswered(t) \/ PrepareLogin(t) \/ LoginRefused(t)
    \/ FinishLoginStart(t) \/ LoginWasCompleted(t) \/ OpenBrowser(t)
    \/ UndoAnswered(t) \/ UndoStatus(t) \/ BeginLogout(t) \/ LogoutAnswered(t)
    \/ LookAtStatus(t) \/ Publish(t)

RefreshStep(t) == BeginRefresh(t) \/ Read(t) \/ PublishRefresh(t)

Serve(t) ==
    ServeRead(t) \/ ServeCancel(t) \/ ServeLogin(t) \/ ServeLogout(t) \/ RequestFails(t)

ThreadStep(t) ==
    \/ RefreshStep(t) \/ Serve(t)
    \/ t \in Callers /\ CallerStep(t)
    \/ t \in Background /\ (RunBackground(t) \/ FinishBackground(t))

ReaderStep == OnNotification \/ ReaderSchedules

Next ==
    \/ Connect \/ Disconnect \/ PublishSwitch
    \/ \E t \in Callers : \E command \in Does[t] : Execute(t, command)
    \/ \E t \in Threads : ThreadStep(t)
    \/ ReaderStep
    \/ \E l \in Logins : LoginEnds(l) \/ AccountReloads(l)
    \/ Rest

Spec == Init /\ [][Next]_vars

-----------------------------------------------------------------------------

\* The state of the service, its threads and the App Server are well formed.
TypeOK ==
    /\ revision \in 0..MaxSwitches
    /\ connection = IF revision % 2 = 0 THEN 0 ELSE (revision + 1) \div 2
    /\ loginStart.revision \in 0..MaxSwitches
    /\ Len(loginStart.ids) <= MaxEarly
    /\ background \in {"idle", "scheduled", "running", "requested"}
    /\ attempt \in 0..MaxLogins
    /\ latest \in Threads \cup {NoThread}
    /\ status \in Status
    /\ {published, switching} \subseteq Status \cup {"none"}
    /\ loginLock \in Callers \cup {NoThread}
    /\ browserLock \in Callers \cup {NoThread}
    /\ \A t \in Threads :
          /\ thread[t].pc \in Pc
          /\ thread[t].reply \in Status \cup {"none", "ok", "failed", "browser", "unusable"}
    /\ reader \in 0..MaxSwitches
    /\ account \in Account
    /\ logins \in [Logins -> {"none", "active", "dropped", "reloading", "over"}]

(***************************************************************************)
(* What the service settles on is the truth.  However commands, refreshes, *)
(* logins, reconnects and changes of the account overlap, once they are    *)
(* over the service does not show an account the App Server does not have: *)
(* no answer that was overtaken is kept.  The exception is a refresh for   *)
(* which no thread could be spawned.                                       *)
(***************************************************************************)
StatusIsTrue ==
    AtRest /\ connection # 0 /\ 0 \notin unsure /\ status \in Account => status = account

(***************************************************************************)
(* Every login the App Server has under way is the attempt of the service, *)
(* which the user can cancel, and the attempt is under way: no login is    *)
(* forgotten when it was started on a lost connection, replaced or         *)
(* cancelled, and no completion is missed, even one that came before the   *)
(* attempt was installed.  The exceptions are a login whose start or       *)
(* cancellation was never answered, and one that is over but whose         *)
(* completion, come before the attempt was installed, gave way to those of *)
(* MAX_EARLY_COMPLETION_IDS other logins.                                  *)
(***************************************************************************)
AttemptIsUnderWay ==
    AtRest =>
        /\ \A l \in Logins : logins[l] = "active" => l = attempt \/ l \in unsure
        /\ attempt # 0 => logins[attempt] = "active" \/ attempt \in unsure

(***************************************************************************)
(* The service waits for the browser exactly while it holds an attempt on  *)
(* a live connection.                                                      *)
(***************************************************************************)
PendingHasAttempt ==
    /\ status = "pending" => attempt # 0
    /\ attempt # 0 => connection # 0 /\ status \notin Account

(***************************************************************************)
(* The browser is opened for a login of the connection in use: connect and *)
(* disconnect wait until it was.                                           *)
(***************************************************************************)
OpenedWhileCurrent ==
    \A t \in Callers : At(t, "opening") => IsCurrent(thread[t].revision)

\* For one connection at most one background refresh runs at a time.
OneBackgroundRefresh ==
    \A a, b \in Background :
        /\ ~At(a, "idle") /\ ~At(b, "idle")
        /\ thread[a].task = revision /\ thread[b].task = revision
        => a = b

(***************************************************************************)
(* At every step, not only at rest, the state is well formed, the browser  *)
(* is opened and waited for only for a login of the connection in use, and *)
(* background refreshes do not pile up.                                    *)
(***************************************************************************)
AccountInv == TypeOK /\ PendingHasAttempt /\ OpenedWhileCurrent /\ OneBackgroundRefresh

(***************************************************************************)
(* At rest the user interface was told what the service holds, or the      *)
(* service holds "checking": a logout that failed after it cancelled a     *)
(* login, and a refresh that could not be spawned, leave it behind.        *)
(***************************************************************************)
PublishedAtRest == AtRest /\ revision # 0 => published = status \/ status = "checking"
=============================================================================

# A verification project for Rivloom

Rivloom is a desktop application (Tauri: Rust below, React above) that runs
coding Tasks through a local Codex *App Server* process and, in its newer part,
lets several machines share Tasks through a *Brain*. This directory holds TLA+
modules translated from the Rust sources, TLC configurations that check them on
small instances, and proofs that TLAPS checks for every instance.
`PROJECT.json` names, for every definition, the source lines it models.

All source paths below are relative to `apps/desktop/src-tauri/src/`.

## 1. Inventory

| Component | State it keeps | Operations | Hard parts |
|---|---|---|---|
| Task record (`task/state_machine.rs`, `types.rs`, `receipt.rs`) | status of a task, of its run, receipt, event log of at most 128 events | `transition`, `register_run`, `transition_run`, `attach_receipt` | the event limit is hit in the middle of a chain of calls |
| Task store (`task/service.rs`, `storage.rs`) | list of at most `MAX_STORED_TASKS` tasks in memory, mirrored in one file | `create_task`, `accept_task`, `register_run`, `begin_run`, `transition_run`, `finalize_run`, `abandon_run`, `reconcile_incomplete_runs` | idempotency across crashes, eviction, several statuses in one save |
| Local runs (`task/local_state.rs`, `orchestrator.rs`, `commands.rs`, `runtime/codex.rs`) | map of active runs, one worker thread per run | `start`, `stop`, the worker loop, `finish_run`, `finish_unknown` | commands, workers, the connection's reader and crashes interleave; each of a dozen calls can fail |
| Worktrees (`task/worktree.rs`, `artifact.rs`) | one directory per run | `create`, `cleanup`, `collect` | left behind by a crash, removed too early |
| Event router (`app_server/event_router.rs`) | routes per connection and thread, a bounded queue per stream | `prepare_run`, `bind_turn`, `route`, `deactivate_all`, `try_recv` | events before the response, overflow, disconnect |
| App Server connection and supervisor (`app_server/connection.rs`, `process.rs`, `state.rs`) | pending requests, generation of the process, state of the connection | `request`, `handle_inbound`, `disconnect`, `start`, `retry`, `shutdown` | answers and failures of an earlier generation, retry, shutdown while starting |
| Account (`account/`) | status, login attempt, revisions of connection and refresh, early completions | `connect`, `disconnect`, `refresh`, `start_browser_login`, `cancel_account_login`, `logout_account`, `on_notification`, `run_background_refresh` | answers overtaken by a reconnect or another command, completions before the login is known, requests that time out half done |
| Projects and identity (`project/`, `identity/`) | list of folders; one identity record | `select`, `remove`, `get`, `update` | damaged file, failing save |
| Brain (`collaboration/brain.rs`, `brain_tasks.rs`, `reconcile.rs`, `invitation.rs`, `credential.rs`) | revision, members, nodes with presence, tasks, replay ledger, invitations, credentials | `join`, `revoke_member`, `heartbeat`, `apply`, `set_task_status`, `reconcile` | compare-and-set on the revision, repeated commands, expiry with a clock that jumps |
| Node (`collaboration/node*.rs`, `client.rs`) | mirrored records, staged pages, one pending command, stored membership | `accept_page`, `queue_confirmed`, `acknowledge`, `join`, `reconnect` | pages taken at different revisions, crash between the two phases of a join |
| Brain hosting, channel (`host*.rs`, `server*.rs`, `storage.rs`, `tls.rs`, `wire.rs`, `protocol.rs`) | the Brain's file, the listening server | commit, serve, shut down | a change visible before it is stored |
| User interface (`apps/desktop/src`) | snapshots of tasks of the selected project | effect of `useTasks`, `upsertTask`, `mergeInitialTasks`, `startTask`, `stopTask` | snapshots out of order, answers for an earlier selection |

How they interact: a Tauri command (`start_local_task`) takes the current
connection and calls `TaskRunState::start` on a thread of its own. That goes
through the Task store for every change of status, through the worktree manager
for the directory, and through the connection for `thread/start` and
`turn/start`. The connection's reader thread hands notifications to the event
router, which pushes into the queue of the run they belong to; the run's worker
thread drains that queue and writes the outcome back to the Task store. The
supervisor replaces a dead App Server process: it drains the router and gives
the next connection a new identity. The vendored Codex sources
(`codex-rs`, `codex-cli`, `sdk`) are the program behind that connection and are
seen only through its protocol.

The same reader thread hands account notifications to the account service. The
supervisor tells it, and the router, of each connection and of its loss. The user
interface sends commands and listens for updates; neither is ordered with the other.

The collaboration part is separate. One desktop hosts the Brain: a store over one
file, served by sessions over TLS. Every desktop, the host's included, has at
most one client, held by its `NodeSession`: it joins with an invitation, stores
its credential, authenticates, reads the Brain's records page by page, and sends
requests one at a time.

What makes the modelled parts correct: a request executes at most once; a run is
never given a verdict nobody reported; nothing a turn wrote is thrown away
before it is on a receipt; every begun run ends and frees its slot; nothing but
the limits of its own log and file keeps the application from starting again; a lost event is
never silent. Of the connection:
every request is completed once, with its own answer; no process is forgotten; the
end of one connection never takes the next away from those who use it. Of the
account: what is shown once everything is over is true, and every login under way
can be cancelled. Of the window: it never goes back. Of the Brain: an
invitation makes one member and a device enrols once; what was acknowledged is
stored; a desktop's view is what the Brain had; access ends when a member is
revoked or its credential expires; no operation produces a state that cannot be
saved, unless for its size, or opened again.

## 2. Modules

```
TaskRecord          the record of one task and its state machine
  TaskService       the store: list, file, restart             (abstract specification: ServiceSpec)
    TaskView        the store and the window that shows one project of it
EventRouter         routes, queues, budgets
  EventDelivery     the router between a free App Server and readers
TaskRun             TaskService + EventRouter + commands, workers, worktrees, App Server
Connection          requests over one connection: waiters, answers, timeouts
  AppServer         supervisor, readers, processes             (implements ConnectionLife)
ConnectionLife      what an observer of the connection is promised
AccountService      commands, refreshes, logins, notifications, and the App Server's side of them
Brain               operations on the Brain's snapshot, and its validation
  Node              a desktop's view of it
    Collaboration   store and file, host sessions, clients, registrations, crashes
*Proofs             theorems about the module of that name; BrainProofs holds lemmas only
MC*                 instances for TLC
```

**TaskRecord.** A stored task is one record: key, project, status, run status,
receipt outcome, number of its last event. `TaskRunState::start` derives task
id, run id and the run's key from the one key of the request, so a task has one
run. The two transition tables are written as sets of pairs. A call that returns
`Err` yields `Refused`, from which no transition leads, so Rust's chains of `?`
become nested operators. The event log is its length: what an event says is
never read back, the limit on their number is.

**TaskService.** `disk` is the file, `cache` the list behind the mutex, `loaded`
tells whether the process runs. Each action is a whole operation under the
mutex: copy, change, `normalize_tasks`, save, install. Saves are atomic (write
to a neighbour, fsync, rename), so a failed one leaves both lists alone and the
action does not happen; its caller sees the error. A list that would make a file of more
than `MAX_STORAGE_BYTES` (2 MiB) is refused in the same way (`Fits`). How large a list is,
is the constant operator `FileSize`: the proofs hold for whatever it says, and TLC counts tasks
and events. `Open` is start-up with `reconcile_incomplete_runs`, its save included, which the
size can refuse for good; `Close` is the end of the process at any point.
`ServiceSpec` says how the store may be used: by any number of callers, in any
order, with `transition_run` called only as `poll` calls it.

**TaskView.** The hook `useTasks` beside the store. A record under way to the window is a
copy with the number of its last event; listing, updates and answers may arrive in
any order, and after another project was selected. When the store publishes is left
open: any stored task, of any project, may be published at any time, and the window's
listener (`Concerns`) keeps what is not of its project out. `due` and `covered` are
histories. A lifecycle stands for both increments of `lifecycleRef` that the code
makes when a project changes. Errors of commands, patches and the token that bars
a second command are left out; one answer is under way at a time, as with the token.

**EventRouter, EventDelivery.** The operators follow `event_router.rs` function by
function. `route` runs on the reader thread under the router's lock, `try_recv`
on the worker under the queue's lock. Streams are numbered by `next_route_id`.
EventDelivery adds an App Server that may send any notification for any thread
and turn, and histories of what was sent and read. Sent is what `route` accepts
(`Accepts`): an event other than a start that meets a route without a turn is dropped
silently by the code (`event_router.rs:171`), and the properties do not speak of it.

**TaskRun.** A start command is a program counter that stops at each call that
takes a lock, runs git or talks to the App Server (`CallPc`); a worker likewise
(`WorkerPc`). Which calls may fail beyond what the protocol itself allows is
chosen by `Faults`: `save` (the file cannot be written), `git` (worktree or patch
commands fail), `spawn` (no thread can be created), `crash`. Failures of requests
to the App Server are always possible: an error answer, a failed write that may
have arrived, too many pending requests, a timeout, a lost connection. The App
Server (`TurnStarts`, `TurnNotifies`, `TurnEnds`) is external: it takes up a turn,
reports its start and its requests for approval, and ends it, or is lost with
its connection. `turnsSent` and `evicted` are history variables.

Simplifications a reader should know:

* a second notification of a start, and an approval request, are the only events
  between start and end (`normalize_event` ignores all others);
* `stop` reads the store and later the active map under two locks; a run in the
  map was active in the store before, so the model needs only the second read;
* a route whose stream was dropped disappears at once; the code discards it
  before its next use;
* a write of `turn/start` that fails counts as one that may have arrived;
* the byte budget of a run's events is merged with the budget of their number;
* `MaxStreams` and `MaxNotifications` bound what is unbounded in the code (route
  ids, thread ids, notifications); `Connections` bounds reconnects.

**Connection, AppServer.** `request_inner` is cut where it takes or leaves the lock:
refuse or register, write, receive or time out, and `overdue` for a request that timed
out after its waiter was taken and therefore waits for a result that is certain to come.
`complete` and `disconnect` take the waiters under the lock and send after it, which
is two steps here (`sending`). Thread 0 is whoever holds the mutex of
`AppServerState` (`start`, `retry`, `shutdown`), thread *c* the reader of connection *c*.
Both can tear a connection down; the step under the lifecycle lock (`TakeActive`, the
first of `Shutdown`) decides which does. Observers are told one after the other, in
the order of `state.rs`. `Faults` are `launch`, `initialize`, `spawn` (no reader thread),
`write`, `exit` (the process ends by itself), `invalid` (a line that cannot be parsed),
`terminate` (the kill fails; `terminate` has given up the handle by then, so the
process stays, which `NoOrphanProcess` excepts). The generation is the number of the
process, while the code counts only those that were activated. A waiter whose sender is dropped
returns at once in the code (`RecvTimeoutError::Disconnected`); `TimeOut` has no such
case, so that a request which is never completed shows. Between a fatal line and
the end of its reader the code may hold lines that nobody will read; so does the
model.

**ConnectionLife.** The abstract specification: one connection at a time, its loss
before the next, never the same twice. `on_disconnected` names no connection, so the
account service and the event router depend on it. AppServer implements it twice, once
for each observer.

**AccountService.** A step is what a thread does under one acquisition of the state
lock. `thread` keeps what it captured (revision, connection, login) and the answer it
waits for. Foreground and background threads share `refresh`. `login_operation` and
`browser_open_operation` are locks held over several steps. `refresh_revision` is the
thread that took the current one (`latest`): a later change of the revision by anybody
else sets it to nobody, which is all a comparison can tell. The App Server's side of
logins is translated from the handlers in
`codex-rs/app-server/src/request_processors/account_processor.rs`: a login replaces the one
before, a dropped login still reports its end, a cancellation of a login that is over
is confirmed, and the completion is sent before the account is reloaded and the
update after. `unsure` remembers which logins were started or cancelled by a request that was
never answered, and which completed early and were pushed out of the list of early completions
(`Displaced`, the oldest of `MaxEarly`): of these the service cannot know. Simplifications: the
limit on the bytes of early ids is left out, as ids are short; the errors of
starting a login and of opening the browser are one status; account details and URLs
are dropped; a thread that cannot be spawned and the reset of `Scheduled` that follows
are one step.

**Brain.** The operators are the operations on the candidate copy that
`BrainStore::transact` hands out; they yield the new record, or the error as the
wire tells errors apart. A join makes a member, its node and its credential
together and nothing adds a second one, so one id stands for the three. `Valid` is
`validate` with `validate_tasks_and_replays` and the checks the registries make when
they are decoded. The Brain's clock and those of its two registries are one here; in the code
a registry's may lag behind, as it moves only when that registry is used. It is never ahead, as
each operation observes its time on the Brain's clock first, so it never refuses by itself.
`MAX_SHARED_RECORDS` (192) is twice the 64 members plus the 64 tasks, and is
written so.

**Node.** The methods of `node.rs`: the projection, the batch of pages being read,
the tasks in doubt, the message that waits.

**Collaboration.** `file`, `memory` and `poisoned` are the store; `wire` holds, per
desktop, the host's session and the one request or reply on its connection (phase
`none` while there is no connection);
`client`, `reg` and `vault` are a desktop's client, registration file and stored
credentials. `Transacted` is `transact` with all its outcomes: the candidate, or the
old state at the new time, is written before memory changes and before the caller
learns anything; a failed write leaves either file and poisons the store. `Encodes` is `encode`: it
validates, and refuses a Brain of more than `MAX_BRAIN_BYTES` (2 MiB) with an error the wire calls
busy. The full 64 tasks of 32 KiB exceed it. `BrainSize` is a constant operator like `FileSize`. The
limit of `storage.rs` on the whole document never refuses anything, as it is twice
the Brain's and more.
`Handle` is one request through `HostSession::handle`. `Faults` chooses what may go
wrong: `write` (the Brain's file), `local` (a desktop's files), `crash`, `stop`
(the host is stopped), `lose` (a connection is lost), `limit` (the host refuses as
busy). A client that gives up leaves its request behind; it may be handled
at any later time (`strays`), as the host does not notice before it answers. `issued`,
`cancelled` and `acked` are histories.

What a reader should know of it:

* a secret is not a value: only a desktop that was handed an invitation or has
  stored a credential presents it;
* the random ids the code draws are any unused ones;
* failing secret stores, skewed client clocks and time-outs appear as the failures
  they cause, at the same points;
* the limits on requests per session, per minute and on connections are one
  refusal that may come at any time (`limit`);
* `submit_confirmed`, `publish_pending` and `set_task_status` have no caller in the
  application yet; they are modelled as the interface that the tests exercise;
* the model starts with the Brain created (`initialize`).

## 3. What TLC checks

| Run | Instance | Properties | States |
|---|---|---|---|
| `task_view` | 1 key, list of 2, 2 projects, 8 events, file of size 8; 3 lifecycles, 2 records under way | `StoredConsistent`, `KeysUnique`, `StartupBlockedOnlyByLimits`, `HistoryStable`, `ViewInv`, `ViewCatchesUp`, `ViewNeverGoesBack` | 0.62 million |
| `event_delivery` | 2 runs, threads, turns, connections; queue of 2, budget of 4, 5 notifications | `DeliveryInv`, `OneTurnPerStream`, `InactiveIsExplained` | 1.1 million |
| `task_run_faults` | 1 request, 2 racing commands, all faults, 2 connections; 8 events, file of size 8, 3 notifications | `Restartable`, `AtMostOneTurn`, `VerdictIsHonest`, `WorkKept`, `ServiceSpec` | 0.78 million |
| `task_run_eviction` | 2 requests one after the other, 2 projects, list of 1, 1 slot | `OneLiveTurn` | 2.1 million |
| `task_run_live` | 2 commands, 2 connections, crashes, failing spawns | `ActiveRunsOwned`, `RunEnds`, `StrandedOnlyByCrash` | 0.15 million |
| `collab_membership` | 2 desktops, 2 invitations, cancellations, 3 members; failed writes and files, crashes, 1 late request | `EnrolledOnce`, `RegistrationBacked` | 0.64 million |
| `collab_access` | 2 desktops, pulses, revocation, losses; clock 0 to 2, credentials of 2, presence of 1 | `ReadingInv`, `AccessEnds`, `RevisionCoversChanges` | 0.39 million |
| `collab_tasks` | 1 desktop, 1 task, 2 keys, ledger of 2, Brain of size 5, coordinator; failed writes, stops, losses, refusals, 1 late request | `RefusedOnlyForSize`, `AcknowledgedIsDurable`, `ViewAgrees`, `NeverRunningAgain` | 0.15 million |
| `app_server` | 2 processes, 2 callers, 2 requests each, 1 pending at a time, 2 pieces of traffic, 1 shutdown; every fault but `launch` and `write` | `RequestInv`, `ActiveIsAnnounced`, `NoOrphanProcess`, `StatusFollowsObservers`, `ObserversSeeLife`, `CallsReturn`, `LossReported` | 0.27 million |
| `account_service` | 1 thread that reads the status, 1 for all commands, 2 for refreshes; 3 switches of the connection, 2 logins, 1 early completion, 2 commands, all faults | `StatusIsTrue`, `AttemptIsUnderWay`, `AccountInv`, `PublishedAtRest` | 2.8 million |
| `task_run_repeat` | 2 requests, list of 1 | `ExecutedOnce` **violated** | |
| `task_run_orphan` | failing git | `ActiveRunsOwned` **violated** | |

Several properties are conjunctions of named parts, each stated with a comment in its module:
`DeliveryInv` is `TypeOK`, `DeliveryFaithful` and `NoSilentLoss`; `Restartable` is `TypeOK` and
`StartupPossible`; `WorkKept` is `EvidenceKept` and `LiveTurnHasWorktree`; `RunEnds` is `RunSettles`
and `SlotReleased`; `ViewInv` is `ViewTypeOK` and `ViewOfProject`; `EnrolledOnce` is
`MembershipAccounted` and `OneEnrolmentPerDevice`; `ReadingInv` is `TypeOK`, `ViewAgrees` and
`PagesFit`; `RequestInv` is `TypeOK`, `AnswerIsOwn` and `CompletedOnce`; `CallsReturn` is
`SupervisorReturns` and `RequestReturns`; `AccountInv` is `TypeOK`, `PendingHasAttempt`,
`OpenedWhileCurrent` and `OneBackgroundRefresh`. The types of the store (`ServiceTypeOK`) and of the
router are parts of `TypeOK` of TaskRun. `PROJECT.json` lists mutants for every property,
and one for each part that can fail by itself: a plausible bug in a named definition, with
which TLC finds the property violated.

Why the bounds are enough to be interesting: two commands are what it takes to
race; one key more than the list holds forces eviction in every state of a run;
a queue of two and a budget of four let a queue overflow
before the budget is used up, be drained, and be cut by the budget after; a run needs at
most seven events without approvals, so eight leave room for one change and the log does fill
up, in `task_view` by itself and in `task_run_faults` with the third notification of a turn; a
task counts one and each of its events one towards the file, so that a file of size 8 holds
the run but not always its end; in the other runs the file is large. Two connections let a worker hold a
handle of the earlier one. Two projects and three lifecycles (`task_view`) let a project be
left and selected again while an answer for the first selection is under way; one key is
enough, as the merge treats tasks one by one, and the list of two would hold a duplicate
of it. Two processes (`app_server`) are the one that dies and its
successor, with a third launch that fails; a limit of one pending request is reached by
two callers; `launch` and `write` are reached without the fault, at the bound and with a
dead process. In `account_service` three switches are connect, disconnect, connect; two
logins let one replace the other, and with two commands a login meets another login, a
cancellation, a logout or a refresh; one completion is remembered early, so that the first of
two is pushed out by the second (the code remembers eight). A Brain of size 5 holds a task and
the ledger, but not while the task is accepted or running, so that messages and changes
of status are refused for their size, before and after a restart. For the Brain, two desktops are a member that acts and
one that reads; `MaxRevision` of 5 is both the bound and the real limit at its
edge, as operations at the last revision are refused as busy; a page holds one
record, so that a view of two members takes four pages and the revision moves
between any two of them; the clock runs only in `collab_access`, over the instants
before, at and after which presence, invitations and credentials expire, and each
request picks its time, so that it also goes back. A request whose client has gone is
left to the other two runs; in `collab_access` a request may still wait at the host
while its member is revoked. `collab_tasks` has no crash of the desktop: which tasks are
in doubt is kept in memory only, and a restarted desktop shows what the Brain says.
Deadlock is checked in `account_service`, where `Rest` allows a system with nothing under way
to stay as it is and otherwise some thread can always go on. In the other runs it is
not: all requests may be done, or the bounds used up, and the system rests; in
`app_server` `SupervisorReturns` and `RequestReturns` say more.

Symmetry is used over callers, and over runs, threads and turns in
`event_delivery`, over projects in `task_view` and over the background threads in
`account_service`; no definition distinguishes their members and no liveness is checked
there.

**Fairness** (`FairSpec`, in `task_run_live` and `app_server`). In `app_server` each thread of the
application goes on: the call that holds the supervisor, each reader (it polls every 25
milliseconds), each sender of results and each request (it has a timeout). Nothing is
assumed of the App Server, which may never answer, nor of users or of the end of
processes. In `task_run_live`: threads of the application keep
running until they return (`StartStep`, `WorkerStep`: OS threads that only block on
calls with a timeout); the application, once it is to start, starts; the App
Server starts and ends the turns it took up unless its connection is lost. The
last is an assumption about the vendored program: without it a turn may run for
ever, and the code sets no limit on that. Nothing is assumed of users, of
reconnects or of crashes. With failing saves or git, `RunSettles` does not hold of
the code (see below), so `save` and `git` are not among the faults of that run.

The application does not always start again. `reconcile_incomplete_runs` fails, and with it the
start, when the log of an interrupted task has no room for two more events or when the reconciled
list is too large to be saved; nothing repairs either. `StartupBlockedOnlyByLimits` says
that nothing else blocks a start. `StartupPossible` says who can fill a log: only a turn of which
the App Server sent more than `MaxEvents - 6` notifications (`Overlong`), never starts, stops, races,
failed saves or crashes by themselves. The log of the code takes 128 events, and so does the
router's budget for a run, so the budget does not rule that out; a turn that sends
`turn/started` once makes a single change, however many approvals it asks for.

### Disagreements between documents and code

* `task_run_repeat`: the verification notes of the runtime host
  (`rivloom-docs/plans/2026-08-30-runtime-host-r1-r2-verification.md:178`) say that
  one idempotent request is claimed and executed once. `create_task` drops the
  oldest task when the list is full, whatever its state, and its key with it. Once
  the worktree of the first execution was cleaned up, the repeated request runs
  again. `AtMostOneTurn` states what does hold: once per key that was never dropped;
  `OneLiveTurn` that even then two executions never overlap.
* `task_run_orphan`: the same notes (`:179`) say a failed start ends in
  `outcomeUnknown`. When `thread/start` or `turn/start` fails after `begin_run` and the
  patch cannot be collected, `finish_start_failure` returns the error, and the run
  stays `running` without worker or slot until the next restart reconciles it. The
  worker has a second line (`finish_unknown`, `abandon_run`); the start command has
  none. `task_run_live` shows the claim holds without failing git or saves.

A related state the code has no repair for: a crash, or a failed save, between
the creation of a worktree and `begin_run` leaves a queued run whose every later
start is refused with `DestinationExists`. `StrandedOnlyByCrash` shows that a
crash is the only way there among the faults of `task_run_live`: racing commands, threads that
cannot be spawned and lost connections never cause it.

Other states met while modelling, which no document speaks of:

* `logout_account` cancels the login attempt first. When the logout then fails, its error is
  returned but not stored; the service stays at `checking`, which was never published, until
  the next command or notification (`PublishedAtRest` names the exception).
* A cancellation that times out after the App Server has carried it out, in
  `cancel_started_attempt`, installs a login that is over as the attempt. The user can
  cancel it again, and that succeeds (`AttemptIsUnderWay` excepts it).
* Early completions are remembered for eight logins. If more completions of earlier logins
  arrive before the answer of the new one, and its own is among the first, the attempt stays
  pending until it is cancelled. `AttemptIsUnderWay` excepts it.
* A tasks file or a Brain near its 2 MiB refuses operations that the limits on numbers would
  allow. The Brain's refusal is an answer like any other; that of the tasks file can be final
  when it meets the reconciliation of an interrupted run.
* `useTasks` asks for the listing without waiting for its subscription. An update published
  after the listing was taken and before the subscription is in place is missed; `ViewCatchesUp`
  therefore speaks of listings taken with the subscription in place.

## 4. What is proved

TLAPS checks these for all values of the constants: any number of tasks, commands,
workers, callers, threads, connections, desktops, members and messages, any limits, and
any choice of faults. Every theorem below whose name is followed by a property proves
what a run of section 3 checks on a small instance.

**Assumptions** on constants are named in the module that declares the constants, and TLC
evaluates them on every run.

* Limits are natural numbers or positive ones; ids are distinct from the values that stand
  for "none".
* `DeliveryAssumption`: connections are numbered and the first is 1.
* `BrainAssumption`, `MaxMembers <= Cardinality(Members)`: an id is left for every member
  that may still join. The code draws ids at random from 128 bits and more. Members and tasks
  are listed in one order each, `MemberOrder` and `TaskOrder`, as the maps of the code list them.
* `CollaborationAssumption`: no member is called `none` or `begun`, the two states of a
  registration without a member. `NoRequestAssumption`: `None` is no request.

* `BootstrapAssumption`: the Brain that was created first is within the size limit.
* Nothing is assumed of `FileSize` and `BrainSize`.

Some theorems have hypotheses of their own, named where the theorem is described: the event
log takes what a turn can send (`LogIsLarge`), saves and git work and the file is below its limit
(`DiskWorks`), commands are finitely many and there is one, no task was dropped from the list; no
desktop ends; `None` is no client, no batch of pages and no Brain. Finiteness of the commands
gives their number a meaning and the last is technical; without the others the property is
false of the code.

**TaskServiceProofs**

* `ServiceTypeCorrect`, `StoreConsistent`, `StoreKeysUnique`: `ServiceSpec` implies
  that `ServiceTypeOK`, `StoredConsistent` and `KeysUnique` hold always.
* `StoreHistoryStable`: `ServiceSpec => HistoryStable`.
* `StoreStartup`: `ServiceSpec` implies that `StartupBlockedOnlyByLimits` holds always. The
  lemma `ReconciledOrFull` shows for each consistent task that `Reconciled` is refused only
  when its log lacks the room; consistency of the file, from the same invariant, does
  the rest. Without an interrupted task nothing is saved, so its size does not matter.

They share the inductive invariant `ServiceInv`: types, consistency and uniqueness of
the file, plus "while loaded, memory equals file". The last is what makes it
inductive, as every operation reads memory and writes the file. The
argument goes per task first: `Advances` says that a state machine result is
refused or a consistent task with the same key and project that kept its history,
and there is a lemma for each of `Accepted`, `AddRun`, `Begun`, `MoveRun`, `Finalized`,
`Abandoned`, `Reconciled`. The list lemmas `ReplaceStep`, `InsertStep` and `OpenStep` lift
that to the file.

**TaskViewProofs**

* `WindowShowsItsProject` (`ViewInv`), `WindowNeverGoesBack` (`ViewNeverGoesBack`),
  `WindowCatchesUp` (`ViewCatchesUp`).

`WindowInv` adds to `ServiceInv` that each message under way belongs to one lifecycle and
holds one record of each task, and `NothingMissed`: what is due is shown, or a record at
least as new is under way to this lifecycle. Both merges of the hook are treated by one
predicate, `Combines` (records of either side, one of each task, none outdated), which does
not depend on the order of arrival.

**EventDeliveryProofs**

* `NoSilentGap` (`DeliveryInv`), `StreamCarriesOneTurn` (`OneTurnPerStream`),
  `SilenceIsExplained` (`InactiveIsExplained`).

`RouterInv`: routes are unique by id and by thread on a connection, streams not yet prepared
have no history, what a held stream has delivered together with its queue `Follows` what
was sent, position by position up to the first gap, and a route's turn is that of all its
events. Position by position is what a prover without induction over sequences can
keep; `PushResult` says that an event is appended, or that the last one in the queue
gives way to a gap.

**TaskRunProofs**

* `RunsImplementService`: `Spec => ServiceSpec`. Commands, workers, crashes and restarts
  use the store only as `ServiceSpec` allows. The refinement mapping is the
  identity on `disk`, `cache`, `loaded`, so every theorem about the store holds of the
  whole system.
* `TurnSentAtMostOnce`: `Spec => []AtMostOneTurn`, for any number of commands, keys,
  connections and faults.
* `NeverTwoLiveTurns` (`OneLiveTurn`), `WorkIsKept` (`WorkKept`), `VerdictsAreHonest`
  (`VerdictIsHonest`), `RunTypes` (`TypeOK`).
* `AlwaysRestartable`: `Spec => []Restartable`, for every size of the log.
* `ActiveRunsHaveOwners`: `Spec => [](evicted = {} => ActiveRunsOwned)`, and
  `OnlyCrashesStrand`: `Spec /\ [](evicted = {}) => StrandedOnlyByCrash`, given
  `LogIsLarge` and `DiskWorks`.
* `RacesOvershootLittle`: `Spec => [](evicted = {} => ActiveRunsBounded)`, for a finite,
  non-empty set of commands.

The inductive invariant of the first two is `RunInv`: types, `ServiceInv`, and `ClaimInv`, which ties
`turnsSent` to the store: for a key never dropped, a command between `begin_run` and
`turn/start` is the only one there and no turn was sent yet, and once a turn was sent
or such a command exists the file shows the run as begun. `BeginRunStep` is the only way
in and needs a queued run; `HistoryStable` is why a begun run never returns to
the queue, even over a crash. All other actions are shown *quiet*: they touch
neither counters nor claims.

The other theorems share `HoldInv`, which adds three parts to `RunInv`; none of the properties
is inductive without them.

* `HoldersGood`: the worktree is a lock. A command from the creation of the worktree on, or the
  worker it handed the run to, is the only one that holds that key, and the worktree is there.
  This needs no record in the store, so it survives the eviction of a task.
* `TurnsInv`: what a holder knows of the App Server. Before `turn/start` no turn of the key
  executes. From then on at most the one of its thread does, and the stream *carries* that
  turn: a terminal event in its queue is the way the turn ended. A holder that finishes
  with a known outcome knows that the turn ended so and that none executes.
* `RecordsInv`: what the file says, for keys never dropped. No run is recorded as failed
  before its turn was sent, a command that gives a run up as failed had no turn taken up,
  and a holder that is about to clean up finds the receipt of its outcome in the file.

Nearly every step is *calm*: it takes up no turn and reports no end that did not
happen (`ServerCalm`, `RouterCalm`). Knowledge about turns is stable under calm steps
(`CalmStep`), so a step has to show what is true of its own holder, the worktree it releases
(`ReleaseOK`) and the verdict it writes (`VerdictOK`). The one step that is not calm is
`turn/start` taken up (`TurnTaken`): there `HoldersGood` says that nobody else knows
anything about the turns of this key.

The last four theorems need one more invariant each, all of them on top of `HoldInv`.

* `LogInv` (`AlwaysRestartable`) counts the events of a record along its whole life, without
  induction over the log: a record has at most 3 events while its run is queued and at most 5
  when the run has just begun, and from then on the length of the log plus the changes still
  in the stream's queue is at most 4 plus the number of notifications the App Server has sent
  of that turn (5 plus that number as long as the first `turn/started` is unread, which changes
  nothing). So an active run has room for the two events of its end unless one of its turns is
  `Overlong`. Section 3 says what that means for the 128 events of the code.
* `OwnInv` (`ActiveRunsHaveOwners`): a run that a command or a worker has in its hands has begun,
  a worker that only cleans up has ended its run, and an active run has a command or
  a worker. Here `LogInv` is needed once more: `finalize_run` would be refused by a full log and
  the run would lose its owner while still active, hence the hypothesis `LogIsLarge`, which is
  `MaxEvents >= 6 + MaxNotifications`. `DiskWorks` excludes the faults `save` and
  `git`, and a list too large for the file: with them the property is false of the code, which `task_run_orphan` shows. Crashes,
  lost connections and failed thread creation are not excluded.
* `MadeInv` (`OnlyCrashesStrand`): only a registered run has a worktree, and only a command that
  has seen it registered is about to make one. With `OwnInv` it follows that the command
  which leaves a worktree behind has begun the run, or removed the worktree.
* `BoundInv` (`RacesOvershootLittle`): the runs in the active map and the commands past the
  capacity check are together fewer than `MaxActiveRuns` plus the number of commands.
  `ActiveRunsBounded` alone is not inductive, as a command past the check adds a run to a map
  that is already full. A command counts from the check on, or, if it is about to
  look at a run that has not begun, from there. No run of section 3 checks it: to exceed the limit
  takes several commands for several keys at once, which is out of TLC's reach here.

Three of the four speak of executions in which no task was dropped (`evicted = {}`):
`create_task` drops what falls off the end of the list. A command can hold on to what it
read of a task that is then dropped and created anew. It takes the new run for the old
one, skips the check of the limit, or leaves the new run queued behind the old worktree.

**AppServerProofs**

* `RequestsCompletedOnce` (`RequestInv`), `ActiveConnectionAnnounced` (`ActiveIsAnnounced`),
  `NoProcessForgotten` (`NoOrphanProcess`), `ObserversBeforeStatus`
  (`StatusFollowsObservers`), and the refinement `ObserversImplementLife`
  (`ObserversSeeLife`): the supervisor implements `ConnectionLife` for each observer.

`AppServerInv` has two halves. `RequestsGood`: the waiter of a request is in exactly one
place, the pending map of an open connection, the results being sent, or its own
channel, and the numbers of a connection are not reused. `LifeGood`: a connection is in
the active slot or one thread tears it down, never both; the only reader that has not ended
is the one whose handle the supervisor keeps; and what each observer holds follows from who
owns the connection and how far that thread is. The second half is why the loss of one
connection, which names none, cannot reach an observer after the next was announced.

**AccountServiceProofs**

* `AccountWellFormed` (`AccountInv`), `StatusIsPublished` (`PublishedAtRest`),
  `SettledStatusIsTrue` (`StatusIsTrue`), `NoLoginForgotten` (`AttemptIsUnderWay`).

Their invariants turn a statement about rest into one about what is under way. `SafeInv`
has types, what a thread knows at each point, and the two locks. `PublishUnderWay`:
the status was published, or some thread will publish it. `TruthUnderWay`: the status is
true, or a refresh will still ask, or the refresh whose answer counts holds the
true answer. `LoginInv`: a login that is active is the attempt, or uncertain, or in the hands of
a command, and a command that waits for one will find its completion in the queue or among
the early ones, or else its login is `unsure`. The number of logins is not limited by `MaxEarly`: when
the oldest remembered completion gives way, `RememberedIds` shows that it is the one `Displaced`
names and that all others are still remembered.

**BrainProofs, CollaborationProofs**

* `SaveRefusesOnlyForSize` (`RefusedOnlyForSize`), `AcknowledgementsLast`
  (`AcknowledgedIsDurable`), `RegistrationsBacked` (`RegistrationBacked`),
  `AccessEndsForGood` (`AccessEnds`), `RevisionsCoverChanges` (`RevisionCoversChanges`),
  `NobodyEnrolledTwice` (`EnrolledOnce`), `DoubtNeverForgotten` (`NeverRunningAgain`),
  `ViewsAgree` (`ViewAgrees`), `ReadingWorks` (`ReadingInv`; `PagesAccepted` is the part of it
  about pages).

BrainProofs takes the operations of the Brain one by one: what succeeds takes a `GoodBrain`
to a `GoodBrain`, which `Valid` accepts, so that only its size can keep it from being
stored (`TransactedEncodes`), and the new one `Grows` from the old. `Grows` says that
nothing disappears, that what changed carries the new revision, and that nothing was done in
the name of a member without access. `GoodBrain` is `Valid` with types and `LedgerKept` (a
task the replay ledger knows is there and belongs to its sender); without that a
repeated command could be acknowledged for a task that is gone. `AccessEnds` rests on
`Authorized` alone, although the code guards revocation a second and a third time.

`CollaborationInv` ties desktops to the file. The file is good and, unless the store is
poisoned, memory is the file. Per desktop, the request on its connection is the one
its client asks, a reply fits it (a join names a member of this device, an acknowledgement
is in the ledger), and the client acts for a member whose credential is stored here.
As the file only grows, a reply under way stays true, however late it is read.

`EnrolmentInv` adds what `EnrolledOnce` needs: of all joins of a device that the host may
still handle, late ones included, there is at most one, and none once the device is
enrolled; and members, open invitations and cancellations together are no more than the
invitations issued. A cancellation counts from the host's answer on (`Cancelling`), not from
the client's knowledge of it, or the count is not inductive.

`DoubtNeverForgotten` has two hypotheses: no desktop ends (`crash`), as the marks are in
memory only, and `NoneIsNoClient`: `None` is not a client record. The second is a hypothesis
and not an assumption as TLC cannot evaluate it; `NoneIsNoBatch` and `NoneIsNoBrain`, which the
theorems about reading use, are of the same kind. `DoubtKept` says that a task seen running is
marked as soon as there is no connection; `Evolves` that each step keeps the marks of a
client that is held.

`ReadInv` is what `ViewAgrees` and `PagesFit` need. Neither is inductive: they say nothing of
a batch that is half read or of a page under way, and both may be about a Brain that has
changed since. A *snapshot* is what the Brain shows a member at one revision, and one
snapshot `Follows` another when nothing is gone and what is new or changed has a revision
later than the whole of the other. `ReadInv` says of each client:

* what it has read completely is a snapshot, and the Brain follows it;
* if it collects a batch, or a page is on its way, there is *one* snapshot `e` between what it
  has read and what the Brain is now, such that the batch is the beginning of the changes up to `e`
  and the page is the next one of `e`;
* the page it asks for is the one its batch calls for.

`Follows` is transitive, and equality of revisions makes snapshots equal (`SameRevision`). So a
page that the host cuts at the revision of the batch comes from `e`, although the desktop may
have reconnected and the host restarted in between; and since `e` follows what was read, the last
page turns one snapshot into the other: changes later than the old revision are overlaid, and all
the rest is equal already. `Grows`, from BrainProofs, is what makes each step of the Brain lead from a
snapshot to one that follows. `PageAt` picks the record of an offset by its `Rank`, the number of
changes that come before it; the lemmas on ranks at the end of BrainProofs (`RankBounds`,
`RanksDiffer`, `RankHasName`: every rank below the size is taken) replace an induction over the sequence
of changes. That a page is accepted takes, besides, that each page and the whole snapshot satisfy the
validation of the desktop (`Complete`): the limits of the Brain bound what it shows.

`TypedInv` proves `TypeOK`: a client, its connection and the reply on it fit together, and a host that
does not run has no live connections and no late requests. It needs `ReadInv`, as the
view of a client is typed by the pages it took in.

**Only model-checked**

* Liveness (`RunEnds`, `CallsReturn`, `LossReported`) and whatever rests on
  `ENABLED` or fairness: beyond the prover.
* `ActiveRunsOwned` and `StrandedOnlyByCrash` after a task was dropped: the
  theorems end there, and so does the property in general (see TaskRunProofs above). So does
  `ActiveRunsBounded`, which is only proved.

## 5. What is not modelled

* Line framing, wire formats, TLS, the platform's secret store, git: I/O and libraries.
* The vendored Codex sources (`codex-rs`, `codex-cli`, `sdk`). They are about 98 of every hundred
  lines of the repository, so a count of modelled lines over the whole repository stays
  small however much of Rivloom's own code is modelled. Only the handlers of login and
  logout are translated, because the account service cannot be understood without them.
* Projects and identity: lists and records in files behind one lock, whose difficulties
  (paths, damaged files) a model would abstract away.
* The user interface beyond `useTasks`: components, texts, patches, and hooks that only
  show what the last answer said.
* The composition of AppServer with AccountService and TaskRun. Each of the latter has its own,
  freer connection; `ConnectionLife` is the interface between them. Liveness of the account
  service is not checked either, its state space being at the limit of what is practical.
* Of the Brain's hosting: creation of its profile and TLS identity, the number of
  connections, and a file that is changed or damaged from outside.
* Quarantine of a tasks file damaged from outside the application.
* Two branches are translated and reached by no run: `prepare_run` refused for lack
  of routes or for a duplicate, and `spawn_active` finding its run in the map; both
  need more simultaneous runs of one key than `AtMostOneTurn` admits, or more
  than the bounds allow.

## 6. Plan

Done: models of the Task store and its window, the event router, local runs, the App Server
connection and its supervisor, the account service, Brain, Node and their composition, and
the proofs of section 4, which cover every invariant and every action property of the
passing runs. Next: *ProjectRegistry* and *Identity*, should they come to hold more than files.

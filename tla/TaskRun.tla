------------------------------ MODULE TaskRun ------------------------------
(***************************************************************************)
(* Local Task runs end to end: the start and stop commands                 *)
(* (task/local_state.rs), the orchestration of one Codex run               *)
(* (task/orchestrator.rs, runtime/codex.rs), its worker thread, the Task   *)
(* store (TaskService), the event router (EventRouter), the managed        *)
(* worktrees and the App Server at the other end of the connection.        *)
(*                                                                         *)
(* A start command is a thread of its own; its program counter stops at    *)
(* every call that takes a lock, runs git or talks to the App Server, so   *)
(* commands, workers, the connection's reader and a crash interleave there *)
(* and nowhere else.  What can fail at such a call fails in the model when *)
(* Faults names the class of failure.                                      *)
(***************************************************************************)
EXTENDS TaskService, EventRouter

CONSTANTS
    Callers,            \* threads that execute start_local_task
    MaxActiveRuns,      \* MAX_ACTIVE_RUNS
    MaxNotifications,   \* bound on turn/started and approval requests of a turn
    Faults              \* classes of failure that occur: "save", "git", "spawn", "crash"

\* A run is named by the key its id is derived from.  The App Server numbers
\* its threads, and each managed thread runs one turn, so that a turn can
\* have the number of its thread.  An event log (128 events in the code)
\* has room for a run without approvals, which writes seven.
ASSUME TaskRunAssumption ==
    /\ Keys # {} /\ Projects # {}
    /\ Runs = Keys
    /\ Threads = Streams
    /\ Turns = Threads
    /\ NoTurn = 0
    /\ Connections \subseteq Nat
    /\ MaxEvents >= 7
    /\ MaxActiveRuns \in Nat
    /\ MaxNotifications \in Nat
    /\ Faults \subseteq {"save", "git", "spawn", "crash"}

VARIABLES
    call,           \* caller -> the start command it executes
    worker,         \* run -> its entry in the active map and its worker thread
    worktrees,      \* runs whose managed worktree directory exists
    server,         \* App Server thread -> the turn on it
    nextThread,     \* the next thread id of the App Server
    connection,     \* the identity of the latest connection
    up,             \* that connection is established
    turnsSent,      \* history: turn/start requests sent, per run
    evicted         \* history: keys whose task fell off the end of the list

runVars == <<call, worker, worktrees, server, nextThread, connection, up,
             turnsSent, evicted>>

vars == <<serviceVars, routerVars, runVars>>

-----------------------------------------------------------------------------
\* Where a start command stands; the comments name the call it makes next.
CallPc == {
    "idle",
    "create",       \* TaskService::create_task
    "accept",       \* TaskService::accept_task
    "register",     \* TaskService::register_run
    "capacity",     \* active_count
    "check",        \* get_project_task, in LocalCodexRunService::start
    "worktree",     \* TaskWorktreeManager::create
    "begin",        \* TaskService::begin_run
    "thread",       \* thread/start
    "prepare",      \* EventRouter::prepare_run
    "turn",         \* turn/start
    "await",        \* the response to turn/start
    "bind",         \* EventRouter::bind_turn
    "spawn",        \* spawn_active
    "collect",      \* PatchArtifact::collect, in finish_start_failure
    "finalize",     \* TaskService::finalize_run
    "cleanup"}      \* TaskWorktree::cleanup

WorkerPc == {
    "none",         \* no entry in the active map
    "loop",         \* the head of run_worker's loop
    "check",        \* is_active, after try_recv found the queue empty
    "collect", "finalize", "cleanup",   \* finish_run, as above
    "abandon",      \* TaskService::abandon_run
    "remove"}       \* remove_active

\* A command between these points has begun the run and not handed it over.
Owning == {"thread", "prepare", "turn", "await", "bind", "spawn", "collect", "finalize"}

TurnPhase == {"none", "idle", "refused", "accepted", "running", "over", "lost"}

Idle == [pc |-> "idle", key |-> CHOOSE k \in Keys : TRUE,
         project |-> CHOOSE p \in Projects : TRUE,
         connection |-> 0, thread |-> 0, stream |-> 0, outcome |-> "failed"]

NoWorker == [pc |-> "none", stream |-> 0, connection |-> 0, stop |-> FALSE,
             interrupted |-> FALSE, outcome |-> "outcomeUnknown", last |-> FALSE]

NoThread == [key |-> CHOOSE k \in Keys : TRUE, phase |-> "none", end |-> "none", sent |-> 0]

Init ==
    /\ ServiceInit
    /\ RouterInit
    /\ call = [c \in Callers |-> Idle]
    /\ worker = [k \in Keys |-> NoWorker]
    /\ worktrees = {}
    /\ server = [h \in Threads |-> NoThread]
    /\ nextThread = 1
    /\ connection = 0
    /\ up = FALSE
    /\ turnsSent = [k \in Keys |-> 0]
    /\ evicted = {}

-----------------------------------------------------------------------------
(***************************************************************************)
(* The start command.                                                      *)
(***************************************************************************)
At(c, pc) == call[c].pc = pc

KeyOf(c) == call[c].key

Goto(c, pc) == call' = [call EXCEPT ![c].pc = pc]

Return(c) == call' = [call EXCEPT ![c] = Idle]

\* The run has begun and cannot go on: finish_start_failure with this outcome.
FinishStart(c, outcome) == call' = [call EXCEPT ![c].pc = "collect", ![c].outcome = outcome]

SaveFails == "save" \in Faults

GitFails == "git" \in Faults

ActiveRuns == {k \in Keys : worker[k].pc # "none"}

\* An update of a stored task fails when the state machine refuses it, the
\* file would be too large or it cannot be written.
UpdateFails(k, t) == IsRefused(t) \/ ~Fits(Replaced(k, t)) \/ SaveFails

Connected(conn) == up /\ conn = connection

\* start_local_task takes the connection of the moment, and keeps it.
StartCommand(c, k, p) ==
    /\ loaded
    /\ up
    /\ At(c, "idle")
    /\ call' = [call EXCEPT ![c] = [Idle EXCEPT !.pc = "create", !.key = k,
                                        !.project = p, !.connection = connection]]
    /\ UNCHANGED <<serviceVars, routerVars, worker, worktrees, server, nextThread,
                   connection, up, turnsSent, evicted>>

Create(c) ==
    /\ At(c, "create")
    /\ LET k == KeyOf(c)
           p == call[c].project
       IN  \/ /\ CreateTask(k, p)
              /\ evicted' = evicted \cup {x \in Keys : Has(cache, x) /\ ~Has(cache', x)}
              /\ Goto(c, "accept")
           \/ /\ StoredFor(k, p)
              /\ Goto(c, "accept")
              /\ UNCHANGED <<serviceVars, evicted>>
           \/ /\ IF Stored(k) THEN ~StoredFor(k, p)
                            ELSE SaveFails \/ ~Fits(Inserted(NewTask(k, p)))
              /\ Return(c)
              /\ UNCHANGED <<serviceVars, evicted>>
    /\ UNCHANGED <<routerVars, worker, worktrees, server, nextThread, connection, up, turnsSent>>

Accept(c) ==
    /\ At(c, "accept")
    /\ LET k == KeyOf(c)
           p == call[c].project
           unaccepted == TaskOf(k).status \in {"draft", "offered"}
       IN  \/ /\ AcceptTask(k, p)
              /\ Goto(c, "register")
           \/ /\ StoredFor(k, p)
              /\ ~unaccepted
              /\ Goto(c, "register")
              /\ UNCHANGED serviceVars
           \/ /\ StoredFor(k, p) => unaccepted /\ UpdateFails(k, Accepted(TaskOf(k)))
              /\ Return(c)
              /\ UNCHANGED serviceVars
    /\ UNCHANGED <<routerVars, worker, worktrees, server, nextThread, connection, up,
                   turnsSent, evicted>>

\* Only a run that is still queued is counted against the limit.
Register(c) ==
    /\ At(c, "register")
    /\ LET k == KeyOf(c)
           p == call[c].project
       IN  \/ /\ RegisterRun(k, p)
              /\ Goto(c, "capacity")
           \/ /\ StoredFor(k, p)
              /\ TaskOf(k).run # "none"
              /\ Goto(c, IF TaskOf(k).run = "queued" THEN "capacity" ELSE "check")
              /\ UNCHANGED serviceVars
           \/ /\ StoredFor(k, p) => TaskOf(k).run = "none" /\ UpdateFails(k, AddRun(TaskOf(k)))
              /\ Return(c)
              /\ UNCHANGED serviceVars
    /\ UNCHANGED <<routerVars, worker, worktrees, server, nextThread, connection, up,
                   turnsSent, evicted>>

Capacity(c) ==
    /\ At(c, "capacity")
    /\ IF Cardinality(ActiveRuns) >= MaxActiveRuns THEN Return(c) ELSE Goto(c, "check")
    /\ UNCHANGED <<serviceVars, routerVars, worker, worktrees, server, nextThread,
                   connection, up, turnsSent, evicted>>

\* A run that is no longer queued is reported as it is, and a prompt over the
\* limit is refused; both leave the command.
Check(c) ==
    /\ At(c, "check")
    /\ \/ /\ StoredFor(KeyOf(c), call[c].project)
          /\ TaskOf(KeyOf(c)).run = "queued"
          /\ Goto(c, "worktree")
       \/ Return(c)
    /\ UNCHANGED <<serviceVars, routerVars, worker, worktrees, server, nextThread,
                   connection, up, turnsSent, evicted>>

\* Mutants of Worktree: an existing worktree is used again, or the metadata is
\* checked after the worktree was created.
WorktreeReused(c) ==
    /\ At(c, "worktree")
    /\ worktrees' = worktrees \cup {KeyOf(c)}
    /\ Goto(c, "begin")
    /\ UNCHANGED <<serviceVars, routerVars, worker, server, nextThread, connection, up,
                   turnsSent, evicted>>

WorktreeThenCheck(c) ==
    /\ At(c, "worktree")
    /\ worktrees' = worktrees \cup {KeyOf(c)}
    /\ IF KeyOf(c) \in worktrees THEN Return(c) ELSE Goto(c, "begin") \/ Return(c)
    /\ UNCHANGED <<serviceVars, routerVars, worker, server, nextThread, connection, up,
                   turnsSent, evicted>>

\* git worktree add can fail with or without leaving the directory behind.
Worktree(c) ==
    /\ At(c, "worktree")
    /\ \/ /\ KeyOf(c) \notin worktrees
          /\ worktrees' = worktrees \cup {KeyOf(c)}
          /\ Goto(c, "begin")
       \/ /\ KeyOf(c) \in worktrees
          /\ Return(c)
          /\ UNCHANGED worktrees
       \/ /\ KeyOf(c) \notin worktrees
          /\ GitFails
          /\ worktrees' \in {worktrees, worktrees \cup {KeyOf(c)}}
          /\ Return(c)
    /\ UNCHANGED <<serviceVars, routerVars, worker, server, nextThread, connection, up,
                   turnsSent, evicted>>

\* TaskWorktree::cleanup: git may refuse, and the directory stays.
Cleanup(k) == worktrees' \in {worktrees \ {k}} \cup (IF GitFails THEN {worktrees} ELSE {})

BeginRunStep(c) ==
    /\ At(c, "begin")
    /\ LET k == KeyOf(c)
       IN  \/ /\ BeginRun(k)
              /\ Goto(c, "thread")
              /\ UNCHANGED worktrees
           \/ /\ Stored(k)
              /\ TaskOf(k).run \notin {"none", "queued"}
              /\ Cleanup(k)
              /\ Return(c)
              /\ UNCHANGED serviceVars
           \/ /\ Stored(k) =>
                    \/ TaskOf(k).run = "none"
                    \/ TaskOf(k).run = "queued" /\ UpdateFails(k, Begun(TaskOf(k)))
              /\ Return(c)
              /\ UNCHANGED <<serviceVars, worktrees>>
    /\ UNCHANGED <<routerVars, worker, server, nextThread, connection, up, turnsSent, evicted>>

\* thread/start; every error of the request or of its response is a failed run.
ThreadStart(c) ==
    /\ At(c, "thread")
    /\ \/ /\ Connected(call[c].connection)
          /\ nextThread \in Threads
          /\ server' = [server EXCEPT ![nextThread] =
                           [NoThread EXCEPT !.key = KeyOf(c), !.phase = "idle"]]
          /\ call' = [call EXCEPT ![c].pc = "prepare", ![c].thread = nextThread]
          /\ nextThread' = nextThread + 1
       \/ /\ FinishStart(c, "failed")
          /\ UNCHANGED <<server, nextThread>>
    /\ UNCHANGED <<serviceVars, routerVars, worker, worktrees, connection, up, turnsSent, evicted>>

Prepare(c) ==
    /\ At(c, "prepare")
    /\ \/ /\ PrepareRun(call[c].connection, KeyOf(c), call[c].thread)
          /\ call' = [call EXCEPT ![c].pc = "turn", ![c].stream = nextRoute]
       \/ /\ ~CanPrepareRun(call[c].connection, KeyOf(c), call[c].thread)
          /\ FinishStart(c, "failed")
          /\ UNCHANGED routerVars
    /\ UNCHANGED <<serviceVars, worker, worktrees, server, nextThread, connection, up,
                   turnsSent, evicted>>

(***************************************************************************)
(* turn/start is written to the App Server, which takes the turn up or     *)
(* answers with an error.  A failed write may or may not have reached it.  *)
(***************************************************************************)
SendTurn(c, phase) ==
    /\ Connected(call[c].connection)
    /\ server' = [server EXCEPT ![call[c].thread].phase = phase]
    /\ turnsSent' = [turnsSent EXCEPT ![KeyOf(c)] = @ + 1]

TurnStart(c) ==
    /\ At(c, "turn")
    /\ \/ /\ SendTurn(c, "accepted")
          /\ Goto(c, "await")
          /\ UNCHANGED routerVars
       \/ /\ SendTurn(c, "refused")             \* Remote
          /\ FinishStart(c, "failed")
          /\ DropStream(call[c].stream)
       \/ /\ SendTurn(c, "accepted")            \* WriteFailed
          /\ FinishStart(c, "outcomeUnknown")
          /\ DropStream(call[c].stream)
       \/ /\ Connected(call[c].connection)      \* TooManyPending
          /\ FinishStart(c, "failed")
          /\ DropStream(call[c].stream)
          /\ UNCHANGED <<server, turnsSent>>
       \/ /\ ~Connected(call[c].connection)     \* Disconnected
          /\ FinishStart(c, "outcomeUnknown")
          /\ DropStream(call[c].stream)
          /\ UNCHANGED <<server, turnsSent>>
    /\ UNCHANGED <<serviceVars, worker, worktrees, nextThread, connection, up, evicted>>

\* The response names the turn, or the request timed out or lost its connection.
Await(c) ==
    /\ At(c, "await")
    /\ \/ /\ server[call[c].thread].phase # "lost"
          /\ Goto(c, "bind")
          /\ UNCHANGED routerVars
       \/ /\ FinishStart(c, "outcomeUnknown")
          /\ DropStream(call[c].stream)
    /\ UNCHANGED <<serviceVars, worker, worktrees, server, nextThread, connection, up,
                   turnsSent, evicted>>

Bind(c) ==
    /\ At(c, "bind")
    /\ \/ /\ BindTurn(call[c].stream, call[c].thread)
          /\ Goto(c, "spawn")
       \/ /\ ~CanBindTurn(call[c].stream, call[c].thread)
          /\ FinishStart(c, "outcomeUnknown")
          /\ DropStream(call[c].stream)
    /\ UNCHANGED <<serviceVars, worker, worktrees, server, nextThread, connection, up,
                   turnsSent, evicted>>

(***************************************************************************)
(* spawn_active: the run enters the active map and gets its worker.  When  *)
(* the thread cannot be created the command runs finish_unknown itself,    *)
(* which is what a worker does that starts at "collect" for the last time. *)
(***************************************************************************)
Spawn(c) ==
    /\ At(c, "spawn")
    /\ LET k == KeyOf(c)
           new == [NoWorker EXCEPT !.pc = "loop", !.stream = call[c].stream,
                                   !.connection = call[c].connection]
       IN  \/ /\ k \in ActiveRuns
              /\ DropStream(call[c].stream)
              /\ UNCHANGED worker
           \/ /\ k \notin ActiveRuns
              /\ worker' = [worker EXCEPT ![k] = new]
              /\ UNCHANGED routerVars
           \/ /\ k \notin ActiveRuns
              /\ "spawn" \in Faults
              /\ worker' = [worker EXCEPT ![k] = [new EXCEPT !.pc = "collect", !.last = TRUE]]
              /\ UNCHANGED routerVars
    /\ Return(c)
    /\ UNCHANGED <<serviceVars, worktrees, server, nextThread, connection, up, turnsSent, evicted>>

\* finish_start_failure returns at the first error: nobody finishes the run.
CollectStart(c) ==
    /\ At(c, "collect")
    /\ Goto(c, "finalize") \/ (GitFails /\ Return(c))
    /\ UNCHANGED <<serviceVars, routerVars, worker, worktrees, server, nextThread,
                   connection, up, turnsSent, evicted>>

\* finalize_run fails, or finds the receipt of another attempt.
FinalizeFails(k, outcome) ==
    Stored(k) => TaskOf(k).receipt # "none" \/ UpdateFails(k, Finalized(TaskOf(k), outcome))

SameReceipt(k, outcome) == Stored(k) /\ TaskOf(k).receipt = outcome

FinalizeStart(c) ==
    /\ At(c, "finalize")
    /\ LET k == KeyOf(c)
           o == call[c].outcome
       IN  \/ FinalizeRun(k, o) /\ Goto(c, "cleanup")
           \/ SameReceipt(k, o) /\ Goto(c, "cleanup") /\ UNCHANGED serviceVars
           \/ FinalizeFails(k, o) /\ Return(c) /\ UNCHANGED serviceVars
    /\ UNCHANGED <<routerVars, worker, worktrees, server, nextThread, connection, up,
                   turnsSent, evicted>>

\* Mutant of CleanupAfter: the worktree goes whatever the outcome.
CleanupAlways(k, outcome) == worktrees' \in {worktrees, worktrees \ {k}}

\* The worktree outlives a run of unknown outcome, and one whose patch could
\* not be captured whole.
CleanupAfter(k, outcome) ==
    \/ UNCHANGED worktrees
    \/ outcome # "outcomeUnknown" /\ worktrees' = worktrees \ {k}

CleanupStart(c) ==
    /\ At(c, "cleanup")
    /\ CleanupAfter(KeyOf(c), call[c].outcome)
    /\ Return(c)
    /\ UNCHANGED <<serviceVars, routerVars, worker, server, nextThread, connection, up,
                   turnsSent, evicted>>

StartStep(c) ==
    \/ Create(c) \/ Accept(c) \/ Register(c) \/ Capacity(c) \/ Check(c)
    \/ Worktree(c) \/ BeginRunStep(c) \/ ThreadStart(c) \/ Prepare(c)
    \/ TurnStart(c) \/ Await(c) \/ Bind(c) \/ Spawn(c)
    \/ CollectStart(c) \/ FinalizeStart(c) \/ CleanupStart(c)

-----------------------------------------------------------------------------
(***************************************************************************)
(* The stop command and the worker thread.                                 *)
(***************************************************************************)
WorkerAt(k, pc) == worker[k].pc = pc

WorkerGoto(k, pc) == worker' = [worker EXCEPT ![k].pc = pc]

Finish(k, outcome) == worker' = [worker EXCEPT ![k].pc = "collect", ![k].outcome = outcome]

\* finish_unknown: one more finish_run with an unknown outcome, then abandon_run.
FinishUnknown(k) ==
    worker' = [worker EXCEPT ![k].pc = "collect", ![k].outcome = "outcomeUnknown",
                             ![k].last = TRUE]

GiveUp(k) == IF worker[k].last THEN WorkerGoto(k, "abandon") ELSE FinishUnknown(k)

(***************************************************************************)
(* stop reads the task under the lock of the store and, later, the control *)
(* under the lock of the active map.  A run in the active map was active   *)
(* in the store at some earlier time, so a stop that read it then can set  *)
(* the flag now, whatever the store says by now.                           *)
(***************************************************************************)
Stop(k) ==
    /\ k \in ActiveRuns
    /\ worker' = [worker EXCEPT ![k].stop = TRUE]
    /\ UNCHANGED <<serviceVars, routerVars, call, worktrees, server, nextThread,
                   connection, up, turnsSent, evicted>>

\* turn/interrupt, once; any failure of it ends the observation of the run.
Interrupt(k) ==
    /\ WorkerAt(k, "loop")
    /\ worker[k].stop /\ ~worker[k].interrupted
    /\ \/ /\ queue[worker[k].stream].active
          /\ Connected(worker[k].connection)
          /\ worker' = [worker EXCEPT ![k].interrupted = TRUE]
       \/ FinishUnknown(k)
    /\ UNCHANGED <<serviceVars, routerVars, call, worktrees, server, nextThread,
                   connection, up, turnsSent, evicted>>

\* Mutant of OutcomeOf: the event is taken for the outcome.
OutcomeIsEvent(event) == event

OutcomeOf(event) ==
    CASE event = "completed"   -> "success"
      [] event = "failed"      -> "failed"
      [] event = "interrupted" -> "cancelled"
      [] OTHER                 -> "outcomeUnknown"

\* What poll does with a "running" or "waitingApproval" event.
Observe(k, event) ==
    LET readable == Stored(k) /\ TaskOf(k).run # "none"
        ignored == \/ TaskOf(k).run = event
                   \/ event = "running" /\ TaskOf(k).run # "waitingApproval"
    IN  \/ readable /\ ignored /\ WorkerGoto(k, "loop") /\ UNCHANGED serviceVars
        \/ readable /\ ~ignored /\ PollTransition(k, event) /\ WorkerGoto(k, "loop")
        \/ /\ readable => ~ignored /\ UpdateFails(k, MoveRun(TaskOf(k), event))
           /\ FinishUnknown(k)
           /\ UNCHANGED serviceVars

Poll(k) ==
    /\ WorkerAt(k, "loop")
    /\ worker[k].stop => worker[k].interrupted
    /\ LET s == worker[k].stream
       IN  \/ /\ queue[s].events = <<>>
              /\ WorkerGoto(k, "check")
              /\ UNCHANGED <<serviceVars, routerVars>>
           \/ /\ TryRecv(s)
              /\ LET event == queue[s].events[1]
                 IN  IF event \in {"running", "waitingApproval"} THEN Observe(k, event)
                     ELSE Finish(k, OutcomeOf(event)) /\ UNCHANGED serviceVars
    /\ UNCHANGED <<call, worktrees, server, nextThread, connection, up, turnsSent, evicted>>

\* Mutants of CheckActive: a lost stream counts as a failure, or is not noticed.
CheckActiveFails(k) ==
    /\ WorkerAt(k, "check")
    /\ IF queue[worker[k].stream].active THEN WorkerGoto(k, "loop") ELSE Finish(k, "failed")
    /\ UNCHANGED <<serviceVars, routerVars, call, worktrees, server, nextThread,
                   connection, up, turnsSent, evicted>>

CheckActiveLoops(k) ==
    /\ WorkerAt(k, "check")
    /\ WorkerGoto(k, "loop")
    /\ UNCHANGED <<serviceVars, routerVars, call, worktrees, server, nextThread,
                   connection, up, turnsSent, evicted>>

\* The queue was empty; an inactive stream now means the outcome is unknown.
CheckActive(k) ==
    /\ WorkerAt(k, "check")
    /\ \/ ~queue[worker[k].stream].active /\ Finish(k, "outcomeUnknown")
       \/ /\ queue[worker[k].stream].active
          /\ IF Stored(k) /\ TaskOf(k).run # "none" THEN WorkerGoto(k, "loop")
                                                    ELSE FinishUnknown(k)
    /\ UNCHANGED <<serviceVars, routerVars, call, worktrees, server, nextThread,
                   connection, up, turnsSent, evicted>>

Collect(k) ==
    /\ WorkerAt(k, "collect")
    /\ WorkerGoto(k, "finalize") \/ (GitFails /\ GiveUp(k))
    /\ UNCHANGED <<serviceVars, routerVars, call, worktrees, server, nextThread,
                   connection, up, turnsSent, evicted>>

Finalize(k) ==
    /\ WorkerAt(k, "finalize")
    /\ LET o == worker[k].outcome
       IN  \/ FinalizeRun(k, o) /\ WorkerGoto(k, "cleanup")
           \/ SameReceipt(k, o) /\ WorkerGoto(k, "cleanup") /\ UNCHANGED serviceVars
           \/ FinalizeFails(k, o) /\ GiveUp(k) /\ UNCHANGED serviceVars
    /\ UNCHANGED <<routerVars, call, worktrees, server, nextThread, connection, up,
                   turnsSent, evicted>>

CleanupRun(k) ==
    /\ WorkerAt(k, "cleanup")
    /\ CleanupAfter(k, worker[k].outcome)
    /\ WorkerGoto(k, "remove")
    /\ UNCHANGED <<serviceVars, routerVars, call, server, nextThread, connection, up,
                   turnsSent, evicted>>

Abandon(k) ==
    /\ WorkerAt(k, "abandon")
    /\ \/ AbandonRun(k)
       \/ (Stored(k) => UpdateFails(k, Abandoned(TaskOf(k)))) /\ UNCHANGED serviceVars
    /\ WorkerGoto(k, "remove")
    /\ UNCHANGED <<routerVars, call, worktrees, server, nextThread, connection, up,
                   turnsSent, evicted>>

Remove(k) ==
    /\ WorkerAt(k, "remove")
    /\ worker' = [worker EXCEPT ![k] = NoWorker]
    /\ DropStream(worker[k].stream)
    /\ UNCHANGED <<serviceVars, call, worktrees, server, nextThread, connection, up,
                   turnsSent, evicted>>

WorkerStep(k) ==
    \/ Interrupt(k) \/ Poll(k) \/ CheckActive(k) \/ Collect(k) \/ Finalize(k)
    \/ CleanupRun(k) \/ Abandon(k) \/ Remove(k)

-----------------------------------------------------------------------------
(***************************************************************************)
(* The App Server and its connection.  The turn of a thread starts, may    *)
(* ask for approvals, and ends; the reader thread of the connection routes *)
(* each of its notifications.                                              *)
(***************************************************************************)
Deliver(h, kind) ==
    \/ RouteEvent(connection, h, h, kind)
    \/ Unrouted(connection, h, h, kind) /\ UNCHANGED routerVars

TurnStarts(h) ==
    /\ up
    /\ server[h].phase = "accepted"
    /\ server' = [server EXCEPT ![h].phase = "running", ![h].sent = @ + 1]
    /\ Deliver(h, "running")
    /\ UNCHANGED <<serviceVars, call, worker, worktrees, nextThread, connection, up,
                   turnsSent, evicted>>

TurnNotifies(h, kind) ==
    /\ up
    /\ server[h].phase = "running"
    /\ server[h].sent < MaxNotifications
    /\ server' = [server EXCEPT ![h].sent = @ + 1]
    /\ Deliver(h, kind)
    /\ UNCHANGED <<serviceVars, call, worker, worktrees, nextThread, connection, up,
                   turnsSent, evicted>>

TurnEnds(h, kind) ==
    /\ up
    /\ server[h].phase = "running"
    /\ server' = [server EXCEPT ![h].phase = "over", ![h].end = kind]
    /\ Deliver(h, kind)
    /\ UNCHANGED <<serviceVars, call, worker, worktrees, nextThread, connection, up,
                   turnsSent, evicted>>

\* The turns of a process that is gone end without a word.
ServerGone ==
    server' = [h \in Threads |-> IF server[h].phase \in {"accepted", "running"}
                                 THEN [server[h] EXCEPT !.phase = "lost"] ELSE server[h]]

Disconnect ==
    /\ up
    /\ up' = FALSE
    /\ ServerGone
    /\ DeactivateAll
    /\ UNCHANGED <<serviceVars, call, worker, worktrees, nextThread, connection, turnsSent, evicted>>

Connect ==
    /\ loaded
    /\ ~up
    /\ connection + 1 \in Connections
    /\ up' = TRUE
    /\ connection' = connection + 1
    /\ UNCHANGED <<serviceVars, routerVars, call, worker, worktrees, server, nextThread,
                   turnsSent, evicted>>

\* Mutant of Startup: the tasks are loaded and not reconciled.
StartupUnreconciled ==
    /\ ~loaded
    /\ loaded' = TRUE
    /\ cache' = disk
    /\ UNCHANGED <<disk, routerVars, runVars>>

Startup ==
    /\ Open
    /\ UNCHANGED <<routerVars, runVars>>

\* The application dies at any point; the tasks file and the worktrees stay.
Crash ==
    /\ "crash" \in Faults
    /\ Close
    /\ call' = [c \in Callers |-> Idle]
    /\ worker' = [k \in Keys |-> NoWorker]
    /\ routes' = {}
    /\ queue' = [s \in Streams |-> NoQueue]
    /\ up' = FALSE
    /\ ServerGone
    /\ UNCHANGED <<nextRoute, worktrees, nextThread, connection, turnsSent, evicted>>

Next ==
    \/ Startup \/ Crash \/ Connect \/ Disconnect
    \/ \E c \in Callers :
          StartStep(c) \/ \E k \in Keys, p \in Projects : StartCommand(c, k, p)
    \/ \E k \in Keys : Stop(k) \/ WorkerStep(k)
    \/ \E h \in Threads :
          \/ TurnStarts(h)
          \/ \E kind \in {"running", "waitingApproval"} : TurnNotifies(h, kind)
          \/ \E kind \in TerminalEvent : TurnEnds(h, kind)

Spec == Init /\ [][Next]_vars

(***************************************************************************)
(* Threads of the application run until they return, a requested           *)
(* application start happens, and the App Server starts and ends the turns *)
(* it has taken up unless its connection is lost.                          *)
(***************************************************************************)
Fairness ==
    /\ WF_vars(Startup)
    /\ \A c \in Callers : WF_vars(StartStep(c))
    /\ \A k \in Keys : WF_vars(WorkerStep(k))
    /\ \A h \in Threads :
          /\ WF_vars(TurnStarts(h))
          /\ WF_vars(\E kind \in TerminalEvent : TurnEnds(h, kind))

FairSpec == Spec /\ Fairness

-----------------------------------------------------------------------------
(***************************************************************************)
(* What makes a run correct.                                               *)
(***************************************************************************)
Call == [pc : CallPc, key : Keys, project : Projects, connection : Connections \cup {0},
         thread : Threads \cup {0}, stream : Streams \cup {0}, outcome : ReceiptOutcome]

Worker == [pc : WorkerPc, stream : Streams \cup {0}, connection : Connections \cup {0},
           stop : BOOLEAN, interrupted : BOOLEAN, outcome : ReceiptOutcome, last : BOOLEAN]

Turn == [key : Keys, phase : TurnPhase, end : TerminalEvent \cup {"none"}, sent : Nat]

\* Store, router, commands, workers and App Server are in well-formed states.
TypeOK ==
    /\ ServiceTypeOK
    /\ RouterTypeOK
    /\ call \in [Callers -> Call]
    /\ worker \in [Keys -> Worker]
    /\ worktrees \subseteq Keys
    /\ server \in [Threads -> Turn]
    /\ nextThread \in 1..MaxStreams + 1
    /\ connection \in Connections \cup {0}
    /\ up \in BOOLEAN
    /\ turnsSent \in [Keys -> Nat]
    /\ evicted \subseteq Keys

(***************************************************************************)
(* A start request executes at most once, however often, from however many *)
(* windows and across however many crashes it is repeated: turn/start is   *)
(* sent at most once for a key whose task the list still holds or has      *)
(* never dropped.                                                          *)
(***************************************************************************)
AtMostOneTurn == \A k \in Keys : k \notin evicted => turnsSent[k] <= 1

\* The App Server took up a turn for this run; its side effects may exist.
TakenUp(k) ==
    \E h \in Threads : server[h].key = k /\ server[h].phase \in {"accepted", "running", "over", "lost"}

Ended(k, kind) == \E h \in Threads : server[h].key = k /\ server[h].end = kind

(***************************************************************************)
(* "同一幂等请求只 claim 和执行一次": a request is claimed and executed     *)
(* once, whatever became of its record.                                    *)
(***************************************************************************)
ExecutedOnce ==
    \A h1, h2 \in Threads :
        /\ server[h1].key = server[h2].key
        /\ {server[h1].phase, server[h2].phase} \subseteq {"accepted", "running", "over", "lost"}
        => h1 = h2

(***************************************************************************)
(* No false verdict: the file says completed or cancelled only of a run    *)
(* the App Server reported so, and failed only of a run it reported so or  *)
(* whose turn it never took up.  Lost connections, timeouts, gaps, crashes *)
(* and failed saves can only lead to outcomeUnknown.                       *)
(***************************************************************************)
VerdictIsHonest ==
    \A k \in Keys \ evicted :
        Has(disk, k) =>
            LET run == Lookup(disk, k).run
            IN  /\ run = "completed" => Ended(k, "completed")
                /\ run = "cancelled" => Ended(k, "interrupted")
                /\ run = "failed" => Ended(k, "failed") \/ ~TakenUp(k)

(***************************************************************************)
(* What a turn did is never lost: its worktree stays until the receipt of  *)
(* a known outcome is in the file.                                         *)
(***************************************************************************)
EvidenceKept ==
    \A k \in Keys \ evicted :
        TakenUp(k) /\ k \notin worktrees =>
            Has(disk, k) /\ Lookup(disk, k).receipt \in {"success", "failed", "cancelled"}

\* A turn that still executes, observed or not, has its worktree under it.
LiveTurnHasWorktree ==
    \A h \in Threads : server[h].phase \in {"accepted", "running"} => server[h].key \in worktrees

(***************************************************************************)
(* Cleanup throws no work away: neither what a turn has done before it is  *)
(* on a receipt, nor the ground under a turn that still executes.          *)
(***************************************************************************)
WorkKept == EvidenceKept /\ LiveTurnHasWorktree

(***************************************************************************)
(* Two turns of one run never execute at the same time, not even when its  *)
(* task was dropped from the list and the request repeated: the worktree   *)
(* of the first turn stands in the way of the second.                      *)
(***************************************************************************)
OneLiveTurn ==
    \A h1, h2 \in Threads :
        /\ server[h1].key = server[h2].key
        /\ {server[h1].phase, server[h2].phase} \subseteq {"accepted", "running"}
        => h1 = h2

(***************************************************************************)
(* A run recorded as active has someone to bring it to an end: the command *)
(* that began it or its worker.  Otherwise it would show as running until  *)
(* the next restart, with nothing to stop.                                 *)
(***************************************************************************)
Owned(k) ==
    \/ \E c \in Callers : call[c].key = k /\ call[c].pc \in Owning
    \/ worker[k].pc \in {"loop", "check", "collect", "finalize", "abandon"}

ActiveRunsOwned ==
    \A k \in Keys : loaded /\ Stored(k) /\ TaskOf(k).run \in ActiveRun => Owned(k)

\* A queued run whose worktree exists while no command is about to begin it:
\* every later start of it is refused with DestinationExists.
Stranded(k) ==
    /\ k \in worktrees
    /\ Stored(k)
    /\ TaskOf(k).run = "queued"
    /\ ~\E c \in Callers : At(c, "begin") /\ KeyOf(c) = k

(***************************************************************************)
(* Only a crash strands a queued run.  While the application stays up, the *)
(* commands that race for a run leave its worktree to the one that begins  *)
(* it, so a later command can always start what is still queued.           *)
(***************************************************************************)
StrandedOnlyByCrash ==
    [][\A k \in Keys : loaded /\ loaded' /\ Stranded(k)' => Stranded(k)]_vars

\* Commands that race past the capacity check overshoot it by their number at most.
ActiveRunsBounded ==
    Cardinality(ActiveRuns) < MaxActiveRuns + Cardinality(Callers)

\* The App Server sent more of a turn of k than the event log is sure to take:
\* all but the first notification can add an event to the five of a run that
\* has begun, and the two of its end come on top.
Overlong(k) == \E h \in Threads : server[h].key = k /\ server[h].sent + 6 > MaxEvents

(***************************************************************************)
(* The records a crash leaves can be reconciled: starts, stops, races,     *)
(* failed saves and earlier crashes never fill the event log of a task, or *)
(* leave its record in a state, so that reconciling it is refused.  Only a *)
(* turn that sent too many notifications can.  (The size of the file may   *)
(* still refuse the save: StartupBlockedOnlyByLimits.)                     *)
(***************************************************************************)
StartupPossible ==
    \A i \in DOMAIN disk :
        ~loaded /\ IsRefused(Reconciled(disk[i])) => Overlong(disk[i].key)

\* Wherever the process ends, it leaves a well-formed state the next start can use.
Restartable == TypeOK /\ StartupPossible

\* Every run that began is eventually recorded as ended.
RunSettles ==
    \A k \in Keys : (Stored(k) /\ TaskOf(k).run \in ActiveRun)
                        ~> ~(Stored(k) /\ TaskOf(k).run \in ActiveRun)

\* Every entry of the active map, stopped or not, is eventually released.
SlotReleased == \A k \in Keys : k \in ActiveRuns ~> k \notin ActiveRuns

\* A run that began ends, in the store as well as in the map of active runs.
RunEnds == RunSettles /\ SlotReleased
=============================================================================

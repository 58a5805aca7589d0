---------------------------- MODULE TaskService ----------------------------
(***************************************************************************)
(* The store of local Tasks: TaskService over TaskStore (task/service.rs,  *)
(* task/storage.rs).  The service keeps the list of tasks, newest first,   *)
(* in memory behind one mutex and mirrors it in one JSON file.  Every      *)
(* operation copies the list, changes the copy, saves it (temporary file,  *)
(* fsync, atomic rename) and only then installs it in memory.              *)
(*                                                                         *)
(* Each action below is one successful operation.  An operation that       *)
(* returns Err, or finds nothing to do, changes neither list: it is a      *)
(* stuttering step here and a branch of its caller in TaskRun.             *)
(***************************************************************************)
EXTENDS TaskRecord, Sequences

CONSTANTS
    MaxStoredTasks,     \* MAX_STORED_TASKS, the length limit of the list
    FileSize(_),        \* length of the JSON of a list; its texts go with its tasks
    MaxFileSize         \* MAX_STORAGE_BYTES, the size limit of the file

ASSUME MaxStoredTasksAssumption == MaxStoredTasks \in Nat \ {0}

ASSUME MaxFileSizeAssumption == MaxFileSize \in Nat

VARIABLES
    disk,       \* the tasks file
    cache,      \* the list in memory
    loaded      \* the service has been created in this process

serviceVars == <<disk, cache, loaded>>

-----------------------------------------------------------------------------

Has(list, k) == \E i \in DOMAIN list : list[i].key = k

Position(list, k) == CHOOSE i \in DOMAIN list : list[i].key = k

Lookup(list, k) == list[Position(list, k)]

Stored(k) == Has(cache, k)

StoredFor(k, p) == Stored(k) /\ Lookup(cache, k).project = p

TaskOf(k) == Lookup(cache, k)

\* insert(0, task) followed by normalize_tasks: the oldest task falls off.
Inserted(t) ==
    LET n == Len(cache)
        m == IF n < MaxStoredTasks THEN n + 1 ELSE MaxStoredTasks
    IN  [i \in 1..m |-> IF i = 1 THEN t ELSE cache[i - 1]]

Replaced(k, t) == [cache EXCEPT ![Position(cache, k)] = t]

\* TaskStore::save refuses a file above the limit, before it writes anything.
Fits(list) == FileSize(list) <= MaxFileSize

\* store.save(&next)? and, when it succeeds, *cache = Some(next).
Save(next) ==
    /\ Fits(next)
    /\ disk' = next
    /\ cache' = next
    /\ UNCHANGED loaded

Update(k, t) ==
    /\ ~IsRefused(t)
    /\ Save(Replaced(k, t))

-----------------------------------------------------------------------------
(***************************************************************************)
(* What each operation makes of the stored task.                           *)
(***************************************************************************)
Accepted(t) ==
    IF t.status = "draft" THEN Transition(Transition(t, "offered"), "accepted")
                          ELSE Transition(t, "accepted")

\* Mutant of Begun: the run moves and the task does not.
BegunRunOnly(t) == MoveRun(t, "running")

Begun(t) == MoveRun(Transition(t, "running"), "running")

Finalized(t, outcome) ==
    Transition(AttachReceipt(MoveRun(t, RunStatusFor(outcome)), outcome),
               TaskStatusFor(outcome))

Abandoned(t) == Transition(MoveRun(t, "outcomeUnknown"), "outcomeUnknown")

\* Mutants of Reconciled: runs that wait in the queue are given up too, or a
\* run that was interrupted by a crash goes back to the queue.
ReconciledQueuedToo(t) ==
    IF t.run \in ActiveRun \cup {"queued"} THEN Abandoned(t) ELSE t

ReconciledRequeues(t) ==
    IF t.run \in ActiveRun THEN [t EXCEPT !.status = "accepted", !.run = "queued"] ELSE t

Reconciled(t) ==
    IF t.status # "running" THEN t
    ELSE IF t.run \in ActiveRun THEN Abandoned(t)
    ELSE Transition(t, "outcomeUnknown")

-----------------------------------------------------------------------------

ServiceInit ==
    /\ disk = <<>>
    /\ cache = <<>>
    /\ loaded = FALSE

(***************************************************************************)
(* TaskService::new and reconcile_incomplete_runs, which TaskRunState::new *)
(* calls before anything else can use the service.  One refused transition *)
(* fails the whole call, and so does a reconciled list that is too large   *)
(* to be saved: the application then does not start, now or later.  When   *)
(* there is nothing to reconcile, nothing is saved.                        *)
(***************************************************************************)
ReconciledList == [i \in DOMAIN disk |-> Reconciled(disk[i])]

Interrupted == \E i \in DOMAIN disk : disk[i].status = "running"

ReconcileSucceeds ==
    /\ \A i \in DOMAIN disk : ~IsRefused(Reconciled(disk[i]))
    /\ Interrupted => Fits(ReconciledList)

Open ==
    /\ ~loaded
    /\ ReconcileSucceeds
    /\ loaded' = TRUE
    /\ cache' = ReconciledList
    /\ disk' = cache'

\* The process ends: only the file is left.
Close ==
    /\ loaded
    /\ loaded' = FALSE
    /\ cache' = <<>>
    /\ UNCHANGED disk

\* Mutant of CreateTask: the key is not looked up first.
CreateTaskAlways(k, p) ==
    /\ loaded
    /\ Save(Inserted(NewTask(k, p)))

CreateTask(k, p) ==
    /\ loaded
    /\ ~Stored(k)
    /\ Save(Inserted(NewTask(k, p)))

AcceptTask(k, p) ==
    /\ loaded
    /\ StoredFor(k, p)
    /\ TaskOf(k).status \in {"draft", "offered"}
    /\ Update(k, Accepted(TaskOf(k)))

RegisterRun(k, p) ==
    /\ loaded
    /\ StoredFor(k, p)
    /\ TaskOf(k).run = "none"
    /\ Update(k, AddRun(TaskOf(k)))

\* Mutant of BeginRun: a run that has begun already is claimed once more.
BeginRunAgain(k) ==
    /\ loaded
    /\ Stored(k)
    /\ TaskOf(k).run # "none"
    /\ IF TaskOf(k).run = "queued" THEN Update(k, Begun(TaskOf(k)))
                                   ELSE UNCHANGED serviceVars

BeginRun(k) ==
    /\ loaded
    /\ Stored(k)
    /\ TaskOf(k).run = "queued"
    /\ TaskOf(k).status = "accepted"
    /\ Update(k, Begun(TaskOf(k)))

TransitionRun(k, to) ==
    /\ loaded
    /\ Stored(k)
    /\ TaskOf(k).run # to
    /\ Update(k, MoveRun(TaskOf(k), to))

FinalizeRun(k, outcome) ==
    /\ loaded
    /\ Stored(k)
    /\ TaskOf(k).receipt = "none"
    /\ Update(k, Finalized(TaskOf(k), outcome))

AbandonRun(k) ==
    /\ loaded
    /\ Stored(k)
    /\ Update(k, Abandoned(TaskOf(k)))

(***************************************************************************)
(* transition_run has one caller, ActiveLocalCodexRun::poll: it asks for   *)
(* "running" only of a run it has just read as "waitingApproval".          *)
(***************************************************************************)
PollTransition(k, to) ==
    /\ to = "running" => Stored(k) /\ TaskOf(k).run = "waitingApproval"
    /\ TransitionRun(k, to)

Operation ==
    \E k \in Keys :
        \/ \E p \in Projects : CreateTask(k, p) \/ AcceptTask(k, p) \/ RegisterRun(k, p)
        \/ BeginRun(k)
        \/ \E to \in ActiveRun : PollTransition(k, to)
        \/ \E outcome \in ReceiptOutcome : FinalizeRun(k, outcome)
        \/ AbandonRun(k)

ServiceNext == Open \/ Close \/ Operation

\* The store as its callers may use it; TaskRun is shown to implement it.
ServiceSpec == ServiceInit /\ [][ServiceNext]_serviceVars

-----------------------------------------------------------------------------
(***************************************************************************)
(* Correctness of the store, whoever calls its operations in what order.   *)
(***************************************************************************)
\* The lists hold well-formed tasks, and never more than the limit.
TaskList == {list \in Seq(StoredTask) : Len(list) <= MaxStoredTasks}

\* File and memory are such lists at all times.
ServiceTypeOK ==
    /\ disk \in TaskList
    /\ cache \in TaskList
    /\ loaded \in BOOLEAN

(***************************************************************************)
(* The status of a task and of its run tell the same story, and a run that *)
(* reached a verified outcome carries the receipt of that outcome: a task  *)
(* under review always has a completed run with a success receipt, and a   *)
(* running task has an active run.  Every operation moves both statuses in *)
(* one save, so no crash can separate them.                                *)
(***************************************************************************)
StatusesAgree(t) ==
    /\ t.run = "none" => t.status \in {"draft", "offered", "accepted"}
    /\ t.run = "queued" => t.status = "accepted"
    /\ t.run \in ActiveRun => t.status = "running"
    /\ t.run = "completed" => t.status = "awaitingReview"
    /\ t.run \in {"failed", "cancelled", "outcomeUnknown"} => t.status = t.run

ReceiptAgrees(t) ==
    /\ t.receipt # "none" => t.run = RunStatusFor(t.receipt)
    /\ t.run \in {"completed", "failed", "cancelled"} => t.receipt # "none"

\* No stored task has a status, a run and a receipt that contradict each other.
StoredConsistent ==
    \A i \in DOMAIN disk : StatusesAgree(disk[i]) /\ ReceiptAgrees(disk[i])

\* One key names one task: no two stored tasks share an idempotency key.
KeysUnique ==
    \A i, j \in DOMAIN disk : disk[i].key = disk[j].key => i = j

(***************************************************************************)
(* Only a limit keeps the application from starting.  A record that        *)
(* reconcile_incomplete_runs cannot repair is an interrupted task whose    *)
(* event log has no room for the two events of its reconciliation, and the *)
(* size of the file stands in the way only of a list with an interrupted   *)
(* task, which has to be saved: with none the start succeeds.              *)
(***************************************************************************)
StartupBlockedOnlyByLimits ==
    /\ \A i \in DOMAIN disk :
          IsRefused(Reconciled(disk[i])) =>
              disk[i].status = "running" /\ disk[i].events + 2 > MaxEvents
    /\ ~Interrupted => ReconcileSucceeds

\* While the service runs, memory and file hold the same list.
CacheIsDisk == loaded => cache = disk

(***************************************************************************)
(* A step never rewrites what the file says about a finished run, never    *)
(* moves a begun run back to the queue, and never changes the project of a *)
(* task: while a task stays in the list its run status only moves forward  *)
(* and a terminal record stays as it is, across restarts too.              *)
(***************************************************************************)
HistoryKept(old, new) ==
    \A i \in DOMAIN old, j \in DOMAIN new :
        old[i].key = new[j].key =>
            /\ new[j].project = old[i].project
            /\ old[i].events <= new[j].events
            /\ old[i].run \in TerminalRun => new[j] = old[i]
            /\ old[i].run \notin {"none", "queued"} => new[j].run \notin {"none", "queued"}

\* Every step of the store, a restart included, keeps the history in the file.
HistoryStable == [][HistoryKept(disk, disk')]_serviceVars
=============================================================================

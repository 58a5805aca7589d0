------------------------------ MODULE TaskView ------------------------------
(***************************************************************************)
(* The window over the Task store: the hook useTasks, which shows the      *)
(* tasks of one project.  Records reach it three ways, in no fixed order:  *)
(* in the answer to its first listing, in the updates it listens for, and  *)
(* in the answers to the commands it sends.  Each is a copy of what the    *)
(* store held when it was taken.  A record is told from a later one of the *)
(* same task by its last sequence number.  Updates of every project are    *)
(* sent to the window; its listener leaves out those of other projects.    *)
(*                                                                         *)
(* When the store publishes an update is left open here: TaskRun has it.   *)
(* Patches, and the errors of commands, are not part of the model.         *)
(***************************************************************************)
EXTENDS TaskService, FiniteSets

CONSTANTS
    NoProject,      \* no project is selected
    MaxLives,       \* bound on the lifecycles of the hook
    MaxInFlight     \* bound on the records under way to it

ASSUME TaskViewAssumption ==
    /\ NoProject \notin Projects
    /\ MaxLives \in Nat
    /\ MaxInFlight \in Nat

VARIABLES
    project,        \* projectRef
    life,           \* lifecycleRef
    phase,          \* the kind of TasksState
    view,           \* its tasks
    listener,       \* the subscription of this lifecycle
    listing,        \* the first listing of this lifecycle
    inFlight,       \* answers and updates on their way
    due,            \* task -> the newest record of it that was sent in this lifecycle
    covered         \* the listing was taken when the subscription was in place

viewVars == <<project, life, phase, view, listener, listing, inFlight, due, covered>>

vars == <<serviceVars, viewVars>>

\* What the window keeps of a record.
Shown == [key : Keys, project : Projects, events : 0..MaxEvents]

Copy(t) == [key |-> t.key, project |-> t.project, events |-> t.events]

\* list_tasks
TasksFor(p) == {Copy(cache[i]) : i \in {j \in DOMAIN cache : cache[j].project = p}}

\* life and project are those of the lifecycle whose request or listener it is for.
Message == [kind : {"listing", "update", "answer"}, life : 0..MaxLives,
            project : Projects, tasks : SUBSET Shown]

-----------------------------------------------------------------------------

\* The effect of a lifecycle: everything of the one before is forgotten.
Begin(p) ==
    /\ life < MaxLives
    /\ life' = life + 1
    /\ project' = p
    /\ phase' = IF p = NoProject THEN "empty" ELSE "loading"
    /\ view' = {}
    /\ listener' = IF p = NoProject THEN "none" ELSE "asked"
    /\ listing' = IF p = NoProject THEN "none" ELSE "asked"
    /\ due' = [k \in Keys |-> -1]
    /\ covered' = FALSE

Init ==
    /\ ServiceInit
    /\ project = NoProject
    /\ life = 0
    /\ phase = "empty"
    /\ view = {}
    /\ listener = "none"
    /\ listing = "none"
    /\ inFlight = {}
    /\ due = [k \in Keys |-> -1]
    /\ covered = FALSE

Select(p) ==
    /\ loaded
    /\ p # project
    /\ Begin(p)
    /\ UNCHANGED <<serviceVars, inFlight>>

\* The window ends with the process.
Quit ==
    /\ Close
    /\ Begin(NoProject)
    /\ inFlight' = {}

Subscribe ==
    /\ listener = "asked"
    /\ \/ /\ listener' = "active"
          /\ UNCHANGED phase
       \/ /\ listener' = "failed"
          /\ phase' = "error"
    /\ UNCHANGED <<serviceVars, project, life, view, listing, inFlight, due, covered>>

Send(kind, tasks) ==
    /\ Cardinality(inFlight) < MaxInFlight
    /\ inFlight' = inFlight \cup
          {[kind |-> kind, life |-> life, project |-> project, tasks |-> tasks]}

Newest(t, n) == IF t.events > n THEN t.events ELSE n

\* list_local_tasks
List ==
    /\ listing = "asked"
    /\ \/ /\ listing' = "taken"
          /\ Send("listing", TasksFor(project))
          /\ covered' = (listener = "active")
          /\ due' = [k \in Keys |->
                IF StoredFor(k, project) THEN TaskOf(k).events ELSE -1]
          /\ UNCHANGED phase
       \/ /\ listing' = "failed"
          /\ phase' = "error"
          /\ UNCHANGED <<inFlight, covered, due>>
    /\ UNCHANGED <<serviceVars, project, life, view, listener>>

\* publish and publish_completion: whichever project the task is of, the window is
\* told; one that does not listen yet misses it.
PublishUpdate(k) ==
    /\ Stored(k)
    /\ due' = [due EXCEPT ![k] = IF StoredFor(k, project) THEN Newest(TaskOf(k), @) ELSE @]
    /\ IF listener = "active" THEN Send("update", {Copy(TaskOf(k))}) ELSE UNCHANGED inFlight
    /\ UNCHANGED <<serviceVars, project, life, phase, view, listener, listing, covered>>

\* start_local_task and stop_local_task, one at a time; each answers with a copy.
AnswerCommand(k) ==
    /\ StoredFor(k, project)
    /\ ~\E m \in inFlight : m.kind = "answer" /\ m.life = life
    /\ Send("answer", {Copy(TaskOf(k))})
    /\ UNCHANGED <<serviceVars, project, life, phase, view, listener, listing, due, covered>>

-----------------------------------------------------------------------------

\* Mutant of IsCurrent: an answer for the project before is taken.
IsCurrentAnyway(m) == project # NoProject

IsCurrent(m) == m.life = life /\ m.project = project

\* Mutant of Concerns: the listener takes the updates of every project.
ConcernsAny(m) == TRUE

\* The listener's check of update.projectId against the project it was made for.
Concerns(m) == m.kind = "update" => \A t \in m.tasks : t.project = m.project

\* Mutant of UpsertTask: the record that arrived last is shown.
UpsertTaskAnyway(tasks) ==
    tasks \cup {t \in view : ~\E u \in tasks : u.key = t.key}

\* A record older than the one that is shown is dropped.
UpsertTask(tasks) ==
    LET newer == {t \in tasks : ~\E u \in view : u.key = t.key /\ u.events > t.events}
    IN  newer \cup {t \in view : ~\E u \in newer : u.key = t.key}

\* Mutants of MergeInitialTasks: tasks that are shown are listed once more, or the
\* listing replaces what updates have brought.
MergeInitialTasksTwice(tasks) == tasks \cup view

MergeInitialTasksReplaces(tasks) == tasks

\* Of each task the newer record stays, and the tasks that are not listed do.
MergeInitialTasks(tasks) ==
    LET kept == {t \in view : ~\E u \in tasks : u.key = t.key /\ u.events > t.events}
    IN  kept \cup {t \in tasks : ~\E u \in kept : u.key = t.key}

TaskState(tasks) == IF tasks = {} THEN "empty" ELSE "ready"

Deliver(m) ==
    /\ m \in inFlight
    /\ inFlight' = inFlight \ {m}
    /\ \/ /\ ~(IsCurrent(m) /\ Concerns(m))
          /\ UNCHANGED <<view, phase, listing>>
       \/ /\ IsCurrent(m)
          /\ m.kind = "listing"
          /\ view' = MergeInitialTasks(m.tasks)
          /\ phase' = IF listener = "failed" THEN "error" ELSE TaskState(view')
          /\ listing' = "received"
       \/ /\ IsCurrent(m)
          /\ Concerns(m)
          /\ m.kind # "listing"
          /\ view' = UpsertTask(m.tasks)
          /\ phase' = TaskState(view')
          /\ UNCHANGED listing
    /\ UNCHANGED <<serviceVars, project, life, listener, due, covered>>

ViewNext ==
    \/ \E p \in Projects \cup {NoProject} : Select(p)
    \/ Subscribe
    \/ List
    \/ \E k \in Keys : PublishUpdate(k) \/ AnswerCommand(k)
    \/ \E m \in inFlight : Deliver(m)

\* Meanwhile the store does what it may.
StoreStep == (Open \/ Operation) /\ UNCHANGED viewVars

Next == StoreStep \/ Quit \/ ViewNext

Spec == Init /\ [][Next]_vars

-----------------------------------------------------------------------------

\* The state of the window and the messages to it are well formed.
ViewTypeOK ==
    /\ project \in Projects \cup {NoProject}
    /\ phase \in {"loading", "empty", "ready", "error"}
    /\ view \subseteq Shown
    /\ \A t, u \in view : t.key = u.key => t = u
    /\ listener \in {"none", "asked", "active", "failed"}
    /\ listing \in {"none", "asked", "taken", "failed", "received"}
    /\ inFlight \subseteq Message

(***************************************************************************)
(* The window shows tasks of the project that is selected and of no other, *)
(* whatever answers for earlier selections are still on their way and      *)
(* whatever other projects' tasks it is told of.                           *)
(***************************************************************************)
ViewOfProject == \A t \in view : t.project = project

\* The window holds well-formed records of its own project, one of each task.
ViewInv == ViewTypeOK /\ ViewOfProject

(***************************************************************************)
(* While a project stays selected no task disappears and none goes back to *)
(* an older record, in whichever order the listing, the updates and the    *)
(* answers arrive.                                                         *)
(***************************************************************************)
ViewNeverGoesBack ==
    [][life' = life =>
          \A t \in view : \E u \in view' : u.key = t.key /\ u.events >= t.events]_vars

(***************************************************************************)
(* Once everything sent has arrived, the window shows every stored task of *)
(* its project at least as far as the last update of it that was           *)
(* published: listing and subscription leave no gap between them, provided *)
(* the subscription was in place when the listing was taken.               *)
(***************************************************************************)
ViewCatchesUp ==
    /\ covered
    /\ listing = "received"
    /\ \A m \in inFlight : m.life # life
    => \A k \in Keys :
          StoredFor(k, project) /\ due[k] >= 0 =>
              \E t \in view : t.key = k /\ t.events >= due[k]
=============================================================================

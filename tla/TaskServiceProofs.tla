------------------------- MODULE TaskServiceProofs -------------------------
(***************************************************************************)
(* Proofs about the Task store, for every set of keys and projects and     *)
(* every limit: what is stored is well formed and consistent, keys are     *)
(* unique, and history is never rewritten.                                 *)
(*                                                                         *)
(* The argument is about one task at a time.  Each operation takes a       *)
(* well-formed, consistent task to another one that continues its history  *)
(* (Advances); the list lemmas lift this to the whole list.                *)
(***************************************************************************)
EXTENDS TaskService, SequenceTheorems, TLAPS

TaskOK(t) == t \in StoredTask /\ StatusesAgree(t) /\ ReceiptAgrees(t)

\* new continues the history of old.
Continues(old, new) ==
    /\ new.key = old.key
    /\ new.project = old.project
    /\ old.events <= new.events
    /\ old.run \in TerminalRun => new = old
    /\ old.run \notin {"none", "queued"} => new.run \notin {"none", "queued"}

Advances(old, new) == TaskOK(new) /\ Continues(old, new)

-----------------------------------------------------------------------------
(***************************************************************************)
(* One task.                                                               *)
(***************************************************************************)
LEMMA RefusedIsRefused ==
    ASSUME NEW t \in StoredTask
    PROVE  /\ IsRefused(Refused(t))
           /\ ~IsRefused(t)
           /\ Refused(t).status = "refused"
           /\ Refused(t).run = "refused"
           /\ Refused(Refused(t)) = Refused(t)
BY DEF IsRefused, Refused, StoredTask, TaskStatus

\* A refusal is the result of the whole chain of calls.
LEMMA RefusalStays ==
    ASSUME NEW t \in StoredTask, NEW to, NEW outcome \in ReceiptOutcome
    PROVE  /\ Transition(Refused(t), to) = Refused(t)
           /\ MoveRun(Refused(t), to) = Refused(t)
           /\ AttachReceipt(Refused(t), outcome) = Refused(t)
<1>1. ~valid_task_transition("refused", to)
  BY DEF valid_task_transition
<1>2. ~valid_run_transition("refused", to)
  BY DEF valid_run_transition
<1>3. RunStatusFor(outcome) # "refused"
  BY DEF RunStatusFor, ReceiptOutcome
<1>4. QED
  BY <1>1, <1>2, <1>3, RefusedIsRefused DEF Transition, MoveRun, AttachReceipt

\* What a call makes of a task: a refusal, or one change and one event.
LEMMA TransitionCases ==
    ASSUME NEW t \in StoredTask, NEW to \in TaskStatus
    PROVE  LET u == Transition(t, to)
           IN  \/ u = Refused(t)
               \/ /\ u \in StoredTask
                  /\ valid_task_transition(t.status, to)
                  /\ u.key = t.key /\ u.project = t.project /\ u.run = t.run
                  /\ u.receipt = t.receipt /\ u.status = to /\ u.events = t.events + 1
<1> DEFINE u == [t EXCEPT !.status = to, !.events = @ + 1]
<1> SUFFICES ASSUME valid_task_transition(t.status, to), HasEventCapacity(t),
                    Transition(t, to) = u
             PROVE  /\ u \in StoredTask
                    /\ u.key = t.key /\ u.project = t.project /\ u.run = t.run
                    /\ u.receipt = t.receipt /\ u.status = to /\ u.events = t.events + 1
  BY DEF Transition
<1>1. t.events + 1 \in 0..MaxEvents
  BY MaxEventsAssumption DEF HasEventCapacity, StoredTask
<1>2. QED
  BY <1>1 DEF StoredTask

LEMMA MoveRunCases ==
    ASSUME NEW t \in StoredTask, NEW to \in RunStatus
    PROVE  LET u == MoveRun(t, to)
           IN  \/ u = Refused(t)
               \/ /\ u \in StoredTask
                  /\ valid_run_transition(t.run, to)
                  /\ u.key = t.key /\ u.project = t.project /\ u.run = to
                  /\ u.receipt = t.receipt /\ u.status = t.status /\ u.events = t.events + 1
<1> DEFINE u == [t EXCEPT !.run = to, !.events = @ + 1]
<1> SUFFICES ASSUME valid_run_transition(t.run, to), HasEventCapacity(t),
                    MoveRun(t, to) = u
             PROVE  /\ u \in StoredTask
                    /\ u.key = t.key /\ u.project = t.project /\ u.run = to
                    /\ u.receipt = t.receipt /\ u.status = t.status /\ u.events = t.events + 1
  BY DEF MoveRun
<1>1. t.events + 1 \in 0..MaxEvents
  BY MaxEventsAssumption DEF HasEventCapacity, StoredTask
<1>2. QED
  BY <1>1 DEF StoredTask

LEMMA AttachReceiptCases ==
    ASSUME NEW t \in StoredTask, NEW outcome \in ReceiptOutcome
    PROVE  LET u == AttachReceipt(t, outcome)
           IN  \/ u = Refused(t)
               \/ /\ u \in StoredTask
                  /\ t.run = RunStatusFor(outcome)
                  /\ u.key = t.key /\ u.project = t.project /\ u.run = t.run
                  /\ u.receipt = outcome /\ u.status = t.status /\ u.events = t.events
BY DEF AttachReceipt, StoredTask

\* The tables of statuses.
LEMMA OutcomeTables ==
    ASSUME NEW outcome \in ReceiptOutcome
    PROVE  /\ RunStatusFor(outcome) \in RunStatus
           /\ TaskStatusFor(outcome) \in TaskStatus
           /\ RunStatusFor(outcome) \in TerminalRun
           /\ RunStatusFor(outcome) = "completed" => TaskStatusFor(outcome) = "awaitingReview"
           /\ RunStatusFor(outcome) # "completed" => TaskStatusFor(outcome) = RunStatusFor(outcome)
BY DEF ReceiptOutcome, RunStatusFor, TaskStatusFor, RunStatus, TaskStatus, TerminalRun

LEMMA OnlyActiveRunsEnd ==
    ASSUME NEW from, NEW to \in TerminalRun, valid_run_transition(from, to)
    PROVE  from \in ActiveRun \cup {"queued"}
BY DEF valid_run_transition, ActiveRun, TerminalRun

-----------------------------------------------------------------------------
(***************************************************************************)
(* Each operation keeps a task consistent and continues its history.       *)
(***************************************************************************)
LEMMA NewTaskOK ==
    ASSUME NEW k \in Keys, NEW p \in Projects
    PROVE  TaskOK(NewTask(k, p)) /\ NewTask(k, p).key = k
BY MaxEventsAssumption
   DEF NewTask, TaskOK, StoredTask, StatusesAgree, ReceiptAgrees, TaskStatus, ActiveRun

\* A task before its run has no receipt.
LEMMA NoReceiptBefore ==
    ASSUME NEW t, TaskOK(t), t.run \in {"none", "queued"} \cup ActiveRun
    PROVE  t.receipt = "none"
<1>1. t.receipt # "none" => RunStatusFor(t.receipt) \in TerminalRun
  BY OutcomeTables DEF TaskOK, StoredTask
<1>2. QED
  BY <1>1 DEF TaskOK, ReceiptAgrees, ActiveRun, TerminalRun

LEMMA AcceptedAdvances ==
    ASSUME NEW t, TaskOK(t), t.status \in {"draft", "offered"}, ~IsRefused(Accepted(t))
    PROVE  Advances(t, Accepted(t)) /\ Accepted(t).run = "none"
<1>1. t \in StoredTask /\ t.run = "none"
  BY DEF TaskOK, StatusesAgree, StoredTask, RunStatus, ActiveRun
<1>2. t.receipt = "none"
  BY <1>1, NoReceiptBefore
<1> DEFINE u == Accepted(t)
<1>3. /\ u \in StoredTask /\ u.status = "accepted" /\ t.events <= u.events
      /\ u.key = t.key /\ u.project = t.project /\ u.run = t.run /\ u.receipt = t.receipt
  <2>1. CASE t.status = "draft"
    <3> DEFINE v == Transition(t, "offered")
    <3>1. v # Refused(t)
      BY <1>1, <2>1, RefusalStays, RefusedIsRefused DEF Accepted, ReceiptOutcome
    <3>2. /\ v \in StoredTask /\ v.events = t.events + 1
          /\ v.key = t.key /\ v.project = t.project /\ v.run = t.run /\ v.receipt = t.receipt
      BY <1>1, <3>1, TransitionCases DEF TaskStatus
    <3> HIDE DEF v
    <3>3. u = Transition(v, "accepted")
      BY <2>1 DEF Accepted, v
    <3>4. QED
      BY <1>1, <3>2, <3>3, TransitionCases, RefusedIsRefused DEF TaskStatus, StoredTask
  <2>2. CASE t.status # "draft"
    <3>1. u = Transition(t, "accepted")
      BY <2>2 DEF Accepted
    <3>2. QED
      BY <1>1, <3>1, TransitionCases, RefusedIsRefused DEF TaskStatus, StoredTask
  <2>3. QED
    BY <2>1, <2>2
<1>4. QED
  BY <1>1, <1>2, <1>3
     DEF Advances, Continues, TaskOK, StatusesAgree, ReceiptAgrees, TerminalRun, ActiveRun

LEMMA AddRunAdvances ==
    ASSUME NEW t, TaskOK(t), ~IsRefused(AddRun(t))
    PROVE  Advances(t, AddRun(t)) /\ AddRun(t).run = "queued"
<1> DEFINE u == [t EXCEPT !.run = "queued", !.events = @ + 1]
<1>1. t \in StoredTask
  BY DEF TaskOK
<1>2. t.status = "accepted" /\ t.run = "none" /\ HasEventCapacity(t) /\ AddRun(t) = u
  BY <1>1, RefusedIsRefused DEF AddRun
<1>3. t.receipt = "none"
  BY <1>2, NoReceiptBefore
<1>4. t.events + 1 \in 0..MaxEvents
  BY <1>1, <1>2, MaxEventsAssumption DEF HasEventCapacity, StoredTask
<1>5. /\ u \in StoredTask /\ u.key = t.key /\ u.project = t.project /\ u.run = "queued"
      /\ u.receipt = t.receipt /\ u.status = t.status /\ u.events = t.events + 1
  <2>1. "queued" \in RunStatus
    BY DEF RunStatus
  <2>2. QED
    BY <1>1, <1>4, <2>1 DEF StoredTask
<1> HIDE DEF u
<1>6. t.events <= u.events
  BY <1>1, <1>5 DEF StoredTask
<1>7. QED
  BY <1>2, <1>3, <1>5, <1>6
     DEF Advances, Continues, TaskOK, StatusesAgree, ReceiptAgrees, TerminalRun, ActiveRun

LEMMA BegunAdvances ==
    ASSUME NEW t, TaskOK(t), t.run = "queued", ~IsRefused(Begun(t))
    PROVE  Advances(t, Begun(t)) /\ Begun(t).run = "running"
<1> DEFINE v == Transition(t, "running")
           u == MoveRun(v, "running")
<1>1. t \in StoredTask /\ t.receipt = "none"
  BY NoReceiptBefore DEF TaskOK
<1>2. v # Refused(t)
  BY <1>1, RefusalStays, RefusedIsRefused DEF Begun, ReceiptOutcome
<1>3. /\ v \in StoredTask /\ v.events = t.events + 1 /\ v.status = "running"
      /\ v.key = t.key /\ v.project = t.project /\ v.run = t.run /\ v.receipt = t.receipt
  BY <1>1, <1>2, TransitionCases DEF TaskStatus
<1> HIDE DEF v
<1>4. /\ u \in StoredTask /\ u.status = "running" /\ u.run = "running" /\ t.events <= u.events
      /\ u.key = t.key /\ u.project = t.project /\ u.receipt = "none"
  BY <1>1, <1>3, MoveRunCases, RefusedIsRefused DEF Begun, v, RunStatus, StoredTask
<1> HIDE DEF u
<1>5. Begun(t) = u
  BY DEF Begun, u, v
<1>6. QED
  BY <1>4, <1>5
     DEF Advances, Continues, TaskOK, StatusesAgree, ReceiptAgrees, TerminalRun, ActiveRun

LEMMA MoveRunAdvances ==
    ASSUME NEW t, TaskOK(t), NEW to \in ActiveRun, t.run # "queued", ~IsRefused(MoveRun(t, to))
    PROVE  Advances(t, MoveRun(t, to)) /\ MoveRun(t, to).run = to
<1> DEFINE u == MoveRun(t, to)
<1>1. t \in StoredTask
  BY DEF TaskOK
<1>2. /\ u \in StoredTask /\ valid_run_transition(t.run, to)
      /\ u.key = t.key /\ u.project = t.project /\ u.run = to
      /\ u.receipt = t.receipt /\ u.status = t.status /\ t.events <= u.events
  BY <1>1, MoveRunCases, RefusedIsRefused DEF ActiveRun, RunStatus, StoredTask
<1> HIDE DEF u
<1>3. t.run \in ActiveRun
  BY <1>2 DEF valid_run_transition, ActiveRun
<1>4. t.receipt = "none"
  BY <1>3, NoReceiptBefore
<1>5. QED
  BY <1>2, <1>3, <1>4
     DEF Advances, Continues, TaskOK, StatusesAgree, ReceiptAgrees, TerminalRun, ActiveRun, u

LEMMA FinalizedAdvances ==
    ASSUME NEW t, TaskOK(t), NEW outcome \in ReceiptOutcome, ~IsRefused(Finalized(t, outcome))
    PROVE  /\ Advances(t, Finalized(t, outcome))
           /\ Finalized(t, outcome).run = RunStatusFor(outcome)
           /\ Finalized(t, outcome).receipt = outcome
<1> DEFINE v == MoveRun(t, RunStatusFor(outcome))
           w == AttachReceipt(v, outcome)
           u == Transition(w, TaskStatusFor(outcome))
<1>1. t \in StoredTask
  BY DEF TaskOK
<1>2. Finalized(t, outcome) = u
  BY DEF Finalized
<1>3. v # Refused(t)
  BY <1>1, <1>2, RefusalStays, RefusedIsRefused
<1>4. /\ v \in StoredTask /\ v.events = t.events + 1 /\ v.status = t.status
      /\ v.key = t.key /\ v.project = t.project /\ v.run = RunStatusFor(outcome)
      /\ valid_run_transition(t.run, RunStatusFor(outcome))
  BY <1>1, <1>3, MoveRunCases, OutcomeTables
<1> HIDE DEF v
<1>5. w # Refused(v)
  BY <1>2, <1>4, RefusalStays, RefusedIsRefused
<1>6. /\ w \in StoredTask /\ w.events = v.events /\ w.status = v.status
      /\ w.key = v.key /\ w.project = v.project /\ w.run = v.run /\ w.receipt = outcome
  BY <1>4, <1>5, AttachReceiptCases
<1> HIDE DEF w
<1>7. /\ u \in StoredTask /\ u.events = w.events + 1 /\ u.status = TaskStatusFor(outcome)
      /\ u.key = w.key /\ u.project = w.project /\ u.run = w.run /\ u.receipt = w.receipt
  BY <1>2, <1>6, TransitionCases, OutcomeTables, RefusedIsRefused
<1> HIDE DEF u
<1>8. t.run \in ActiveRun \cup {"queued"}
  BY <1>4, OnlyActiveRunsEnd, OutcomeTables
<1>9. t.events <= u.events
  BY <1>1, <1>4, <1>6, <1>7 DEF StoredTask
<1>10. StatusesAgree(u) /\ ReceiptAgrees(u)
  BY <1>4, <1>6, <1>7, OutcomeTables
     DEF StatusesAgree, ReceiptAgrees, TerminalRun, ActiveRun, ReceiptOutcome
<1>11. u.run \notin {"none", "queued"} /\ t.run \notin TerminalRun
  BY <1>4, <1>6, <1>7, <1>8, OutcomeTables DEF TerminalRun, ActiveRun
<1>12. QED
  BY <1>2, <1>4, <1>6, <1>7, <1>9, <1>10, <1>11 DEF Advances, Continues, TaskOK

LEMMA AbandonedAdvances ==
    ASSUME NEW t, TaskOK(t), ~IsRefused(Abandoned(t))
    PROVE  Advances(t, Abandoned(t)) /\ Abandoned(t).run = "outcomeUnknown"
<1> DEFINE v == MoveRun(t, "outcomeUnknown")
           u == Transition(v, "outcomeUnknown")
<1>1. t \in StoredTask /\ Abandoned(t) = u
  BY DEF TaskOK, Abandoned
<1>2. v # Refused(t)
  BY <1>1, RefusalStays, RefusedIsRefused DEF ReceiptOutcome
<1>3. /\ v \in StoredTask /\ v.events = t.events + 1 /\ v.run = "outcomeUnknown"
      /\ v.key = t.key /\ v.project = t.project /\ v.receipt = t.receipt
      /\ valid_run_transition(t.run, "outcomeUnknown")
  BY <1>1, <1>2, MoveRunCases DEF RunStatus
<1> HIDE DEF v
<1>4. t.run \in ActiveRun
  BY <1>3 DEF valid_run_transition, ActiveRun, TerminalRun
<1>5. t.receipt = "none"
  BY <1>4, NoReceiptBefore
<1>6. /\ u \in StoredTask /\ u.events = v.events + 1 /\ u.status = "outcomeUnknown"
      /\ u.key = v.key /\ u.project = v.project /\ u.run = v.run /\ u.receipt = "none"
  BY <1>1, <1>3, <1>5, TransitionCases, RefusedIsRefused DEF TaskStatus
<1> HIDE DEF u
<1>7. t.events <= u.events
  BY <1>1, <1>3, <1>6 DEF StoredTask
<1>8. QED
  BY <1>1, <1>3, <1>4, <1>6, <1>7
     DEF Advances, Continues, TaskOK, StatusesAgree, ReceiptAgrees, TerminalRun, ActiveRun

LEMMA ReconciledAdvances ==
    ASSUME NEW t, TaskOK(t), ~IsRefused(Reconciled(t))
    PROVE  Advances(t, Reconciled(t)) /\ (Reconciled(t) = t \/ Reconciled(t).run = "outcomeUnknown")
<1>1. CASE t.status # "running"
  <2>1. Reconciled(t) = t /\ t.events <= t.events
    BY <1>1 DEF Reconciled, TaskOK, StoredTask
  <2>2. QED
    BY <2>1 DEF Advances, Continues
<1>2. CASE t.status = "running"
  <2>1. t.run \in ActiveRun
    BY <1>2 DEF TaskOK, StatusesAgree, StoredTask, RunStatus, ActiveRun
  <2>2. QED
    BY <1>2, <2>1, AbandonedAdvances DEF Reconciled
<1>3. QED
  BY <1>1, <1>2

-----------------------------------------------------------------------------
(***************************************************************************)
(* The list.  The inductive invariant adds to the properties that memory   *)
(* mirrors the file: every operation computes the next list from memory    *)
(* and overwrites the file with it, so nothing about the file survives an  *)
(* operation that does not hold of memory.                                 *)
(***************************************************************************)
ServiceInv ==
    /\ ServiceTypeOK
    /\ IF loaded THEN cache = disk ELSE cache = <<>>
    /\ \A i \in DOMAIN disk : TaskOK(disk[i])
    /\ KeysUnique

\* What every step establishes.
GoodStep == ServiceInv' /\ HistoryKept(disk, disk')

\* What every step but create_task establishes: no task leaves the list.
KeysKept == \A k : Has(disk, k) => Has(disk, k)'

LEMMA PositionFound ==
    ASSUME NEW list, NEW k, Has(list, k)
    PROVE  /\ Position(list, k) \in DOMAIN list
           /\ Lookup(list, k) = list[Position(list, k)]
           /\ Lookup(list, k).key = k
BY DEF Has, Position, Lookup

LEMMA ReplaceStep ==
    ASSUME ServiceInv, loaded, NEW k, Stored(k), NEW t, Advances(TaskOf(k), t),
           Save(Replaced(k, t))
    PROVE  GoodStep /\ KeysKept
<1> DEFINE p == Position(disk, k)
           next == [disk EXCEPT ![p] = t]
<1>1. cache = disk /\ disk \in Seq(StoredTask) /\ Len(disk) <= MaxStoredTasks
  BY DEF ServiceInv, ServiceTypeOK, TaskList
<1>2. DOMAIN disk = 1..Len(disk) /\ Len(disk) \in Nat
  BY <1>1, LenProperties
<1>3. p \in 1..Len(disk) /\ TaskOf(k) = disk[p]
  BY <1>1, <1>2, PositionFound DEF Stored, TaskOf
<1>4. disk' = next /\ cache' = next /\ loaded' = loaded
  BY <1>1 DEF Save, Replaced
<1> HIDE DEF p
<1>5. t \in StoredTask /\ TaskOK(t)
  BY DEF Advances, TaskOK
<1>6. /\ next \in Seq(StoredTask) /\ Len(next) = Len(disk)
      /\ \A j \in 1..Len(disk) : next[j] = IF j = p THEN t ELSE disk[j]
  BY <1>1, <1>3, <1>5, ExceptSeq
<1> HIDE DEF next
<1>7. DOMAIN next = 1..Len(disk)
  BY <1>6, LenProperties
<1>8. \A j \in 1..Len(disk) : Advances(disk[j], next[j])
  <2> SUFFICES ASSUME NEW j \in 1..Len(disk) PROVE Advances(disk[j], next[j])
    OBVIOUS
  <2>1. CASE j = p
    BY <1>3, <1>6, <2>1
  <2>2. CASE j # p
    <3>1. next[j] = disk[j] /\ TaskOK(disk[j])
      BY <1>2, <1>6, <2>2 DEF ServiceInv
    <3>2. QED
      BY <3>1 DEF Advances, Continues, TaskOK, StoredTask
  <2>3. QED
    BY <2>1, <2>2
<1>9. \A i, j \in 1..Len(disk) : disk[i].key = disk[j].key => i = j
  BY <1>2 DEF ServiceInv, KeysUnique
<1>10. ServiceInv'
  BY <1>1, <1>4, <1>6, <1>7, <1>8, <1>9
     DEF ServiceInv, ServiceTypeOK, TaskList, KeysUnique, Advances, Continues
<1>11. HistoryKept(disk, disk')
  BY <1>2, <1>4, <1>7, <1>8, <1>9 DEF HistoryKept, Advances, Continues
<1>12. KeysKept
  BY <1>2, <1>4, <1>7, <1>8 DEF KeysKept, Has, Advances, Continues
<1>13. QED
  BY <1>10, <1>11, <1>12 DEF GoodStep

LEMMA InsertStep ==
    ASSUME ServiceInv, NEW k \in Keys, NEW q \in Projects, CreateTask(k, q)
    PROVE  GoodStep
<1> DEFINE t == NewTask(k, q)
           n == Len(disk)
           m == IF n < MaxStoredTasks THEN n + 1 ELSE MaxStoredTasks
           next == [i \in 1..m |-> IF i = 1 THEN t ELSE disk[i - 1]]
<1>1. cache = disk /\ disk \in Seq(StoredTask) /\ Len(disk) <= MaxStoredTasks
  BY DEF ServiceInv, ServiceTypeOK, TaskList, CreateTask
<1>2. DOMAIN disk = 1..n /\ n \in Nat
  BY <1>1, LenProperties
<1>3. disk' = next /\ cache' = next /\ loaded /\ loaded'
  BY <1>1 DEF CreateTask, Save, Inserted
<1>4. TaskOK(t) /\ t.key = k
  BY NewTaskOK
<1>5. \A i \in 1..n : disk[i].key # k
  BY <1>1, <1>2 DEF CreateTask, Stored, Has
<1>6. m \in Nat /\ m <= MaxStoredTasks /\ m <= n + 1
  BY <1>1, <1>2, MaxStoredTasksAssumption
<1> HIDE DEF t, n, m
<1>7. /\ \A j \in 1..m : next[j] = IF j = 1 THEN t ELSE disk[j - 1]
      /\ DOMAIN next = 1..m
  OBVIOUS
<1>8. \A i \in 1..n : TaskOK(disk[i])
  BY <1>2 DEF ServiceInv
<1>9. \A j \in 1..m : j = 1 \/ j - 1 \in 1..n
  BY <1>2, <1>6
<1>10. \A j \in 1..m : TaskOK(next[j])
  BY <1>4, <1>7, <1>8, <1>9
<1>11. next \in Seq(StoredTask) /\ Len(next) = m
  <2>1. next \in [1..m -> StoredTask]
    BY <1>7, <1>10 DEF TaskOK
  <2>2. next \in Seq(StoredTask)
    BY <1>6, <2>1, SeqDef
  <2>3. QED
    BY <1>6, <1>7, <2>2, LenProperties
<1> HIDE DEF next
<1>12. \A i, j \in 1..n : disk[i].key = disk[j].key => i = j
  BY <1>2 DEF ServiceInv, KeysUnique
<1>13. \A i, j \in 1..m : next[i].key = next[j].key => i = j
  <2> SUFFICES ASSUME NEW i \in 1..m, NEW j \in 1..m, next[i].key = next[j].key
               PROVE  i = j
    OBVIOUS
  <2>1. CASE i = 1
    BY <1>4, <1>5, <1>7, <1>9, <2>1
  <2>2. CASE j = 1
    BY <1>4, <1>5, <1>7, <1>9, <2>2
  <2>3. CASE i # 1 /\ j # 1
    <3>1. i - 1 \in 1..n /\ j - 1 \in 1..n /\ next[i] = disk[i - 1] /\ next[j] = disk[j - 1]
      BY <1>7, <1>9, <2>3
    <3>2. i - 1 = j - 1
      BY <1>12, <3>1
    <3>3. QED
      BY <1>6, <3>2
  <2>4. QED
    BY <2>1, <2>2, <2>3
<1>14. ServiceInv'
  BY <1>3, <1>6, <1>7, <1>10, <1>11, <1>13
     DEF ServiceInv, ServiceTypeOK, TaskList, KeysUnique
<1>15. \A i \in 1..n, j \in 1..m : disk[i].key = next[j].key => next[j] = disk[i]
  BY <1>4, <1>5, <1>7, <1>9, <1>12
<1>16. \A i \in 1..n : disk[i].events <= disk[i].events
  BY <1>8 DEF TaskOK, StoredTask
<1>17. HistoryKept(disk, disk')
  BY <1>2, <1>3, <1>7, <1>15, <1>16 DEF HistoryKept
<1>18. QED
  BY <1>14, <1>17 DEF GoodStep

LEMMA OpenStep ==
    ASSUME ServiceInv, Open
    PROVE  GoodStep /\ KeysKept
<1> DEFINE n == Len(disk)
           next == [i \in DOMAIN disk |-> Reconciled(disk[i])]
<1>1. disk \in Seq(StoredTask) /\ n <= MaxStoredTasks
  BY DEF ServiceInv, ServiceTypeOK, TaskList
<1>2. DOMAIN disk = 1..n /\ n \in Nat
  BY <1>1, LenProperties
<1>3. disk' = next /\ cache' = next /\ loaded'
  BY DEF Open, ReconciledList
<1>4. DOMAIN next = 1..n /\ \A j \in 1..n : next[j] = Reconciled(disk[j])
  BY <1>2
<1>5. \A j \in 1..n : Advances(disk[j], next[j])
  BY <1>2, <1>4, ReconciledAdvances DEF ServiceInv, Open, ReconcileSucceeds
<1>6. next \in Seq(StoredTask) /\ Len(next) = n
  <2>1. next \in [1..n -> StoredTask]
    BY <1>2, <1>4, <1>5 DEF Advances, TaskOK
  <2>2. next \in Seq(StoredTask)
    BY <1>2, <2>1, SeqDef
  <2>3. QED
    BY <1>2, <1>4, <2>2, LenProperties
<1> HIDE DEF next, n
<1>7. \A i, j \in 1..n : disk[i].key = disk[j].key => i = j
  BY <1>2 DEF ServiceInv, KeysUnique
<1>8. ServiceInv'
  BY <1>1, <1>3, <1>4, <1>5, <1>6, <1>7
     DEF ServiceInv, ServiceTypeOK, TaskList, KeysUnique, Advances, Continues
<1>9. HistoryKept(disk, disk')
  BY <1>2, <1>3, <1>4, <1>5, <1>7 DEF HistoryKept, Advances, Continues
<1>10. KeysKept
  BY <1>2, <1>3, <1>4, <1>5 DEF KeysKept, Has, Advances, Continues
<1>11. QED
  BY <1>8, <1>9, <1>10 DEF GoodStep

\* A step that leaves the file alone.
LEMMA FileUnchanged ==
    ASSUME ServiceInv, disk' = disk, loaded' \in BOOLEAN,
           IF loaded' THEN cache' = disk' ELSE cache' = <<>>
    PROVE  GoodStep /\ KeysKept
<1>1. <<>> \in TaskList
  BY EmptySeq, MaxStoredTasksAssumption DEF TaskList
<1>2. ServiceInv'
  BY <1>1 DEF ServiceInv, ServiceTypeOK, KeysUnique
<1>3. \A i \in DOMAIN disk : disk[i].events <= disk[i].events
  BY DEF ServiceInv, TaskOK, StoredTask
<1>4. HistoryKept(disk, disk')
  BY <1>3 DEF HistoryKept, ServiceInv, KeysUnique
<1>5. KeysKept
  BY DEF KeysKept, Has
<1>6. QED
  BY <1>2, <1>4, <1>5 DEF GoodStep

LEMMA UpdateStep ==
    ASSUME ServiceInv, loaded, NEW k, Stored(k), NEW t, Update(k, t),
           TaskOK(TaskOf(k)) /\ ~IsRefused(t) => Advances(TaskOf(k), t)
    PROVE  GoodStep /\ KeysKept
<1>1. TaskOK(TaskOf(k))
  BY PositionFound DEF ServiceInv, Stored, TaskOf
<1>2. QED
  BY <1>1, ReplaceStep DEF Update

-----------------------------------------------------------------------------

LEMMA InitInv == ServiceInit => ServiceInv
<1> SUFFICES ASSUME ServiceInit PROVE ServiceInv
  OBVIOUS
<1>1. <<>> \in TaskList
  BY EmptySeq, MaxStoredTasksAssumption DEF TaskList
<1>2. DOMAIN disk = {}
  <2>1. disk \in Seq(StoredTask) /\ Len(disk) = 0
    BY EmptySeq DEF ServiceInit
  <2>2. DOMAIN disk = 1..0
    BY <2>1, LenProperties
  <2>3. QED
    BY <2>2
<1>3. disk \in TaskList /\ cache \in TaskList /\ loaded = FALSE /\ cache = <<>>
  BY <1>1 DEF ServiceInit
<1>4. QED
  BY <1>2, <1>3 DEF ServiceInv, ServiceTypeOK, KeysUnique

\* One lemma per operation that updates a stored task.
LEMMA AcceptStep ==
    ASSUME ServiceInv, NEW k, NEW p, AcceptTask(k, p)
    PROVE  GoodStep /\ KeysKept
BY AcceptedAdvances, UpdateStep DEF AcceptTask, StoredFor

LEMMA RegisterStep ==
    ASSUME ServiceInv, NEW k, NEW p, RegisterRun(k, p)
    PROVE  GoodStep /\ KeysKept
BY AddRunAdvances, UpdateStep DEF RegisterRun, StoredFor

LEMMA BeginStep ==
    ASSUME ServiceInv, NEW k, BeginRun(k)
    PROVE  GoodStep /\ KeysKept
BY BegunAdvances, UpdateStep DEF BeginRun

LEMMA PollStep ==
    ASSUME ServiceInv, NEW k, NEW to \in ActiveRun, PollTransition(k, to)
    PROVE  GoodStep /\ KeysKept
<1>1. loaded /\ Stored(k) /\ Update(k, MoveRun(TaskOf(k), to))
  BY DEF PollTransition, TransitionRun
<1>2. TaskOK(TaskOf(k)) /\ ~IsRefused(MoveRun(TaskOf(k), to)) => TaskOf(k).run # "queued"
  <2> SUFFICES ASSUME TaskOK(TaskOf(k)), ~IsRefused(MoveRun(TaskOf(k), to)),
                      TaskOf(k).run = "queued"
               PROVE  FALSE
    OBVIOUS
  <2>1. to = "waitingApproval"
    BY DEF PollTransition, ActiveRun
  <2>2. ~valid_run_transition("queued", "waitingApproval")
    BY DEF valid_run_transition, TerminalRun
  <2>3. QED
    BY <2>1, <2>2, MoveRunCases, RefusedIsRefused DEF TaskOK, RunStatus
<1>3. QED
  BY <1>1, <1>2, MoveRunAdvances, UpdateStep

LEMMA FinalizeStep ==
    ASSUME ServiceInv, NEW k, NEW outcome \in ReceiptOutcome, FinalizeRun(k, outcome)
    PROVE  GoodStep /\ KeysKept
BY FinalizedAdvances, UpdateStep DEF FinalizeRun

LEMMA AbandonStep ==
    ASSUME ServiceInv, NEW k, AbandonRun(k)
    PROVE  GoodStep /\ KeysKept
BY AbandonedAdvances, UpdateStep DEF AbandonRun

LEMMA CloseStep ==
    ASSUME ServiceInv, Close \/ UNCHANGED serviceVars
    PROVE  GoodStep /\ KeysKept
<1>1. disk' = disk /\ loaded' \in BOOLEAN /\ (IF loaded' THEN cache' = disk' ELSE cache' = <<>>)
  <2>1. CASE Close
    BY <2>1 DEF Close
  <2>2. CASE UNCHANGED serviceVars
    BY <2>2 DEF serviceVars, ServiceInv, ServiceTypeOK
  <2>3. QED
    BY <2>1, <2>2
<1>2. QED
  BY <1>1, FileUnchanged

LEMMA NextStep ==
    ASSUME ServiceInv, [ServiceNext]_serviceVars
    PROVE  GoodStep
<1>1. CASE Open
  BY <1>1, OpenStep
<1>2. CASE Close \/ UNCHANGED serviceVars
  BY <1>2, CloseStep
<1>3. ASSUME NEW k \in Keys, NEW p \in Projects,
             CreateTask(k, p) \/ AcceptTask(k, p) \/ RegisterRun(k, p)
      PROVE  GoodStep
  BY <1>3, InsertStep, AcceptStep, RegisterStep
<1>4. ASSUME NEW k \in Keys, BeginRun(k) \/ AbandonRun(k)
      PROVE  GoodStep
  BY <1>4, BeginStep, AbandonStep
<1>5. ASSUME NEW k \in Keys, NEW to \in ActiveRun, PollTransition(k, to)
      PROVE  GoodStep
  BY <1>5, PollStep
<1>6. ASSUME NEW k \in Keys, NEW outcome \in ReceiptOutcome, FinalizeRun(k, outcome)
      PROVE  GoodStep
  BY <1>6, FinalizeStep
<1>7. QED
  BY <1>1, <1>2, <1>3, <1>4, <1>5, <1>6 DEF ServiceNext, Operation

(***************************************************************************)
(* Whatever the order of operations, restarts included, the file and the   *)
(* memory of the store hold well-formed tasks within the limits.           *)
(***************************************************************************)
THEOREM ServiceTypeCorrect == ServiceSpec => []ServiceTypeOK
<1>1. ServiceInv => ServiceTypeOK
  BY DEF ServiceInv
<1>2. ServiceInv /\ [ServiceNext]_serviceVars => ServiceInv'
  BY NextStep DEF GoodStep
<1>3. QED
  BY <1>1, <1>2, InitInv, PTL DEF ServiceSpec

(***************************************************************************)
(* The statuses of a stored task, of its run and of its receipt agree in   *)
(* the file at all times: begin_run, finalize_run, abandon_run and         *)
(* reconcile_incomplete_runs never leave one of them behind.               *)
(***************************************************************************)
THEOREM StoreConsistent == ServiceSpec => []StoredConsistent
<1>1. ServiceInv => StoredConsistent
  BY DEF ServiceInv, StoredConsistent, TaskOK
<1>2. ServiceInv /\ [ServiceNext]_serviceVars => ServiceInv'
  BY NextStep DEF GoodStep
<1>3. QED
  BY <1>1, <1>2, InitInv, PTL DEF ServiceSpec

\* A record that agrees with itself is reconciled unless its log is full.
LEMMA ReconciledOrFull ==
    ASSUME NEW t, TaskOK(t), t.events + 2 <= MaxEvents
    PROVE  ~IsRefused(Reconciled(t))
<1>1. CASE t.status # "running"
  BY <1>1 DEF Reconciled, IsRefused, TaskOK, StoredTask, TaskStatus
<1>2. CASE t.status = "running"
  <2>1. t.run \in ActiveRun
    BY <1>2 DEF TaskOK, StatusesAgree, StoredTask, RunStatus, ActiveRun
  <2>2. Reconciled(t) = Abandoned(t)
    BY <1>2, <2>1 DEF Reconciled
  <2>3. t.events < MaxEvents /\ t.events + 1 < MaxEvents
    BY MaxEventsAssumption DEF TaskOK, StoredTask
  <2>4. MoveRun(t, "outcomeUnknown")
          = [t EXCEPT !.run = "outcomeUnknown", !.events = @ + 1]
    BY <2>1, <2>3 DEF MoveRun, valid_run_transition, HasEventCapacity, ActiveRun, TerminalRun
  <2>5. Abandoned(t).status = "outcomeUnknown"
    BY <1>2, <2>3, <2>4
       DEF Abandoned, Transition, valid_task_transition, HasEventCapacity, TaskOK, StoredTask
  <2>6. QED
    BY <2>2, <2>5 DEF IsRefused
<1>3. QED
  BY <1>1, <1>2

(***************************************************************************)
(* Whatever a crash leaves in the file, reconcile_incomplete_runs repairs  *)
(* it when the service is created next, unless the event log of an         *)
(* interrupted task or the file itself has no room for the two events.     *)
(***************************************************************************)
THEOREM StoreStartup == ServiceSpec => []StartupBlockedOnlyByLimits
<1>1. ServiceInv => StartupBlockedOnlyByLimits
  <2> SUFFICES ASSUME ServiceInv PROVE StartupBlockedOnlyByLimits
    OBVIOUS
  <2>1. ASSUME NEW i \in DOMAIN disk, disk[i].status # "running"
        PROVE  ~IsRefused(Reconciled(disk[i]))
    BY <2>1 DEF ServiceInv, TaskOK, StoredTask, TaskStatus, Reconciled, IsRefused
  <2>2. ASSUME NEW i \in DOMAIN disk, ~(disk[i].events + 2 > MaxEvents)
        PROVE  ~IsRefused(Reconciled(disk[i]))
    <3>1. TaskOK(disk[i])
      BY DEF ServiceInv
    <3>2. disk[i].events + 2 <= MaxEvents
      BY <2>2, <3>1, MaxEventsAssumption DEF TaskOK, StoredTask
    <3>3. QED
      BY <3>1, <3>2, ReconciledOrFull
  <2>3. QED
    BY <2>1, <2>2 DEF StartupBlockedOnlyByLimits, ReconcileSucceeds, Interrupted
<1>2. ServiceInv /\ [ServiceNext]_serviceVars => ServiceInv'
  BY NextStep DEF GoodStep
<1>3. QED
  BY <1>1, <1>2, InitInv, PTL DEF ServiceSpec

\* create_task never stores a second task for a key.
THEOREM StoreKeysUnique == ServiceSpec => []KeysUnique
<1>1. ServiceInv => KeysUnique
  BY DEF ServiceInv
<1>2. ServiceInv /\ [ServiceNext]_serviceVars => ServiceInv'
  BY NextStep DEF GoodStep
<1>3. QED
  BY <1>1, <1>2, InitInv, PTL DEF ServiceSpec

(***************************************************************************)
(* No operation and no restart rewrites the record of a finished run,      *)
(* takes a begun run back to the queue or shortens an event log.           *)
(***************************************************************************)
THEOREM StoreHistoryStable == ServiceSpec => HistoryStable
<1>1. ServiceInv /\ [ServiceNext]_serviceVars => ServiceInv'
  BY NextStep DEF GoodStep
<1>2. ServiceInv /\ [ServiceNext]_serviceVars => [HistoryKept(disk, disk')]_serviceVars
  BY NextStep DEF GoodStep
<1>3. QED
  BY <1>1, <1>2, InitInv, PTL DEF ServiceSpec, HistoryStable
=============================================================================

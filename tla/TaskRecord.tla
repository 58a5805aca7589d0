----------------------------- MODULE TaskRecord -----------------------------
(***************************************************************************)
(* The record of one local Task and its state machine                      *)
(* (task/state_machine.rs, task/types.rs).                                 *)
(*                                                                         *)
(* A Task started from the desktop has exactly one Run: TaskRunState::start *)
(* derives the task id, the run id and the run's idempotency key from the  *)
(* one idempotency key of the request.  So a stored task is one record with *)
(* the status of the task, the status of its run ("none" before            *)
(* register_run), the outcome on the run's receipt ("none" without one) and *)
(* the number of its last event.  Goals, constraints, summaries and error  *)
(* texts are left out; the event log is abstracted to its length, which is *)
(* also the sequence number of its last event.                             *)
(***************************************************************************)
EXTENDS Integers

CONSTANTS
    Keys,           \* idempotency keys of start requests
    Projects,       \* registered local projects
    MaxEvents       \* MAX_EVENTS, the length limit of a record's event log

ASSUME MaxEventsAssumption == MaxEvents \in Nat

-----------------------------------------------------------------------------

TaskStatus == {"draft", "offered", "accepted", "running", "awaitingReview",
               "approved", "rejected", "cancelled", "failed", "outcomeUnknown"}

RunStatus == {"queued", "running", "waitingApproval", "completed",
              "cancelled", "failed", "outcomeUnknown"}

ReceiptOutcome == {"success", "failed", "cancelled", "outcomeUnknown"}

\* A Run that a worker or a starter still has to bring to an end.
ActiveRun == {"running", "waitingApproval"}

TerminalRun == {"completed", "cancelled", "failed", "outcomeUnknown"}

StoredTask ==
    [key : Keys, project : Projects, status : TaskStatus,
     run : RunStatus \cup {"none"}, receipt : ReceiptOutcome \cup {"none"},
     events : 0..MaxEvents]

(***************************************************************************)
(* The result of a state machine call that returned Err.  It has the shape *)
(* of a task, and no transition leaves it, so a chain of calls joined by ? *)
(* is a nesting of operators: the first refusal is the result of all.      *)
(***************************************************************************)
Refused(t) == [t EXCEPT !.status = "refused", !.run = "refused"]

IsRefused(t) == t.status = "refused"

NewTask(k, p) ==
    [key |-> k, project |-> p, status |-> "draft", run |-> "none",
     receipt |-> "none", events |-> 0]

valid_task_transition(from, to) ==
    <<from, to>> \in
        ({"draft"} \X {"offered", "cancelled"})
        \cup ({"offered"} \X {"accepted", "cancelled"})
        \cup ({"accepted"} \X {"running", "cancelled", "failed"})
        \cup ({"running"} \X {"awaitingReview", "cancelled", "failed", "outcomeUnknown"})
        \cup ({"awaitingReview"} \X {"approved", "rejected"})

valid_run_transition(from, to) ==
    <<from, to>> \in
        ({"queued"} \X {"running", "cancelled", "failed"})
        \cup ({"running"} \X (TerminalRun \cup {"waitingApproval"}))
        \cup ({"waitingApproval"} \X (TerminalRun \cup {"running"}))

\* ensure_event_capacity: the log has room for one more event.
HasEventCapacity(t) == t.events < MaxEvents

Transition(t, to) ==
    IF valid_task_transition(t.status, to) /\ HasEventCapacity(t)
    THEN [t EXCEPT !.status = to, !.events = @ + 1]
    ELSE Refused(t)

\* The first run of an accepted task; a second one has the same id (DuplicateRun).
AddRun(t) ==
    IF t.status = "accepted" /\ t.run = "none" /\ HasEventCapacity(t)
    THEN [t EXCEPT !.run = "queued", !.events = @ + 1]
    ELSE Refused(t)

MoveRun(t, to) ==
    IF valid_run_transition(t.run, to) /\ HasEventCapacity(t)
    THEN [t EXCEPT !.run = to, !.events = @ + 1]
    ELSE Refused(t)

\* finalize_run's table from the outcome on a receipt to the statuses it sets.
RunStatusFor(outcome) ==
    CASE outcome = "success"   -> "completed"
      [] outcome = "failed"    -> "failed"
      [] outcome = "cancelled" -> "cancelled"
      [] OTHER                 -> "outcomeUnknown"

TaskStatusFor(outcome) ==
    CASE outcome = "success"   -> "awaitingReview"
      [] outcome = "failed"    -> "failed"
      [] outcome = "cancelled" -> "cancelled"
      [] OTHER                 -> "outcomeUnknown"

\* A receipt is attached once, to a run whose terminal status is its outcome.
AttachReceipt(t, outcome) ==
    IF t.run = RunStatusFor(outcome) /\ t.receipt \in {"none", outcome}
    THEN [t EXCEPT !.receipt = outcome]
    ELSE Refused(t)
=============================================================================

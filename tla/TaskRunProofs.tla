--------------------------- MODULE TaskRunProofs ---------------------------
(***************************************************************************)
(* Proofs about local Task runs, for any number of keys, racing commands,  *)
(* failures, crashes and connections: every step uses the Task store as    *)
(* its specification allows, a request whose record is kept is executed at *)
(* most once, two turns of one run never execute at the same time, no work *)
(* is thrown away with a worktree, and the file holds no false verdict.    *)
(* After any crash the interrupted runs can be recorded as ended, unless   *)
(* the App Server itself sent too many notifications; and, while no task   *)
(* is dropped from the list, an active run has an owner, only a crash      *)
(* strands a queued run, and racing commands overshoot the limit on active *)
(* runs by less than their number.                                         *)
(***************************************************************************)
EXTENDS TaskRun, TaskServiceProofs, FiniteSetTheorems

\* The part of TypeOK the arguments below need.
RunTyped ==
    /\ call \in [Callers -> Call]
    /\ worker \in [Keys -> Worker]
    /\ connection \in Connections \cup {0}
    /\ turnsSent \in [Keys -> Nat]

LEMMA IdleTyped ==
    /\ Idle \in Call
    /\ NoWorker \in Worker
<1>1. (CHOOSE k \in Keys : TRUE) \in Keys /\ (CHOOSE p \in Projects : TRUE) \in Projects
  BY TaskRunAssumption
<1>2. "idle" \in CallPc /\ "failed" \in ReceiptOutcome
  BY DEF CallPc, ReceiptOutcome
<1>3. "none" \in WorkerPc /\ "outcomeUnknown" \in ReceiptOutcome
  BY DEF WorkerPc, ReceiptOutcome
<1>4. Idle \in Call
  BY <1>1, <1>2 DEF Idle, Call
<1>5. NoWorker \in Worker
  BY <1>3 DEF NoWorker, Worker
<1>6. QED
  BY <1>4, <1>5

-----------------------------------------------------------------------------
(***************************************************************************)
(* Most steps are quiet: no command enters the stretch between begin_run   *)
(* and the sending of turn/start, no turn/start is sent, and the store     *)
(* takes a step of its own that loses no task without counting it as       *)
(* evicted.                                                                *)
(***************************************************************************)
PreTurn == {"thread", "prepare", "turn"}

CallQuiet ==
    /\ call' \in [Callers -> Call]
    /\ \A c \in Callers :
          call'[c].pc \in PreTurn => call[c].pc \in PreTurn /\ call'[c].key = call[c].key

ServiceQuiet ==
    /\ [ServiceNext]_serviceVars
    /\ GoodStep
    /\ evicted \subseteq evicted'
    /\ \A k \in Keys \ evicted' : Has(disk, k) => Has(disk, k)'

Quiet ==
    /\ CallQuiet
    /\ ServiceQuiet
    /\ worker' \in [Keys -> Worker]
    /\ connection' \in Connections \cup {0}
    /\ turnsSent' = turnsSent

LEMMA CallTo ==
    ASSUME RunTyped, NEW c \in Callers, NEW r \in Call, call' = [call EXCEPT ![c] = r],
           r.pc \in PreTurn => call[c].pc \in PreTurn /\ r.key = call[c].key
    PROVE  CallQuiet
BY DEF RunTyped, CallQuiet

LEMMA CallSame == ASSUME RunTyped, UNCHANGED call PROVE CallQuiet
BY DEF RunTyped, CallQuiet

LEMMA GotoQuiet ==
    ASSUME RunTyped, NEW c \in Callers, NEW pc \in CallPc, Goto(c, pc),
           pc \in PreTurn => call[c].pc \in PreTurn
    PROVE  CallQuiet
<1> DEFINE r == [call[c] EXCEPT !.pc = pc]
<1>1. call[c] \in Call
  BY DEF RunTyped
<1>2. r \in Call /\ r.pc = pc /\ r.key = call[c].key
  BY <1>1 DEF Call
<1>3. call' = [call EXCEPT ![c] = r]
  BY DEF Goto
<1> HIDE DEF r
<1>4. QED
  BY <1>2, <1>3, CallTo

LEMMA FinishStartQuiet ==
    ASSUME RunTyped, NEW c \in Callers, NEW outcome \in ReceiptOutcome, FinishStart(c, outcome)
    PROVE  CallQuiet
<1> DEFINE r == [call[c] EXCEPT !.pc = "collect", !.outcome = outcome]
<1>1. call[c] \in Call /\ "collect" \in CallPc
  BY DEF RunTyped, CallPc
<1>2. r \in Call /\ r.pc = "collect"
  BY <1>1 DEF Call
<1>3. call' = [call EXCEPT ![c] = r]
  BY DEF FinishStart
<1> HIDE DEF r
<1>4. QED
  BY <1>2, <1>3, CallTo DEF PreTurn

LEMMA ReturnQuiet == ASSUME RunTyped, NEW c \in Callers, Return(c) PROVE CallQuiet
<1>1. Idle \in Call /\ Idle.pc = "idle"
  BY IdleTyped DEF Idle
<1>2. QED
  BY <1>1, CallTo DEF Return, PreTurn

LEMMA ServiceSame ==
    ASSUME ServiceInv, UNCHANGED serviceVars, UNCHANGED evicted
    PROVE  ServiceQuiet
BY CloseStep DEF ServiceQuiet, KeysKept

LEMMA ServiceTakes ==
    ASSUME ServiceNext, GoodStep, KeysKept, UNCHANGED evicted
    PROVE  ServiceQuiet
BY DEF ServiceQuiet, KeysKept

-----------------------------------------------------------------------------
(***************************************************************************)
(* The start command, one lemma per step.                                  *)
(***************************************************************************)
LEMMA CallTyped ==
    ASSUME RunTyped, NEW c \in Callers
    PROVE  /\ call[c] \in Call /\ KeyOf(c) \in Keys /\ call[c].project \in Projects
           /\ call[c].outcome \in ReceiptOutcome /\ call[c].connection \in Connections \cup {0}
           /\ call[c].thread \in Threads \cup {0} /\ call[c].stream \in Streams \cup {0}
<1>1. call[c] \in Call
  BY DEF RunTyped
<1>2. QED
  BY <1>1 DEF Call, KeyOf

LEMMA StartCommandQuiet ==
    ASSUME RunTyped, ServiceInv, NEW c \in Callers, NEW k \in Keys, NEW p \in Projects,
           StartCommand(c, k, p)
    PROVE  Quiet
<1> DEFINE r == [Idle EXCEPT !.pc = "create", !.key = k, !.project = p,
                             !.connection = connection]
<1>1. r \in Call /\ r.pc = "create"
  <2>1. Idle \in Call /\ connection \in Connections \cup {0} /\ "create" \in CallPc
    BY IdleTyped DEF RunTyped, CallPc
  <2>2. QED
    BY <2>1 DEF Call
<1>2. call' = [call EXCEPT ![c] = r]
  BY DEF StartCommand
<1> HIDE DEF r
<1>3. CallQuiet
  BY <1>1, <1>2, CallTo DEF PreTurn
<1>4. QED
  BY <1>3, ServiceSame DEF StartCommand, Quiet, RunTyped

LEMMA CreateQuiet ==
    ASSUME RunTyped, ServiceInv, NEW c \in Callers, Create(c)
    PROVE  Quiet
<1>1. KeyOf(c) \in Keys /\ call[c].project \in Projects
  BY CallTyped
<1>2. CallQuiet
  BY GotoQuiet, ReturnQuiet DEF Create, CallPc, PreTurn
<1>3. ServiceQuiet
  <2>1. CASE UNCHANGED serviceVars /\ UNCHANGED evicted
    BY <2>1, ServiceSame
  <2>2. CASE /\ CreateTask(KeyOf(c), call[c].project)
             /\ evicted' = evicted \cup {x \in Keys : Has(cache, x) /\ ~Has(cache', x)}
    <3>1. ServiceNext /\ GoodStep
      BY <1>1, <2>2, InsertStep DEF ServiceNext, Operation
    <3>2. cache = disk /\ cache' = disk'
      BY <2>2 DEF CreateTask, ServiceInv, Save
    <3>3. QED
      BY <2>2, <3>1, <3>2 DEF ServiceQuiet, Has
  <2>3. QED
    BY <2>1, <2>2 DEF Create
<1>4. QED
  BY <1>2, <1>3 DEF Create, Quiet, RunTyped

LEMMA AcceptQuiet ==
    ASSUME RunTyped, ServiceInv, NEW c \in Callers, Accept(c)
    PROVE  Quiet
<1>1. KeyOf(c) \in Keys /\ call[c].project \in Projects
  BY CallTyped
<1>2. CallQuiet
  BY GotoQuiet, ReturnQuiet DEF Accept, CallPc, PreTurn
<1>3. ServiceQuiet
  <2>1. CASE UNCHANGED serviceVars
    BY <2>1, ServiceSame DEF Accept
  <2>2. CASE AcceptTask(KeyOf(c), call[c].project)
    BY <1>1, <2>2, AcceptStep, ServiceTakes DEF Accept, ServiceNext, Operation
  <2>3. QED
    BY <2>1, <2>2 DEF Accept
<1>4. QED
  BY <1>2, <1>3 DEF Accept, Quiet, RunTyped

LEMMA RegisterQuiet ==
    ASSUME RunTyped, ServiceInv, NEW c \in Callers, Register(c)
    PROVE  Quiet
<1>1. KeyOf(c) \in Keys /\ call[c].project \in Projects
  BY CallTyped
<1>2. CallQuiet
  BY GotoQuiet, ReturnQuiet DEF Register, CallPc, PreTurn
<1>3. ServiceQuiet
  <2>1. CASE UNCHANGED serviceVars
    BY <2>1, ServiceSame DEF Register
  <2>2. CASE RegisterRun(KeyOf(c), call[c].project)
    BY <1>1, <2>2, RegisterStep, ServiceTakes DEF Register, ServiceNext, Operation
  <2>3. QED
    BY <2>1, <2>2 DEF Register
<1>4. QED
  BY <1>2, <1>3 DEF Register, Quiet, RunTyped

\* Steps that touch neither the store nor the worker.
LEMMA PlainStartQuiet ==
    ASSUME RunTyped, ServiceInv, NEW c \in Callers,
           Capacity(c) \/ Check(c) \/ Worktree(c) \/ CollectStart(c) \/ CleanupStart(c)
    PROVE  Quiet
<1>1. CallQuiet
  BY GotoQuiet, ReturnQuiet
     DEF Capacity, Check, Worktree, CollectStart, CleanupStart, CallPc, PreTurn
<1>2. UNCHANGED serviceVars /\ UNCHANGED evicted /\ UNCHANGED <<worker, connection, turnsSent>>
  BY DEF Capacity, Check, Worktree, CollectStart, CleanupStart
<1>3. QED
  BY <1>1, <1>2, ServiceSame DEF Quiet, RunTyped

LEMMA ThreadStartQuiet ==
    ASSUME RunTyped, ServiceInv, NEW c \in Callers, ThreadStart(c)
    PROVE  Quiet
<1>1. CASE /\ nextThread \in Threads
           /\ call' = [call EXCEPT ![c].pc = "prepare", ![c].thread = nextThread]
  <2> DEFINE r == [call[c] EXCEPT !.pc = "prepare", !.thread = nextThread]
  <2>1. r \in Call /\ r.key = call[c].key
    <3>1. call[c] \in Call /\ "prepare" \in CallPc
      BY CallTyped DEF CallPc
    <3>2. QED
      BY <1>1, <3>1 DEF Call
  <2>2. call' = [call EXCEPT ![c] = r]
    BY <1>1
  <2> HIDE DEF r
  <2>3. CallQuiet
    BY <2>1, <2>2, CallTo DEF ThreadStart, At, PreTurn
  <2>4. QED
    BY <2>3, ServiceSame DEF ThreadStart, Quiet, RunTyped
<1>2. CASE FinishStart(c, "failed")
  BY <1>2, FinishStartQuiet, ServiceSame DEF ThreadStart, Quiet, RunTyped, ReceiptOutcome
<1>3. QED
  BY <1>1, <1>2 DEF ThreadStart

LEMMA PrepareQuiet ==
    ASSUME RunTyped, ServiceInv, NEW c \in Callers, Prepare(c)
    PROVE  Quiet
<1>1. CASE /\ PrepareRun(call[c].connection, KeyOf(c), call[c].thread)
           /\ call' = [call EXCEPT ![c].pc = "turn", ![c].stream = nextRoute]
  <2> DEFINE r == [call[c] EXCEPT !.pc = "turn", !.stream = nextRoute]
  <2>1. r \in Call /\ r.key = call[c].key
    <3>1. call[c] \in Call /\ "turn" \in CallPc /\ nextRoute \in Streams
      BY <1>1, CallTyped DEF CallPc, PrepareRun
    <3>2. QED
      BY <3>1 DEF Call
  <2>2. call' = [call EXCEPT ![c] = r]
    BY <1>1
  <2> HIDE DEF r
  <2>3. CallQuiet
    BY <2>1, <2>2, CallTo DEF Prepare, At, PreTurn
  <2>4. QED
    BY <2>3, ServiceSame DEF Prepare, Quiet, RunTyped
<1>2. CASE FinishStart(c, "failed")
  BY <1>2, FinishStartQuiet, ServiceSame DEF Prepare, Quiet, RunTyped, ReceiptOutcome
<1>3. QED
  BY <1>1, <1>2 DEF Prepare

LEMMA AwaitBindQuiet ==
    ASSUME RunTyped, ServiceInv, NEW c \in Callers, Await(c) \/ Bind(c)
    PROVE  Quiet
<1>1. CallQuiet
  BY GotoQuiet, FinishStartQuiet DEF Await, Bind, CallPc, PreTurn, ReceiptOutcome
<1>2. UNCHANGED serviceVars /\ UNCHANGED evicted /\ UNCHANGED <<worker, connection, turnsSent>>
  BY DEF Await, Bind
<1>3. QED
  BY <1>1, <1>2, ServiceSame DEF Quiet, RunTyped

\* The entry spawn_active makes in the active map, at the head of its loop or
\* at finish_unknown.
LEMMA SpawnQuiet ==
    ASSUME RunTyped, ServiceInv, NEW c \in Callers, Spawn(c)
    PROVE  Quiet
<1> DEFINE k == KeyOf(c)
           new == [NoWorker EXCEPT !.pc = "loop", !.stream = call[c].stream,
                                   !.connection = call[c].connection]
           failing == [new EXCEPT !.pc = "collect", !.last = TRUE]
<1>1. k \in Keys /\ call[c].stream \in Streams \cup {0} /\ call[c].connection \in Connections \cup {0}
  BY CallTyped
<1>2. new \in Worker
  <2>1. NoWorker \in Worker /\ "loop" \in WorkerPc
    BY IdleTyped DEF WorkerPc
  <2>2. QED
    BY <1>1, <2>1 DEF Worker
<1>3. failing \in Worker
  <2>1. "collect" \in WorkerPc
    BY DEF WorkerPc
  <2> HIDE DEF new
  <2>2. QED
    BY <1>2, <2>1 DEF Worker
<1>4. worker' = worker \/ worker' = [worker EXCEPT ![k] = new]
         \/ worker' = [worker EXCEPT ![k] = failing]
  BY DEF Spawn
<1>5. worker' \in [Keys -> Worker]
  <2> HIDE DEF new, failing, k
  <2>1. QED
    BY <1>1, <1>2, <1>3, <1>4 DEF RunTyped
<1>6. QED
  BY <1>5, ReturnQuiet, ServiceSame DEF Spawn, Quiet, RunTyped

LEMMA FinalizeStartQuiet ==
    ASSUME RunTyped, ServiceInv, NEW c \in Callers, FinalizeStart(c)
    PROVE  Quiet
<1>1. KeyOf(c) \in Keys /\ call[c].outcome \in ReceiptOutcome
  BY CallTyped
<1>2. CallQuiet
  BY GotoQuiet, ReturnQuiet DEF FinalizeStart, CallPc, PreTurn
<1>3. ServiceQuiet
  <2>1. CASE UNCHANGED serviceVars
    BY <2>1, ServiceSame DEF FinalizeStart
  <2>2. CASE FinalizeRun(KeyOf(c), call[c].outcome)
    BY <1>1, <2>2, FinalizeStep, ServiceTakes DEF FinalizeStart, ServiceNext, Operation
  <2>3. QED
    BY <2>1, <2>2 DEF FinalizeStart
<1>4. QED
  BY <1>2, <1>3 DEF FinalizeStart, Quiet, RunTyped

-----------------------------------------------------------------------------
(***************************************************************************)
(* The worker and the stop command.                                        *)
(***************************************************************************)
LEMMA WorkerMoves ==
    ASSUME RunTyped, NEW k \in Keys, NEW pc \in WorkerPc, NEW outcome \in ReceiptOutcome
    PROVE  /\ WorkerGoto(k, pc) => worker' \in [Keys -> Worker]
           /\ Finish(k, outcome) => worker' \in [Keys -> Worker]
           /\ FinishUnknown(k) => worker' \in [Keys -> Worker]
           /\ GiveUp(k) => worker' \in [Keys -> Worker]
<1>1. worker[k] \in Worker
  BY DEF RunTyped
<1>2. {"collect", "abandon"} \subseteq WorkerPc /\ "outcomeUnknown" \in ReceiptOutcome
  BY DEF WorkerPc, ReceiptOutcome
<1>3. WorkerGoto(k, pc) => worker' \in [Keys -> Worker]
  <2>1. [worker[k] EXCEPT !.pc = pc] \in Worker
    BY <1>1 DEF Worker
  <2>2. QED
    BY <2>1 DEF WorkerGoto, RunTyped
<1>4. Finish(k, outcome) => worker' \in [Keys -> Worker]
  <2> DEFINE w == [worker[k] EXCEPT !.pc = "collect", !.outcome = outcome]
  <2>1. w \in Worker
    BY <1>1, <1>2 DEF Worker
  <2>2. Finish(k, outcome) => worker' = [worker EXCEPT ![k] = w]
    BY DEF Finish
  <2> HIDE DEF w
  <2>3. QED
    BY <2>1, <2>2 DEF RunTyped
<1>5. FinishUnknown(k) => worker' \in [Keys -> Worker]
  <2> DEFINE w == [worker[k] EXCEPT !.pc = "collect", !.outcome = "outcomeUnknown", !.last = TRUE]
  <2>1. w \in Worker
    BY <1>1, <1>2 DEF Worker
  <2>2. FinishUnknown(k) => worker' = [worker EXCEPT ![k] = w]
    BY DEF FinishUnknown
  <2> HIDE DEF w
  <2>3. QED
    BY <2>1, <2>2 DEF RunTyped
<1>6. WorkerGoto(k, "abandon") => worker' \in [Keys -> Worker]
  <2>1. [worker[k] EXCEPT !.pc = "abandon"] \in Worker
    BY <1>1, <1>2 DEF Worker
  <2>2. QED
    BY <2>1 DEF WorkerGoto, RunTyped
<1>7. QED
  BY <1>3, <1>4, <1>5, <1>6 DEF GiveUp

\* Steps of a worker that leave the store alone.
LEMMA PlainWorkerQuiet ==
    ASSUME RunTyped, ServiceInv, NEW k \in Keys,
           CheckActive(k) \/ Collect(k) \/ CleanupRun(k)
    PROVE  Quiet
<1>1. worker' \in [Keys -> Worker]
  BY WorkerMoves DEF CheckActive, Collect, CleanupRun, WorkerPc, ReceiptOutcome
<1>2. UNCHANGED serviceVars /\ UNCHANGED evicted /\ UNCHANGED <<call, connection, turnsSent>>
  BY DEF CheckActive, Collect, CleanupRun
<1>3. QED
  BY <1>1, <1>2, CallSame, ServiceSame DEF Quiet, RunTyped

LEMMA StopQuiet ==
    ASSUME RunTyped, ServiceInv, NEW k \in Keys, Stop(k) \/ Interrupt(k) \/ Remove(k)
    PROVE  Quiet
<1>1. worker' \in [Keys -> Worker]
  <2>1. worker[k] \in Worker /\ NoWorker \in Worker
    BY IdleTyped DEF RunTyped
  <2>2. [worker[k] EXCEPT !.stop = TRUE] \in Worker /\ [worker[k] EXCEPT !.interrupted = TRUE] \in Worker
    BY <2>1 DEF Worker
  <2>3. QED
    BY <2>1, <2>2, WorkerMoves DEF Stop, Interrupt, Remove, RunTyped, WorkerPc, ReceiptOutcome
<1>2. UNCHANGED serviceVars /\ UNCHANGED evicted /\ UNCHANGED <<call, connection, turnsSent>>
  BY DEF Stop, Interrupt, Remove
<1>3. QED
  BY <1>1, <1>2, CallSame, ServiceSame DEF Quiet, RunTyped

LEMMA PollQuiet ==
    ASSUME RunTyped, ServiceInv, NEW k \in Keys, Poll(k)
    PROVE  Quiet
<1>1. UNCHANGED evicted /\ UNCHANGED <<call, connection, turnsSent>>
  BY DEF Poll
<1> DEFINE event == queue[worker[k].stream].events[1]
<1>2. \/ WorkerGoto(k, "check") /\ UNCHANGED serviceVars
      \/ event \in {"running", "waitingApproval"} /\ Observe(k, event)
      \/ Finish(k, OutcomeOf(event)) /\ UNCHANGED serviceVars
  BY DEF Poll
<1>3. OutcomeOf(event) \in ReceiptOutcome
  BY DEF OutcomeOf, ReceiptOutcome
<1> HIDE DEF event
<1>4. worker' \in [Keys -> Worker]
  <2>1. {"check", "loop"} \subseteq WorkerPc /\ "failed" \in ReceiptOutcome
    BY DEF WorkerPc, ReceiptOutcome
  <2>2. QED
    BY <1>2, <1>3, <2>1, WorkerMoves DEF Observe
<1>5. UNCHANGED serviceVars \/ (event \in ActiveRun /\ PollTransition(k, event))
  BY <1>2 DEF Observe, ActiveRun
<1>6. ServiceQuiet
  <2>1. CASE UNCHANGED serviceVars
    BY <1>1, <2>1, ServiceSame
  <2>2. CASE event \in ActiveRun /\ PollTransition(k, event)
    BY <1>1, <2>2, PollStep, ServiceTakes DEF ServiceNext, Operation
  <2>3. QED
    BY <1>5, <2>1, <2>2
<1>7. QED
  BY <1>1, <1>4, <1>6, CallSame DEF Quiet, RunTyped

LEMMA FinalizeQuiet ==
    ASSUME RunTyped, ServiceInv, NEW k \in Keys, Finalize(k)
    PROVE  Quiet
<1>1. UNCHANGED evicted /\ UNCHANGED <<call, connection, turnsSent>>
  BY DEF Finalize
<1>2. worker[k].outcome \in ReceiptOutcome
  BY DEF RunTyped, Worker
<1>3. worker' \in [Keys -> Worker]
  BY <1>2, WorkerMoves DEF Finalize, WorkerPc
<1>4. ServiceQuiet
  <2>1. CASE UNCHANGED serviceVars
    BY <1>1, <2>1, ServiceSame
  <2>2. CASE FinalizeRun(k, worker[k].outcome)
    BY <1>1, <1>2, <2>2, FinalizeStep, ServiceTakes DEF ServiceNext, Operation
  <2>3. QED
    BY <2>1, <2>2 DEF Finalize
<1>5. QED
  BY <1>1, <1>3, <1>4, CallSame DEF Quiet, RunTyped

LEMMA AbandonQuiet ==
    ASSUME RunTyped, ServiceInv, NEW k \in Keys, Abandon(k)
    PROVE  Quiet
<1>1. UNCHANGED evicted /\ UNCHANGED <<call, connection, turnsSent>>
  BY DEF Abandon
<1>2. worker' \in [Keys -> Worker]
  BY WorkerMoves DEF Abandon, WorkerPc, ReceiptOutcome
<1>3. ServiceQuiet
  <2>1. CASE UNCHANGED serviceVars
    BY <1>1, <2>1, ServiceSame
  <2>2. CASE AbandonRun(k)
    BY <1>1, <2>2, AbandonStep, ServiceTakes DEF ServiceNext, Operation
  <2>3. QED
    BY <2>1, <2>2 DEF Abandon
<1>4. QED
  BY <1>1, <1>2, <1>3, CallSame DEF Quiet, RunTyped

-----------------------------------------------------------------------------
(***************************************************************************)
(* The App Server, its connection, and the life of the process.            *)
(***************************************************************************)
LEMMA ServerQuiet ==
    ASSUME RunTyped, ServiceInv,
           \/ Disconnect \/ Connect \/ UNCHANGED vars
           \/ \E h \in Threads :
                 \/ TurnStarts(h)
                 \/ \E kind \in {"running", "waitingApproval"} : TurnNotifies(h, kind)
                 \/ \E kind \in TerminalEvent : TurnEnds(h, kind)
    PROVE  Quiet
<1>1. /\ UNCHANGED serviceVars /\ UNCHANGED evicted /\ UNCHANGED <<call, worker, turnsSent>>
      /\ connection' = connection \/ connection' \in Connections
  BY DEF Disconnect, Connect, TurnStarts, TurnNotifies, TurnEnds, vars, runVars
<1>2. QED
  BY <1>1, CallSame, ServiceSame DEF Quiet, RunTyped

LEMMA StartupQuiet == ASSUME RunTyped, ServiceInv, Startup PROVE Quiet
<1>1. UNCHANGED evicted /\ UNCHANGED <<call, worker, connection, turnsSent>> /\ ServiceNext
  BY DEF Startup, runVars, ServiceNext, Operation
<1>2. ServiceQuiet
  BY <1>1, OpenStep, ServiceTakes DEF Startup
<1>3. QED
  BY <1>1, <1>2, CallSame DEF Quiet, RunTyped

LEMMA CrashQuiet == ASSUME RunTyped, ServiceInv, Crash PROVE Quiet
<1>1. UNCHANGED evicted /\ UNCHANGED <<connection, turnsSent>> /\ ServiceNext
  BY DEF Crash, ServiceNext, Operation
<1>2. ServiceQuiet
  BY <1>1, CloseStep, ServiceTakes DEF Crash
<1>3. CallQuiet
  <2>1. Idle \in Call /\ Idle.pc = "idle"
    BY IdleTyped DEF Idle
  <2>2. QED
    BY <2>1 DEF Crash, CallQuiet, PreTurn
<1>4. worker' \in [Keys -> Worker]
  BY IdleTyped DEF Crash
<1>5. QED
  BY <1>1, <1>2, <1>3, <1>4 DEF Quiet, RunTyped

-----------------------------------------------------------------------------
(***************************************************************************)
(* The inductive invariant of AtMostOneTurn.  begin_run is the claim: it   *)
(* succeeds only on a queued run, and no step takes a run back to the      *)
(* queue while its record is kept.  So of a key that was never evicted at  *)
(* most one command is past the claim, it has sent nothing yet, and once   *)
(* turn/start was sent the record says that the run has begun.             *)
(***************************************************************************)
HasBegun(k) == Has(disk, k) /\ Lookup(disk, k).run \notin {"none", "queued"}

Claims(c, k) == call[c].pc \in PreTurn /\ call[c].key = k

ClaimInv ==
    \A k \in Keys \ evicted :
        /\ turnsSent[k] <= 1
        /\ turnsSent[k] # 0 => HasBegun(k)
        /\ \A c \in Callers : Claims(c, k) => turnsSent[k] = 0 /\ HasBegun(k)
        /\ \A c, d \in Callers : Claims(c, k) /\ Claims(d, k) => c = d

RunInv == RunTyped /\ ServiceInv /\ ClaimInv

LEMMA LookupStored ==
    ASSUME ServiceInv, NEW k, Has(disk, k)
    PROVE  \E i \in DOMAIN disk : disk[i] = Lookup(disk, k) /\ disk[i].key = k
BY PositionFound

\* A begun run stays begun while its record is kept.
LEMMA BegunStays ==
    ASSUME ServiceInv, ServiceQuiet, NEW k \in Keys \ evicted', HasBegun(k)
    PROVE  HasBegun(k)'
<1>1. Has(disk, k) /\ Has(disk', k) /\ HistoryKept(disk, disk') /\ ServiceInv'
  BY DEF ServiceQuiet, HasBegun, GoodStep, Has
<1>2. PICK i \in DOMAIN disk : disk[i] = Lookup(disk, k) /\ disk[i].key = k
  BY <1>1, LookupStored
<1>3. PICK j \in DOMAIN disk' : disk'[j] = Lookup(disk', k) /\ disk'[j].key = k
  BY <1>1, PositionFound
<1>4. disk'[j].run \notin {"none", "queued"}
  BY <1>1, <1>2, <1>3 DEF HistoryKept, HasBegun
<1>5. QED
  BY <1>1, <1>3, <1>4 DEF HasBegun, Has, Lookup, Position

LEMMA QuietKeeps == ASSUME RunInv, Quiet PROVE RunInv'
<1>1. RunTyped' /\ ServiceInv'
  BY DEF RunInv, RunTyped, Quiet, CallQuiet, ServiceQuiet, GoodStep
<1>2. ClaimInv'
  <2> SUFFICES ASSUME NEW k \in Keys \ evicted'
               PROVE  /\ turnsSent[k] <= 1
                      /\ turnsSent[k] # 0 => HasBegun(k)'
                      /\ \A c \in Callers : Claims(c, k)' => turnsSent[k] = 0 /\ HasBegun(k)'
                      /\ \A c, d \in Callers : Claims(c, k)' /\ Claims(d, k)' => c = d
    BY DEF ClaimInv, Quiet
  <2>1. k \in Keys \ evicted /\ (HasBegun(k) => HasBegun(k)')
    BY BegunStays DEF RunInv, Quiet, ServiceQuiet
  <2>2. \A c \in Callers : Claims(c, k)' => Claims(c, k)
    BY DEF Claims, Quiet, CallQuiet
  <2>3. QED
    BY <2>1, <2>2 DEF RunInv, ClaimInv
<1>3. QED
  BY <1>1, <1>2 DEF RunInv

\* begin_run claims a run that had not begun, and records the claim.
LEMMA BeginClaims ==
    ASSUME ServiceInv, NEW k, BeginRun(k)
    PROVE  ~HasBegun(k) /\ HasBegun(k)'
<1> DEFINE p == Position(disk, k)
           t == Begun(disk[p])
<1>1. cache = disk /\ disk \in Seq(StoredTask) /\ Has(disk, k)
  BY DEF BeginRun, Stored, ServiceInv, ServiceTypeOK, TaskList
<1>2. p \in DOMAIN disk /\ TaskOf(k) = disk[p] /\ Lookup(disk, k) = disk[p] /\ disk[p].key = k
  BY <1>1, PositionFound DEF TaskOf
<1>3. TaskOK(disk[p]) /\ disk[p].run = "queued"
  BY <1>2 DEF ServiceInv, BeginRun
<1>4. ~IsRefused(t) /\ disk' = [disk EXCEPT ![p] = t]
  BY <1>1, <1>2 DEF BeginRun, Update, Save, Replaced
<1>5. t.run = "running" /\ t.key = k
  BY <1>2, <1>3, <1>4, BegunAdvances DEF Advances, Continues
<1> HIDE DEF t, p
<1>6. p \in DOMAIN disk' /\ disk'[p] = t
  BY <1>2, <1>4
<1>7. KeysUnique'
  BY BeginStep DEF GoodStep, ServiceInv
<1>8. Has(disk', k) /\ Lookup(disk', k) = t
  <2>1. Has(disk', k)
    BY <1>5, <1>6 DEF Has
  <2>2. Position(disk', k) \in DOMAIN disk' /\ disk'[Position(disk', k)].key = k
    BY <2>1, PositionFound
  <2>3. Position(disk', k) = p
    BY <1>5, <1>6, <1>7, <2>2 DEF KeysUnique
  <2>4. QED
    BY <1>6, <2>1, <2>3 DEF Lookup
<1>9. HasBegun(k)'
  BY <1>5, <1>8 DEF HasBegun, Has, Lookup, Position
<1>10. QED
  BY <1>2, <1>3, <1>9 DEF HasBegun

LEMMA BeginKeeps ==
    ASSUME RunInv, NEW c \in Callers, BeginRunStep(c)
    PROVE  RunInv' /\ ServiceQuiet
<1>1. PICK k \in Keys : call[c] \in Call /\ call[c].key = k /\ KeyOf(c) = k
  BY CallTyped DEF RunInv, KeyOf
<1>2. CASE UNCHANGED serviceVars
  <2>1. Return(c) \/ BeginRun(k)
    BY <1>1 DEF BeginRunStep
  <2>2. CASE BeginRun(k)
    <3>1. FALSE
      BY <1>2, <2>2, BeginClaims DEF serviceVars, HasBegun, RunInv
    <3>2. QED
      BY <3>1
  <2>3. CASE Return(c)
    <3>1. Quiet
      BY <1>2, <2>3, ReturnQuiet, ServiceSame DEF BeginRunStep, Quiet, RunInv, RunTyped
    <3>2. QED
      BY <3>1, QuietKeeps DEF Quiet
  <2>4. QED
    BY <2>1, <2>2, <2>3
<1>3. CASE BeginRun(k) /\ Goto(c, "thread")
  <2>1. ServiceNext /\ ServiceQuiet
    BY <1>1, <1>3, BeginStep, ServiceTakes DEF ServiceNext, Operation, BeginRunStep, RunInv
  <2>2. UNCHANGED <<worker, connection, turnsSent, evicted>>
    BY DEF BeginRunStep
  <2> DEFINE r == [call[c] EXCEPT !.pc = "thread"]
  <2>3. r \in Call /\ r.pc = "thread" /\ r.key = k
    <3>1. "thread" \in CallPc
      BY DEF CallPc
    <3>2. QED
      BY <1>1, <3>1 DEF Call
  <2>4. call' = [call EXCEPT ![c] = r]
    BY <1>3 DEF Goto
  <2> HIDE DEF r
  <2>5. call' \in [Callers -> Call] /\ call'[c] = r /\ \A d \in Callers : d # c => call'[d] = call[d]
    BY <2>3, <2>4 DEF RunInv, RunTyped
  <2>6. RunTyped' /\ ServiceInv'
    BY <2>1, <2>2, <2>5 DEF RunInv, RunTyped, ServiceQuiet, GoodStep
  <2>7. ~HasBegun(k) /\ HasBegun(k)'
    BY <1>3, BeginClaims DEF RunInv
  <2>8. ClaimInv'
    <3> SUFFICES ASSUME NEW x \in Keys \ evicted
                 PROVE  /\ turnsSent[x] <= 1
                        /\ turnsSent[x] # 0 => HasBegun(x)'
                        /\ \A d \in Callers : Claims(d, x)' => turnsSent[x] = 0 /\ HasBegun(x)'
                        /\ \A d, e \in Callers : Claims(d, x)' /\ Claims(e, x)' => d = e
      BY <2>2 DEF ClaimInv
    <3>1. HasBegun(x) => HasBegun(x)'
      BY <2>1, <2>2, BegunStays DEF RunInv
    <3>2. \A d \in Callers : Claims(d, x)' => Claims(d, x) \/ (d = c /\ x = k)
      BY <2>3, <2>5 DEF Claims
    <3>3. CASE x = k
      BY <2>7, <3>2, <3>3 DEF RunInv, ClaimInv
    <3>4. CASE x # k
      BY <3>1, <3>2, <3>4 DEF RunInv, ClaimInv
    <3>5. QED
      BY <3>3, <3>4
  <2>9. QED
    BY <2>1, <2>6, <2>8 DEF RunInv
<1>4. QED
  BY <1>1, <1>2, <1>3 DEF BeginRunStep

LEMMA TurnStartKeeps ==
    ASSUME RunInv, NEW c \in Callers, TurnStart(c)
    PROVE  RunInv' /\ ServiceQuiet
<1> DEFINE k == KeyOf(c)
<1>1. k \in Keys /\ call[c] \in Call /\ call[c].key = k
  BY CallTyped DEF RunInv, KeyOf
<1>2. UNCHANGED serviceVars /\ UNCHANGED <<worker, connection, evicted>> /\ Claims(c, k)
  BY <1>1 DEF TurnStart, At, Claims, PreTurn
<1>3. CallQuiet /\ call'[c].pc \notin PreTurn
  <2>1. \/ Goto(c, "await")
        \/ FinishStart(c, "failed")
        \/ FinishStart(c, "outcomeUnknown")
    BY DEF TurnStart
  <2>2. CASE Goto(c, "await")
    <3>1. CallQuiet
      BY <2>2, GotoQuiet DEF RunInv, CallPc, PreTurn
    <3>2. call'[c].pc = "await"
      BY <1>1, <2>2 DEF Goto, RunInv, RunTyped, Call
    <3>3. QED
      BY <3>1, <3>2 DEF PreTurn
  <2>3. CASE \E o \in ReceiptOutcome : FinishStart(c, o)
    <3>1. PICK o \in ReceiptOutcome : FinishStart(c, o)
      BY <2>3
    <3>2. CallQuiet
      BY <3>1, FinishStartQuiet DEF RunInv
    <3>3. call'[c].pc = "collect"
      BY <1>1, <3>1 DEF FinishStart, RunInv, RunTyped, Call
    <3>4. QED
      BY <3>2, <3>3 DEF PreTurn
  <2>4. QED
    BY <2>1, <2>2, <2>3 DEF ReceiptOutcome
<1>4. CASE UNCHANGED turnsSent
  <2>1. Quiet
    BY <1>2, <1>3, <1>4, ServiceSame DEF Quiet, RunInv, RunTyped
  <2>2. QED
    BY <2>1, QuietKeeps DEF Quiet
<1>5. CASE turnsSent' = [turnsSent EXCEPT ![k] = @ + 1]
  <2> HIDE DEF k
  <2>1. /\ turnsSent' \in [Keys -> Nat] /\ turnsSent'[k] = turnsSent[k] + 1
        /\ \A x \in Keys : x # k => turnsSent'[x] = turnsSent[x]
    BY <1>1, <1>5 DEF RunInv, RunTyped
  <2>2. ServiceQuiet
    BY <1>2, ServiceSame DEF RunInv
  <2>3. RunTyped' /\ ServiceInv'
    BY <1>2, <1>3, <2>1, <2>2 DEF RunInv, RunTyped, CallQuiet, ServiceQuiet, GoodStep
  <2>4. ClaimInv'
    <3> SUFFICES ASSUME NEW x \in Keys \ evicted
                 PROVE  /\ turnsSent'[x] <= 1
                        /\ turnsSent'[x] # 0 => HasBegun(x)'
                        /\ \A d \in Callers : Claims(d, x)' => turnsSent'[x] = 0 /\ HasBegun(x)'
                        /\ \A d, e \in Callers : Claims(d, x)' /\ Claims(e, x)' => d = e
      BY <1>2 DEF ClaimInv
    <3>1. HasBegun(x) => HasBegun(x)'
      BY <1>2, <2>2, BegunStays DEF RunInv
    <3>2. \A d \in Callers : Claims(d, x)' => Claims(d, x) /\ d # c
      BY <1>3 DEF Claims, CallQuiet
    <3>3. CASE x = k
      <4>1. turnsSent[k] = 0 /\ HasBegun(k) /\ \A d \in Callers : Claims(d, k) => d = c
        BY <1>2, <3>3 DEF RunInv, ClaimInv
      <4>2. QED
        BY <2>1, <3>1, <3>2, <3>3, <4>1
    <3>4. CASE x # k
      BY <2>1, <3>1, <3>2, <3>4 DEF RunInv, ClaimInv
    <3>5. QED
      BY <3>3, <3>4
  <2>5. QED
    BY <2>2, <2>3, <2>4 DEF RunInv
<1>6. QED
  BY <1>4, <1>5 DEF TurnStart, SendTurn

-----------------------------------------------------------------------------

LEMMA RunInitInv == Init => RunInv
<1> SUFFICES ASSUME Init PROVE RunInv
  OBVIOUS
<1>1. RunTyped
  BY IdleTyped DEF Init, RunTyped
<1>2. ServiceInv
  BY InitInv DEF Init
<1>3. ClaimInv
  <2>1. Idle.pc = "idle"
    BY DEF Idle
  <2>2. \A c \in Callers : call[c].pc \notin PreTurn
    BY <2>1 DEF Init, PreTurn
  <2>3. \A k \in Keys : turnsSent[k] = 0
    BY DEF Init
  <2>4. ASSUME NEW k \in Keys PROVE turnsSent[k] <= 1
    BY <2>3
  <2>5. QED
    BY <2>2, <2>3, <2>4 DEF ClaimInv, Claims
<1>4. QED
  BY <1>1, <1>2, <1>3 DEF RunInv

LEMMA RunStep ==
    ASSUME RunInv, [Next]_vars
    PROVE  RunInv' /\ ServiceQuiet
<1>1. ASSUME Quiet PROVE RunInv' /\ ServiceQuiet
  BY <1>1, QuietKeeps DEF Quiet
<1>2. RunTyped /\ ServiceInv
  BY DEF RunInv
<1>3. ASSUME NEW c \in Callers, StartStep(c)
      PROVE  RunInv' /\ ServiceQuiet
  <2>1. CASE BeginRunStep(c)
    BY <2>1, BeginKeeps
  <2>2. CASE TurnStart(c)
    BY <2>2, TurnStartKeeps
  <2>3. CASE Create(c) \/ Accept(c) \/ Register(c)
    BY <1>1, <1>2, <2>3, CreateQuiet, AcceptQuiet, RegisterQuiet
  <2>4. CASE Capacity(c) \/ Check(c) \/ Worktree(c) \/ CollectStart(c) \/ CleanupStart(c)
    BY <1>1, <1>2, <2>4, PlainStartQuiet
  <2>5. CASE ThreadStart(c) \/ Prepare(c)
    BY <1>1, <1>2, <2>5, ThreadStartQuiet, PrepareQuiet
  <2>6. CASE Await(c) \/ Bind(c)
    BY <1>1, <1>2, <2>6, AwaitBindQuiet
  <2>7. CASE Spawn(c) \/ FinalizeStart(c)
    BY <1>1, <1>2, <2>7, SpawnQuiet, FinalizeStartQuiet
  <2>8. QED
    BY <1>3, <2>1, <2>2, <2>3, <2>4, <2>5, <2>6, <2>7 DEF StartStep
<1>4. ASSUME NEW c \in Callers, NEW k \in Keys, NEW p \in Projects, StartCommand(c, k, p)
      PROVE  RunInv' /\ ServiceQuiet
  BY <1>1, <1>2, <1>4, StartCommandQuiet
<1>5. ASSUME NEW k \in Keys, Stop(k) \/ WorkerStep(k)
      PROVE  RunInv' /\ ServiceQuiet
  <2>1. CASE Stop(k) \/ Interrupt(k) \/ Remove(k)
    BY <1>1, <1>2, <2>1, StopQuiet
  <2>2. CASE Poll(k) \/ Finalize(k) \/ Abandon(k)
    BY <1>1, <1>2, <2>2, PollQuiet, FinalizeQuiet, AbandonQuiet
  <2>3. CASE CheckActive(k) \/ Collect(k) \/ CleanupRun(k)
    BY <1>1, <1>2, <2>3, PlainWorkerQuiet
  <2>4. QED
    BY <1>5, <2>1, <2>2, <2>3 DEF WorkerStep
<1>6. CASE Startup \/ Crash
  BY <1>1, <1>2, <1>6, StartupQuiet, CrashQuiet
<1>7. CASE \/ Disconnect \/ Connect \/ UNCHANGED vars
           \/ \E h \in Threads :
                 \/ TurnStarts(h)
                 \/ \E kind \in {"running", "waitingApproval"} : TurnNotifies(h, kind)
                 \/ \E kind \in TerminalEvent : TurnEnds(h, kind)
  BY <1>1, <1>2, <1>7, ServerQuiet
<1>8. QED
  BY <1>3, <1>4, <1>5, <1>6, <1>7 DEF Next

(***************************************************************************)
(* The commands and workers use the Task store as its specification        *)
(* allows: whatever races, fails or crashes, every step of theirs is a     *)
(* step of ServiceSpec or leaves the store alone.                          *)
(***************************************************************************)
THEOREM RunsImplementService == Spec => ServiceSpec
<1>1. Init => ServiceInit
  BY DEF Init
<1>2. RunInv /\ [Next]_vars => RunInv' /\ [ServiceNext]_serviceVars
  BY RunStep DEF ServiceQuiet
<1>3. QED
  BY <1>1, <1>2, RunInitInv, PTL DEF Spec, ServiceSpec

(***************************************************************************)
(* A request whose record the store keeps is executed at most once: two    *)
(* windows, repeated commands, failed saves, crashes between any two steps *)
(* and restarts never make LocalCodexRunService::start send a second       *)
(* turn/start for it.                                                      *)
(***************************************************************************)
THEOREM TurnSentAtMostOnce == Spec => []AtMostOneTurn
<1>1. RunInv => AtMostOneTurn
  BY DEF RunInv, ClaimInv, AtMostOneTurn
<1>2. RunInv /\ [Next]_vars => RunInv'
  BY RunStep
<1>3. QED
  BY <1>1, <1>2, RunInitInv, PTL DEF Spec

-----------------------------------------------------------------------------
(***************************************************************************)
(* Who holds a run.  TaskWorktreeManager::create succeeds for one command  *)
(* only, so the worktree is a lock: the command that made it, or the       *)
(* worker it handed the run to, is the only one that works on that key     *)
(* until it has let the worktree go or left it behind.                     *)
(***************************************************************************)
HoldPc == {"begin"} \cup Owning \cup {"cleanup"}

WorkerHoldPc == WorkerPc \ {"none", "remove"}

Holding(c, k) == call[c].key = k /\ call[c].pc \in HoldPc

WorkerHolds(k) == worker[k].pc \in WorkerHoldPc

HoldersGood ==
    \A k \in Keys :
        /\ \A c, d \in Callers : Holding(c, k) /\ Holding(d, k) => c = d
        /\ \A c \in Callers : Holding(c, k) => k \in worktrees /\ ~WorkerHolds(k)
        /\ WorkerHolds(k) => k \in worktrees

Live(h) == server[h].phase \in {"accepted", "running"}

\* No turn of k executes, or only that of thread h.
NoLive(k) == \A x \in Threads : server[x].key = k => ~Live(x)

OnlyLive(k, h) == \A x \in Threads : server[x].key = k /\ Live(x) => x = h

InQueue(events, e) == \E i \in DOMAIN events : events[i] = e

\* Stream s carries the turn of thread h for k, and no end of it but the true one.
Carries(s, h, k) ==
    /\ s \in Streams /\ s < nextRoute /\ h \in Threads /\ h < nextThread
    /\ server[h].key = k
    /\ \A r \in routes : r.id = s => r.thread = h
    /\ \A e \in TerminalEvent :
          InQueue(queue[s].events, e) => server[h].phase = "over" /\ server[h].end = e

\* What a command at b that holds its run knows of the turns of that run.
CommandKnows(b) ==
    /\ b.pc # "idle" => b.connection \in Connections
    /\ b.pc \in {"begin"} \cup PreTurn => NoLive(b.key)
    /\ b.pc \in {"prepare", "turn"} =>
          /\ b.thread \in Threads /\ b.thread < nextThread
          /\ server[b.thread].key = b.key /\ server[b.thread].phase = "idle"
    /\ b.pc \in {"turn", "await", "bind", "spawn"} => Carries(b.stream, b.thread, b.key)
    /\ b.pc \in {"await", "bind", "spawn"} => OnlyLive(b.key, b.thread)
    /\ b.pc \in {"collect", "finalize", "cleanup"} =>
          b.outcome = "outcomeUnknown" \/ (b.outcome = "failed" /\ NoLive(b.key))

\* The App Server reported the end of a turn of k that has this outcome.
Reported(k, outcome) == \E kind \in TerminalEvent : OutcomeOf(kind) = outcome /\ Ended(k, kind)

\* What the worker of k knows when it is at w.
WorkerKnows(k, w) ==
    /\ w.pc \in {"loop", "check"} => \E h \in Threads : Carries(w.stream, h, k) /\ OnlyLive(k, h)
    /\ w.pc \in {"collect", "finalize", "cleanup"} =>
          w.outcome = "outcomeUnknown" \/ (Reported(k, w.outcome) /\ NoLive(k))

\* Threads are made in order, and an end is recorded when a turn is over.
ServerGood ==
    /\ \A h \in Threads : h >= nextThread => server[h] = NoThread
    /\ \A h \in Threads : server[h].end # "none" => server[h].phase = "over"
    /\ up => connection \in Connections
    /\ \A r \in routes : r.id < nextRoute
    /\ OneLiveTurn /\ LiveTurnHasWorktree

TurnsInv ==
    /\ ServerGood
    /\ \A c \in Callers : CommandKnows(call[c])
    /\ \A k \in Keys : WorkerKnows(k, worker[k])

(***************************************************************************)
(* What the file says of a run, for a key that was never dropped.          *)
(***************************************************************************)
KnownReceipt(k) ==
    Has(disk, k) /\ Lookup(disk, k).receipt \in {"success", "failed", "cancelled"}

CommandRecord(b) ==
    b.key \notin evicted =>
        /\ b.pc \in PreTurn => ~(Has(disk, b.key) /\ Lookup(disk, b.key).run = "failed")
        /\ b.pc \in {"collect", "finalize"} /\ b.outcome = "failed" => ~TakenUp(b.key)
        /\ b.pc = "begin" /\ TakenUp(b.key) => KnownReceipt(b.key)
        /\ b.pc = "cleanup" => Has(disk, b.key) /\ Lookup(disk, b.key).receipt = b.outcome

WorkerRecord(k, w) ==
    k \notin evicted /\ w.pc = "cleanup" => Has(disk, k) /\ Lookup(disk, k).receipt = w.outcome

RecordsInv ==
    /\ \A k \in Keys : TakenUp(k) => turnsSent[k] # 0
    /\ \A c \in Callers : CommandRecord(call[c])
    /\ \A k \in Keys : WorkerRecord(k, worker[k])
    /\ VerdictIsHonest /\ EvidenceKept

SideTyped ==
    /\ RouterTypeOK
    /\ worktrees \subseteq Keys
    /\ server \in [Threads -> Turn]
    /\ nextThread \in 1..MaxStreams + 1
    /\ up \in BOOLEAN
    /\ evicted \subseteq Keys

HoldInv == RunInv /\ SideTyped /\ HoldersGood /\ TurnsInv /\ RecordsInv

-----------------------------------------------------------------------------
(***************************************************************************)
(* The record of a run.  A verdict enters the file by finalize_run only,   *)
(* and once it is there it stays.                                          *)
(***************************************************************************)
Verdict == {"completed", "failed", "cancelled"}

NoNewVerdict ==
    \A j \in DOMAIN disk' : disk'[j].run \in Verdict => \E i \in DOMAIN disk : disk[i] = disk'[j]

LEMMA StoredOK ==
    ASSUME ServiceInv, loaded, NEW k, Stored(k)
    PROVE  TaskOK(TaskOf(k)) /\ TaskOf(k) = Lookup(disk, k) /\ Has(disk, k)
BY PositionFound DEF ServiceInv, Stored, TaskOf

LEMMA UpdateNoVerdict ==
    ASSUME ServiceInv, loaded, NEW k, Stored(k), NEW t, Update(k, t),
           TaskOK(TaskOf(k)) /\ ~IsRefused(t) => t.run \notin Verdict
    PROVE  NoNewVerdict
<1> DEFINE p == Position(disk, k)
<1>1. cache = disk /\ disk' = [disk EXCEPT ![p] = t]
  BY DEF ServiceInv, Update, Save, Replaced
<1> HIDE DEF p
<1>2. DOMAIN disk' = DOMAIN disk /\ \A j \in DOMAIN disk : disk'[j] = IF j = p THEN t ELSE disk[j]
  BY <1>1
<1>3. t.run \notin Verdict
  BY StoredOK DEF Update
<1>4. QED
  BY <1>2, <1>3 DEF NoNewVerdict

LEMMA UpdatesNoVerdict ==
    ASSUME ServiceInv, NEW k,
           \/ \E p \in Projects : AcceptTask(k, p) \/ RegisterRun(k, p)
           \/ BeginRun(k) \/ AbandonRun(k)
           \/ \E to \in ActiveRun : PollTransition(k, to)
    PROVE  NoNewVerdict
<1>1. CASE \E p \in Projects : AcceptTask(k, p)
  BY <1>1, AcceptedAdvances, UpdateNoVerdict DEF AcceptTask, StoredFor, Verdict
<1>2. CASE \E p \in Projects : RegisterRun(k, p)
  BY <1>2, AddRunAdvances, UpdateNoVerdict DEF RegisterRun, StoredFor, Verdict
<1>3. CASE BeginRun(k)
  BY <1>3, BegunAdvances, UpdateNoVerdict DEF BeginRun, Verdict
<1>4. CASE AbandonRun(k)
  BY <1>4, AbandonedAdvances, UpdateNoVerdict DEF AbandonRun, Verdict
<1>5. ASSUME NEW to \in ActiveRun, PollTransition(k, to) PROVE NoNewVerdict
  <2>1. loaded /\ Stored(k) /\ Update(k, MoveRun(TaskOf(k), to))
    BY <1>5 DEF PollTransition, TransitionRun
  <2>2. TaskOK(TaskOf(k)) /\ ~IsRefused(MoveRun(TaskOf(k), to)) => MoveRun(TaskOf(k), to).run = to
    BY MoveRunCases, RefusedIsRefused DEF TaskOK, ActiveRun, RunStatus
  <2>3. to \notin Verdict
    BY DEF ActiveRun, Verdict
  <2>4. QED
    BY <2>1, <2>2, <2>3, UpdateNoVerdict
<1>6. QED
  BY <1>1, <1>2, <1>3, <1>4, <1>5

LEMMA InsertNoVerdict ==
    ASSUME ServiceInv, NEW k \in Keys, NEW q \in Projects, CreateTask(k, q)
    PROVE  NoNewVerdict
<1> DEFINE t == NewTask(k, q)
           n == Len(disk)
           m == IF n < MaxStoredTasks THEN n + 1 ELSE MaxStoredTasks
           next == [i \in 1..m |-> IF i = 1 THEN t ELSE disk[i - 1]]
<1>1. cache = disk /\ disk \in Seq(StoredTask) /\ Len(disk) <= MaxStoredTasks
  BY DEF ServiceInv, ServiceTypeOK, TaskList, CreateTask
<1>2. DOMAIN disk = 1..n /\ n \in Nat
  BY <1>1, LenProperties
<1>3. disk' = next
  BY <1>1 DEF CreateTask, Save, Inserted
<1>4. t.run \notin Verdict
  BY DEF NewTask, Verdict
<1>5. m \in Nat /\ m <= n + 1
  BY <1>1, <1>2, MaxStoredTasksAssumption
<1> HIDE DEF t, n, m
<1>6. \A j \in 1..m : j = 1 \/ j - 1 \in 1..n
  BY <1>2, <1>5
<1>7. DOMAIN disk' = 1..m /\ \A j \in 1..m : disk'[j] = IF j = 1 THEN t ELSE disk[j - 1]
  BY <1>3
<1>8. QED
  BY <1>2, <1>4, <1>6, <1>7 DEF NoNewVerdict

LEMMA OpenNoVerdict == ASSUME ServiceInv, Open PROVE NoNewVerdict
<1>1. disk' = [i \in DOMAIN disk |-> Reconciled(disk[i])]
  BY DEF Open, ReconciledList
<1>2. \A i \in DOMAIN disk : Reconciled(disk[i]) = disk[i] \/ Reconciled(disk[i]).run = "outcomeUnknown"
  BY ReconciledAdvances DEF ServiceInv, Open, ReconcileSucceeds
<1>3. QED
  BY <1>1, <1>2 DEF NoNewVerdict, Verdict

LEMMA FileSameNoVerdict == ASSUME disk' = disk PROVE NoNewVerdict
BY DEF NoNewVerdict

LEMMA SameRecord ==
    ASSUME ServiceInv, NEW k, Has(disk, k), NEW i \in DOMAIN disk, disk[i].key = k
    PROVE  disk[i] = Lookup(disk, k)
BY PositionFound DEF ServiceInv, KeysUnique

LEMMA SameRecordNext ==
    ASSUME ServiceInv', NEW k, NEW i \in DOMAIN disk', disk'[i].key = k
    PROVE  Has(disk', k) /\ disk'[i] = Lookup(disk', k)
<1>1. Has(disk', k)
  BY DEF Has
<1>2. QED
  BY <1>1, PositionFound DEF ServiceInv, KeysUnique

\* A record with a verdict was there before the step.
LEMMA VerdictWasThere ==
    ASSUME ServiceInv, ServiceInv', NoNewVerdict, NEW k, Has(disk', k), Lookup(disk', k).run \in Verdict
    PROVE  Has(disk, k) /\ Lookup(disk, k) = Lookup(disk', k)
<1>1. PICK j \in DOMAIN disk' : disk'[j] = Lookup(disk', k) /\ disk'[j].key = k
  BY PositionFound
<1>2. PICK i \in DOMAIN disk : disk[i] = disk'[j]
  BY <1>1 DEF NoNewVerdict
<1>3. Has(disk, k)
  BY <1>1, <1>2 DEF Has
<1>4. QED
  BY <1>1, <1>2, <1>3, SameRecord

\* The record of a finished run stays while it is kept.
LEMMA TerminalStays ==
    ASSUME ServiceInv, ServiceQuiet, NEW k \in Keys \ evicted', Has(disk, k),
           Lookup(disk, k).run \in TerminalRun
    PROVE  Has(disk', k) /\ Lookup(disk', k) = Lookup(disk, k)
<1>1. Has(disk', k) /\ HistoryKept(disk, disk')
  BY DEF ServiceQuiet, GoodStep, Has
<1>2. PICK i \in DOMAIN disk : disk[i] = Lookup(disk, k) /\ disk[i].key = k
  BY LookupStored
<1>3. PICK j \in DOMAIN disk' : disk'[j] = Lookup(disk', k) /\ disk'[j].key = k
  BY <1>1, PositionFound
<1>4. QED
  BY <1>1, <1>2, <1>3 DEF HistoryKept

LEMMA ReceiptMeansEnded ==
    ASSUME ServiceInv, NEW k, Has(disk, k), Lookup(disk, k).receipt # "none"
    PROVE  /\ Lookup(disk, k).run = RunStatusFor(Lookup(disk, k).receipt)
           /\ Lookup(disk, k).run \in TerminalRun
<1>1. TaskOK(Lookup(disk, k))
  BY PositionFound DEF ServiceInv
<1>2. QED
  BY <1>1, OutcomeTables DEF TaskOK, ReceiptAgrees, StoredTask

LEMMA ReceiptStays ==
    ASSUME ServiceInv, ServiceQuiet, NEW k \in Keys \ evicted', Has(disk, k),
           Lookup(disk, k).receipt # "none"
    PROVE  Has(disk', k) /\ Lookup(disk', k) = Lookup(disk, k)
BY ReceiptMeansEnded, TerminalStays

\* What finalize_run writes, and that it changes no other record.
LEMMA FinalizeWrites ==
    ASSUME ServiceInv, NEW k, NEW outcome \in ReceiptOutcome, FinalizeRun(k, outcome)
    PROVE  /\ Has(disk', k)
           /\ Lookup(disk', k).run = RunStatusFor(outcome)
           /\ Lookup(disk', k).receipt = outcome
           /\ \A x : x # k /\ Has(disk', x) /\ Lookup(disk', x).run \in Verdict =>
                  Has(disk, x) /\ Lookup(disk, x) = Lookup(disk', x)
<1> DEFINE p == Position(disk, k)
           t == Finalized(disk[p], outcome)
<1>1. cache = disk /\ Has(disk, k) /\ loaded /\ Stored(k)
  BY DEF FinalizeRun, Stored, ServiceInv
<1>2. p \in DOMAIN disk /\ TaskOf(k) = disk[p] /\ disk[p].key = k
  BY <1>1, PositionFound DEF TaskOf
<1>3. TaskOK(disk[p])
  BY <1>2 DEF ServiceInv
<1>4. ~IsRefused(t) /\ disk' = [disk EXCEPT ![p] = t]
  BY <1>1, <1>2 DEF FinalizeRun, Update, Save, Replaced
<1>5. t.run = RunStatusFor(outcome) /\ t.receipt = outcome /\ t.key = k
  BY <1>2, <1>3, <1>4, FinalizedAdvances DEF Advances, Continues
<1> HIDE DEF t, p
<1>6. ServiceInv'
  BY FinalizeStep DEF GoodStep
<1>7. /\ DOMAIN disk' = DOMAIN disk /\ disk'[p] = t
      /\ \A j \in DOMAIN disk : j # p => disk'[j] = disk[j]
  BY <1>2, <1>4
<1>8. Has(disk', k) /\ Lookup(disk', k) = t
  BY <1>2, <1>5, <1>6, <1>7, SameRecordNext
<1>9. ASSUME NEW x, x # k, Has(disk', x)
      PROVE  Has(disk, x) /\ Lookup(disk, x) = Lookup(disk', x)
  <2>1. PICK j \in DOMAIN disk' : disk'[j] = Lookup(disk', x) /\ disk'[j].key = x
    BY <1>9, PositionFound
  <2>2. j \in DOMAIN disk /\ disk[j] = disk'[j]
    BY <1>5, <1>7, <1>9, <2>1
  <2>3. Has(disk, x)
    BY <2>1, <2>2 DEF Has
  <2>4. QED
    BY <2>1, <2>2, <2>3, SameRecord
<1>10. QED
  BY <1>5, <1>8, <1>9

-----------------------------------------------------------------------------
(***************************************************************************)
(* The router.  A calm step invents no end of a turn: a terminal event in  *)
(* the queue of a stream was there before, or the thread of its route has  *)
(* just ended that way.                                                    *)
(***************************************************************************)
RouterCalm ==
    /\ RouterTypeOK'
    /\ nextRoute <= nextRoute'
    /\ \A r \in routes' : r.id < nextRoute'
    /\ \A r \in routes' : r.id < nextRoute => \E q \in routes : q.id = r.id /\ q.thread = r.thread
    /\ \A s \in Streams, e \in TerminalEvent :
          s < nextRoute /\ InQueue(queue'[s].events, e) =>
              \/ InQueue(queue[s].events, e)
              \/ \E r \in routes : /\ r.id = s
                                   /\ server'[r.thread].phase = "over" /\ server'[r.thread].end = e

\* What the router's steps may rely on.
RouterGood == RouterTypeOK /\ \A r \in routes : r.id < nextRoute

LEMMA StreamsAreNumbers ==
    /\ Streams \subseteq Int /\ Threads = Streams /\ Turns = Threads /\ Runs = Keys
    /\ MaxStreams \in Nat \ {0} /\ 0 \notin Streams
BY RouterAssumption, TaskRunAssumption DEF Streams

LEMMA EmptyQueue == <<>> \in Seq(RunEvent) /\ \A e : ~InQueue(<<>>, e)
<1>1. <<>> \in Seq(RunEvent) /\ Len(<<>>) = 0
  BY EmptySeq
<1>2. DOMAIN <<>> = 1..0
  BY <1>1, LenProperties
<1>3. QED
  BY <1>1, <1>2 DEF InQueue

LEMMA PushedEvents ==
    ASSUME NEW q \in Seq(RunEvent), NEW kind \in RunEvent
    PROVE  /\ QueuePush(q, kind) \in Seq(RunEvent)
           /\ \A e : InQueue(QueuePush(q, kind), e) => InQueue(q, e) \/ e \in {kind, "gap"}
<1> DEFINE p == QueuePush(q, kind)
<1>0. QueueCapacity \in Nat \ {0} /\ Len(q) \in Nat /\ DOMAIN q = 1..Len(q) /\ "gap" \in RunEvent
  BY RouterAssumption, LenProperties DEF RunEvent
<1>1. CASE Len(q) < QueueCapacity
  <2>1. p = Append(q, kind)
    BY <1>1 DEF QueuePush
  <2>2. /\ p \in Seq(RunEvent) /\ Len(p) = Len(q) + 1 /\ p[Len(q) + 1] = kind
        /\ \A i \in 1..Len(q) : p[i] = q[i]
    BY <2>1, AppendProperties
  <2> HIDE DEF p
  <2>3. DOMAIN p = 1..(Len(q) + 1)
    BY <2>2, LenProperties
  <2>4. \A i \in 1..(Len(q) + 1) : i \in 1..Len(q) \/ i = Len(q) + 1
    BY <1>0
  <2>5. \A e : InQueue(p, e) => InQueue(q, e) \/ e = kind
    BY <1>0, <2>2, <2>3, <2>4 DEF InQueue
  <2>6. QED
    BY <2>2, <2>5 DEF p
<1>2. CASE Len(q) >= QueueCapacity /\ q[Len(q)] = "gap"
  BY <1>0, <1>2 DEF QueuePush
<1>3. CASE Len(q) >= QueueCapacity /\ q[Len(q)] # "gap"
  <2>0. ~(Len(q) < QueueCapacity) /\ Len(q) \in 1..Len(q)
    BY <1>0, <1>3
  <2>1. p = [q EXCEPT ![Len(q)] = "gap"]
    BY <1>3, <2>0 DEF QueuePush
  <2>2. /\ p \in Seq(RunEvent) /\ Len(p) = Len(q)
        /\ \A j \in 1..Len(q) : p[j] = IF j = Len(q) THEN "gap" ELSE q[j]
    BY <1>0, <2>0, <2>1, ExceptSeq
  <2> HIDE DEF p
  <2>3. DOMAIN p = 1..Len(q)
    BY <2>2, LenProperties
  <2>4. \A e : InQueue(p, e) => InQueue(q, e) \/ e = "gap"
    BY <1>0, <2>2, <2>3 DEF InQueue
  <2>5. QED
    BY <2>2, <2>4 DEF p
<1>4. QED
  BY <1>0, <1>1, <1>2, <1>3

LEMMA TailEvents ==
    ASSUME NEW q \in Seq(RunEvent), q # <<>>
    PROVE  /\ Tail(q) \in Seq(RunEvent)
           /\ \A e : InQueue(Tail(q), e) => InQueue(q, e)
           /\ q[1] \in RunEvent /\ InQueue(q, q[1])
<1> DEFINE t == Tail(q)
<1>1. /\ t \in Seq(RunEvent) /\ Len(t) = Len(q) - 1
      /\ \A i \in 1..Len(t) : t[i] = q[i + 1]
  BY HeadTailProperties
<1> HIDE DEF t
<1>2. Len(q) \in Nat /\ DOMAIN q = 1..Len(q) /\ DOMAIN t = 1..Len(t) /\ Len(q) # 0
  BY <1>1, LenProperties, EmptySeq
<1>3. \A i \in 1..Len(t) : i + 1 \in 1..Len(q)
  BY <1>1, <1>2
<1>4. \A e : InQueue(t, e) => InQueue(q, e)
  BY <1>1, <1>2, <1>3 DEF InQueue
<1>5. 1 \in 1..Len(q)
  BY <1>2
<1>6. q[1] \in RunEvent
  BY <1>2, <1>5, ElementOfSeq
<1>7. InQueue(q, q[1])
  BY <1>2, <1>5 DEF InQueue
<1>8. QED
  BY <1>1, <1>4, <1>6, <1>7 DEF t

LEMMA RouterSame == ASSUME RouterGood, UNCHANGED routerVars PROVE RouterCalm
<1>1. routes' = routes /\ queue' = queue /\ nextRoute' = nextRoute
  BY DEF routerVars
<1>2. RouterTypeOK' /\ nextRoute <= nextRoute
  BY <1>1, StreamsAreNumbers DEF RouterGood, RouterTypeOK
<1>3. QED
  BY <1>1, <1>2 DEF RouterGood, RouterCalm

LEMMA PrepareCalm ==
    ASSUME RouterGood, NEW n \in Connections, NEW k \in Keys, NEW h \in Threads, PrepareRun(n, k, h)
    PROVE  /\ RouterCalm /\ nextRoute' = nextRoute + 1 /\ nextRoute \in Streams
           /\ \A e : ~InQueue(queue'[nextRoute].events, e)
           /\ \A r \in routes' : r.id = nextRoute => r.thread = h
<1> DEFINE new == [id |-> nextRoute, connection |-> n, run |-> k, thread |-> h,
                   turn |-> NoTurn, next |-> 1, saturated |-> FALSE]
           q == [events |-> <<>>, active |-> TRUE, held |-> TRUE]
<1>1. nextRoute \in Streams /\ nextRoute' = nextRoute + 1 /\ nextRoute \in Int
  BY StreamsAreNumbers DEF PrepareRun
<1>2. routes' = routes \cup {new} /\ queue' = [queue EXCEPT ![nextRoute] = q]
  BY DEF PrepareRun
<1>3. new \in Route /\ new.id = nextRoute /\ new.thread = h
  <2>1. 1 \in 1..MaxRunEvents /\ k \in Runs
    BY RouterAssumption, StreamsAreNumbers
  <2>2. QED
    BY <1>1, <2>1 DEF Route
<1>4. q \in EventQueue /\ q.events = <<>>
  BY EmptyQueue DEF EventQueue
<1> HIDE DEF new, q
<1>5. /\ queue' \in [Streams -> EventQueue] /\ queue'[nextRoute] = q
      /\ \A s \in Streams : s # nextRoute => queue'[s] = queue[s]
  BY <1>1, <1>2, <1>4 DEF RouterGood, RouterTypeOK
<1>6. nextRoute' \in 1..MaxStreams + 1 /\ nextRoute <= nextRoute' /\ nextRoute < nextRoute'
  BY <1>1, StreamsAreNumbers DEF Streams
<1>7. RouterTypeOK'
  BY <1>2, <1>3, <1>5, <1>6 DEF RouterGood, RouterTypeOK
<1>8. \A r \in routes' : r.id < nextRoute'
  <2>1. \A r \in routes : r.id < nextRoute /\ r.id \in Int
    BY StreamsAreNumbers DEF RouterGood, RouterTypeOK, Route
  <2>2. QED
    BY <1>1, <1>2, <1>3, <2>1
<1>9. \A r \in routes' : r \in routes \/ r.id = nextRoute
  BY <1>2, <1>3
<1>10. \A r \in routes' : r.id < nextRoute => \E x \in routes : x.id = r.id /\ x.thread = r.thread
  BY <1>1, <1>9
<1>11. \A s \in Streams, e \in TerminalEvent :
           s < nextRoute /\ InQueue(queue'[s].events, e) => InQueue(queue[s].events, e)
  BY <1>1, <1>5
<1>12. \A r \in routes' : r.id = nextRoute => r.thread = h
  BY <1>1, <1>2, <1>3 DEF RouterGood
<1>13. \A e : ~InQueue(queue'[nextRoute].events, e)
  BY <1>4, <1>5, EmptyQueue
<1>14. RouterCalm
  BY <1>6, <1>7, <1>8, <1>10, <1>11 DEF RouterCalm
<1>15. QED
  BY <1>1, <1>12, <1>13, <1>14

LEMMA BindCalm ==
    ASSUME RouterGood, NEW s, NEW turn \in Turns, BindTurn(s, turn)
    PROVE  RouterCalm
<1>1. /\ routes' = {IF r.id = s THEN [r EXCEPT !.turn = turn] ELSE r : r \in routes}
      /\ queue' = queue /\ nextRoute' = nextRoute
  BY DEF BindTurn
<1>2. \A r \in routes : /\ [r EXCEPT !.turn = turn] \in Route
                        /\ [r EXCEPT !.turn = turn].id = r.id
                        /\ [r EXCEPT !.turn = turn].thread = r.thread
  BY DEF RouterGood, RouterTypeOK, Route
<1>3. routes' \subseteq Route /\ \A x \in routes' : \E r \in routes : r.id = x.id /\ r.thread = x.thread
  BY <1>1, <1>2 DEF RouterGood, RouterTypeOK
<1>4. RouterTypeOK' /\ nextRoute <= nextRoute
  BY <1>1, <1>3, StreamsAreNumbers DEF RouterGood, RouterTypeOK
<1>5. QED
  BY <1>1, <1>3, <1>4 DEF RouterGood, RouterCalm

\* Streams that are dropped, drained or deactivated, and the end of the process.
LEMMA FewerCalm ==
    ASSUME RouterGood, nextRoute' = nextRoute, routes' \subseteq routes,
           queue' \in [Streams -> EventQueue],
           \A s \in Streams, e \in TerminalEvent :
               InQueue(queue'[s].events, e) => InQueue(queue[s].events, e)
    PROVE  RouterCalm
<1>1. RouterTypeOK' /\ nextRoute <= nextRoute
  BY StreamsAreNumbers DEF RouterGood, RouterTypeOK
<1>2. QED
  BY <1>1 DEF RouterGood, RouterCalm

LEMMA NoQueueTyped == NoQueue \in EventQueue /\ \A e : ~InQueue(NoQueue.events, e)
BY EmptyQueue DEF NoQueue, EventQueue

LEMMA DropCalm == ASSUME RouterGood, NEW s, DropStream(s) PROVE RouterCalm
<1>1. /\ queue' = [queue EXCEPT ![s] = NoQueue] /\ nextRoute' = nextRoute /\ routes' \subseteq routes
  BY DEF DropStream
<1>2. queue' \in [Streams -> EventQueue] /\ \A x \in Streams : queue'[x] \in {queue[x], NoQueue}
  BY <1>1, NoQueueTyped DEF RouterGood, RouterTypeOK
<1>3. \A x \in Streams, e \in TerminalEvent :
          InQueue(queue'[x].events, e) => InQueue(queue[x].events, e)
  BY <1>2, NoQueueTyped
<1>4. QED
  BY <1>1, <1>2, <1>3, FewerCalm

LEMMA TryRecvCalm == ASSUME RouterGood, NEW s \in Streams, TryRecv(s) PROVE RouterCalm
<1> DEFINE q == [queue[s] EXCEPT !.events = Tail(queue[s].events)]
<1>1. queue' = [queue EXCEPT ![s] = q] /\ nextRoute' = nextRoute /\ routes' = routes
  BY DEF TryRecv
<1>2. queue[s] \in EventQueue /\ queue[s].events \in Seq(RunEvent) /\ queue[s].events # <<>>
  BY DEF RouterGood, RouterTypeOK, TryRecv, EventQueue
<1>3. /\ Tail(queue[s].events) \in Seq(RunEvent)
      /\ \A e : InQueue(Tail(queue[s].events), e) => InQueue(queue[s].events, e)
  BY <1>2, TailEvents
<1>4. q \in EventQueue /\ q.events = Tail(queue[s].events)
  BY <1>2, <1>3 DEF EventQueue
<1> HIDE DEF q
<1>5. queue' \in [Streams -> EventQueue] /\ \A x \in Streams : queue'[x] = IF x = s THEN q ELSE queue[x]
  BY <1>1, <1>4 DEF RouterGood, RouterTypeOK
<1>6. \A x \in Streams, e \in TerminalEvent :
          InQueue(queue'[x].events, e) => InQueue(queue[x].events, e)
  BY <1>3, <1>4, <1>5
<1>7. QED
  BY <1>1, <1>5, <1>6, FewerCalm

LEMMA DeactivateCalm == ASSUME RouterGood, DeactivateAll PROVE RouterCalm
<1>1. /\ routes' = {} /\ nextRoute' = nextRoute
      /\ queue' = [s \in Streams |-> IF \E r \in routes : r.id = s
                                     THEN [queue[s] EXCEPT !.active = FALSE] ELSE queue[s]]
  BY DEF DeactivateAll
<1>2. \A s \in Streams : /\ [queue[s] EXCEPT !.active = FALSE] \in EventQueue
                         /\ [queue[s] EXCEPT !.active = FALSE].events = queue[s].events
                         /\ queue[s] \in EventQueue
  BY DEF RouterGood, RouterTypeOK, EventQueue
<1>3. queue' \in [Streams -> EventQueue] /\ \A s \in Streams : queue'[s].events = queue[s].events
  BY <1>1, <1>2
<1>4. QED
  BY <1>1, <1>3, FewerCalm

\* The notification of an end is routed when the turn has ended that way.
LEMMA RouteCalm ==
    ASSUME RouterGood, NEW n, NEW h \in Threads, NEW kind \in Notification,
           RouteEvent(n, h, h, kind),
           kind \in TerminalEvent => server'[h].phase = "over" /\ server'[h].end = kind
    PROVE  RouterCalm
<1>1. PICK r \in routes :
          /\ Accepts(r, n, h, h, kind)
          /\ queue' = [queue EXCEPT ![r.id] =
                          [@ EXCEPT !.events = QueueAfter(r, kind), !.active = kind \notin TerminalEvent]]
          /\ routes' = (routes \ {r}) \cup
                          (IF kind \in TerminalEvent THEN {} ELSE {[Pushed(r) EXCEPT !.turn = h]})
          /\ nextRoute' = nextRoute
  BY DEF RouteEvent
<1> DEFINE q == [queue[r.id] EXCEPT !.events = QueueAfter(r, kind), !.active = kind \notin TerminalEvent]
           new == [Pushed(r) EXCEPT !.turn = h]
<1>2. r \in Route /\ r.id \in Streams /\ r.thread = h
  BY <1>1 DEF RouterGood, RouterTypeOK, Route, Accepts
<1>3. queue[r.id] \in EventQueue /\ queue[r.id].events \in Seq(RunEvent)
  BY <1>2 DEF RouterGood, RouterTypeOK, EventQueue
<1>4. /\ QueueAfter(r, kind) \in Seq(RunEvent)
      /\ \A e \in TerminalEvent : InQueue(QueueAfter(r, kind), e) => InQueue(queue[r.id].events, e) \/ e = kind
  <2>1. kind \in RunEvent /\ "gap" \in RunEvent /\ "gap" \notin TerminalEvent
    BY DEF RunEvent, TerminalEvent
  <2>2. QED
    BY <1>3, <2>1, PushedEvents DEF QueueAfter
<1>5. q \in EventQueue /\ q.events = QueueAfter(r, kind)
  <2>1. (kind \notin TerminalEvent) \in BOOLEAN
    OBVIOUS
  <2>2. QED
    BY <1>3, <1>4, <2>1 DEF EventQueue
<1>6. queue' = [queue EXCEPT ![r.id] = q]
  BY <1>1
<1>7. new \in Route /\ new.id = r.id /\ new.thread = r.thread
  <2>1. Pushed(r) \in Route /\ Pushed(r).id = r.id /\ Pushed(r).thread = r.thread
    <3>1. r.next \in 1..MaxRunEvents /\ MaxRunEvents \in Nat
      BY <1>2, RouterAssumption DEF Route
    <3>2. CASE Exhausted(r)
      BY <1>2, <3>2 DEF Pushed, Route
    <3>3. CASE ~Exhausted(r)
      <4>1. r.next + 1 \in 1..MaxRunEvents
        BY <3>1, <3>3 DEF Exhausted
      <4>2. QED
        BY <1>2, <3>3, <4>1 DEF Pushed, Route
    <3>4. QED
      BY <3>2, <3>3
  <2>2. h \in Turns \cup {NoTurn}
    BY StreamsAreNumbers
  <2>3. QED
    BY <2>1, <2>2 DEF Route
<1>8. routes' \subseteq routes \cup {new}
  BY <1>1
<1> HIDE DEF q, new
<1>9. queue' \in [Streams -> EventQueue] /\ \A x \in Streams : queue'[x] = IF x = r.id THEN q ELSE queue[x]
  BY <1>2, <1>5, <1>6 DEF RouterGood, RouterTypeOK
<1>10. RouterTypeOK' /\ nextRoute <= nextRoute
  BY <1>1, <1>7, <1>8, <1>9, StreamsAreNumbers DEF RouterGood, RouterTypeOK
<1>11. \A x \in routes' : x.id < nextRoute' /\ \E y \in routes : y.id = x.id /\ y.thread = x.thread
  BY <1>1, <1>7, <1>8 DEF RouterGood
<1>12. ASSUME NEW s \in Streams, NEW e \in TerminalEvent, InQueue(queue'[s].events, e)
       PROVE  \/ InQueue(queue[s].events, e)
              \/ \E x \in routes : /\ x.id = s
                                   /\ server'[x.thread].phase = "over" /\ server'[x.thread].end = e
  BY <1>2, <1>4, <1>5, <1>9, <1>12
<1>13. QED
  BY <1>1, <1>10, <1>11, <1>12 DEF RouterCalm

LEMMA DeliverCalm ==
    ASSUME RouterGood, NEW h \in Threads, NEW kind \in Notification, Deliver(h, kind),
           kind \in TerminalEvent => server'[h].phase = "over" /\ server'[h].end = kind
    PROVE  RouterCalm
BY RouteCalm, RouterSame DEF Deliver

-----------------------------------------------------------------------------
(***************************************************************************)
(* The App Server.  A calm step takes up no turn: turns only go on, end or *)
(* get lost, and an end that was reported stays reported.                  *)
(***************************************************************************)
Taken(h) == server[h].phase \in {"accepted", "running", "over", "lost"}

ServerKept ==
    /\ server' \in [Threads -> Turn]
    /\ nextThread' \in 1..MaxStreams + 1 /\ nextThread <= nextThread'
    /\ \A h \in Threads : h >= nextThread' => server'[h] = NoThread
    /\ \A h \in Threads : server'[h].end # "none" => server'[h].phase = "over"
    /\ \A h \in Threads : h < nextThread => server'[h].key = server[h].key
    /\ \A h \in Threads :
          server[h].phase = "over" => server'[h].phase = "over" /\ server'[h].end = server[h].end

CalmFor(k) ==
    \A h \in Threads : server'[h].key = k => (Taken(h)' => Taken(h)) /\ (Live(h)' => Live(h))

ServerCalm ==
    /\ ServerKept
    /\ \A h \in Threads : (Taken(h)' => Taken(h)) /\ (Live(h)' => Live(h))

LEMMA NoThreadTyped == NoThread \in Turn /\ NoThread.phase = "none" /\ NoThread.end = "none"
<1>1. (CHOOSE k \in Keys : TRUE) \in Keys
  BY TaskRunAssumption
<1>2. QED
  BY <1>1 DEF NoThread, Turn, TurnPhase

\* A thread on which something happened has been made.
LEMMA MadeThread ==
    ASSUME SideTyped, ServerGood, NEW h \in Threads, server[h].phase # "none" \/ server[h].end # "none"
    PROVE  h < nextThread
<1>1. h \in Int /\ nextThread \in Int
  BY StreamsAreNumbers DEF SideTyped
<1>2. h >= nextThread => server[h] = NoThread
  BY DEF ServerGood
<1>3. QED
  BY <1>1, <1>2, NoThreadTyped

LEMMA ServerSame ==
    ASSUME SideTyped, ServerGood, server' = server, nextThread' = nextThread
    PROVE  ServerCalm
<1>1. nextThread <= nextThread
  BY StreamsAreNumbers DEF SideTyped
<1>2. QED
  BY <1>1 DEF ServerCalm, ServerKept, SideTyped, ServerGood, Taken, Live

\* An end that was reported stays reported.
LEMMA EndedStays ==
    ASSUME SideTyped, ServerGood, ServerKept, NEW k, NEW e \in TerminalEvent, Ended(k, e)
    PROVE  Ended(k, e)'
<1>1. PICK h \in Threads : server[h].key = k /\ server[h].end = e
  BY DEF Ended
<1>2. server[h].phase = "over" /\ h < nextThread
  BY <1>1, MadeThread DEF ServerGood, TerminalEvent
<1>3. server'[h].key = k /\ server'[h].end = e
  BY <1>1, <1>2 DEF ServerKept
<1>4. QED
  BY <1>3 DEF Ended

LEMMA TurnsStay ==
    ASSUME SideTyped, ServerGood, ServerKept, NEW k, CalmFor(k)
    PROVE  /\ NoLive(k) => NoLive(k)'
           /\ \A h \in Threads : OnlyLive(k, h) => OnlyLive(k, h)'
           /\ TakenUp(k)' => TakenUp(k)
           /\ \A e \in TerminalEvent : Ended(k, e) => Ended(k, e)'
           /\ \A outcome : Reported(k, outcome) => Reported(k, outcome)'
<1>1. \A h \in Threads : server'[h].key = k /\ Taken(h)' => Taken(h) /\ server[h].key = k
  BY MadeThread DEF ServerKept, CalmFor, Taken
<1>2. \A h \in Threads : server'[h].key = k /\ Live(h)' => Live(h) /\ server[h].key = k
  BY <1>1 DEF CalmFor, Live, Taken
<1>3. NoLive(k) => NoLive(k)'
  BY <1>2 DEF NoLive
<1>4. \A h \in Threads : OnlyLive(k, h) => OnlyLive(k, h)'
  BY <1>2 DEF OnlyLive
<1>5. TakenUp(k)' => TakenUp(k)
  BY <1>1 DEF TakenUp, Taken
<1>6. \A e \in TerminalEvent : Ended(k, e) => Ended(k, e)'
  BY EndedStays
<1>7. \A outcome : Reported(k, outcome) => Reported(k, outcome)'
  BY <1>6 DEF Reported
<1>8. QED
  BY <1>3, <1>4, <1>5, <1>6, <1>7

LEMMA CarriesStays ==
    ASSUME SideTyped, ServerGood, ServerKept, RouterCalm, NEW s, NEW h, NEW k, Carries(s, h, k)
    PROVE  Carries(s, h, k)'
<1>1. s \in Streams /\ s < nextRoute /\ h \in Threads /\ h < nextThread /\ server[h].key = k
  BY DEF Carries
<1>2. s \in Int /\ h \in Int /\ {nextRoute, nextRoute', nextThread, nextThread'} \subseteq Int
  BY <1>1, StreamsAreNumbers DEF SideTyped, RouterTypeOK, RouterCalm, ServerKept
<1>3. s < nextRoute' /\ h < nextThread'
  BY <1>1, <1>2 DEF RouterCalm, ServerKept
<1>4. server'[h].key = k
  BY <1>1 DEF ServerKept
<1>5. \A r \in routes' : r.id = s => r.thread = h
  BY <1>1 DEF RouterCalm, Carries
<1>6. \A e \in TerminalEvent :
          InQueue(queue'[s].events, e) => server'[h].phase = "over" /\ server'[h].end = e
  <2> SUFFICES ASSUME NEW e \in TerminalEvent, InQueue(queue'[s].events, e)
               PROVE  server'[h].phase = "over" /\ server'[h].end = e
    OBVIOUS
  <2>1. CASE InQueue(queue[s].events, e)
    BY <1>1, <2>1 DEF Carries, ServerKept
  <2>2. CASE \E r \in routes : /\ r.id = s
                               /\ server'[r.thread].phase = "over" /\ server'[r.thread].end = e
    BY <2>2 DEF Carries
  <2>3. QED
    BY <1>1, <2>1, <2>2 DEF RouterCalm
<1>7. QED
  BY <1>1, <1>3, <1>4, <1>5, <1>6 DEF Carries, InQueue

-----------------------------------------------------------------------------
(***************************************************************************)
(* What commands and workers know stays true in a calm step.  The lemmas   *)
(* are about a fixed position b or w; the first four turn their result     *)
(* into one about the call or worker that is there after the step.         *)
(***************************************************************************)
LEMMA CommandKnowsNext ==
    ASSUME NEW c, NEW b, call'[c] = b, CommandKnows(b)'
    PROVE  CommandKnows(call[c])'
BY DEF CommandKnows, NoLive, OnlyLive, Live, Carries, InQueue

LEMMA WorkerKnowsNext ==
    ASSUME NEW k, NEW w, worker'[k].pc = w.pc, worker'[k].stream = w.stream,
           worker'[k].outcome = w.outcome, WorkerKnows(k, w)'
    PROVE  WorkerKnows(k, worker[k])'
BY DEF WorkerKnows, NoLive, OnlyLive, Live, Carries, InQueue, Reported, Ended

LEMMA CommandRecordNext ==
    ASSUME NEW c, NEW b, call'[c] = b, CommandRecord(b)'
    PROVE  CommandRecord(call[c])'
BY DEF CommandRecord, TakenUp, KnownReceipt, Has, Lookup, Position

LEMMA WorkerRecordNext ==
    ASSUME NEW k, NEW w, worker'[k].pc = w.pc, worker'[k].outcome = w.outcome, WorkerRecord(k, w)'
    PROVE  WorkerRecord(k, worker[k])'
BY DEF WorkerRecord, Has, Lookup, Position

LEMMA CommandKnowsStays ==
    ASSUME SideTyped, ServerGood, ServerKept, RouterCalm, NEW b, CommandKnows(b), CalmFor(b.key),
           b.pc \in {"prepare", "turn"} => server'[b.thread].phase = "idle"
    PROVE  CommandKnows(b)'
<1>1. /\ NoLive(b.key) => NoLive(b.key)'
      /\ \A h \in Threads : OnlyLive(b.key, h) => OnlyLive(b.key, h)'
  BY TurnsStay
<1>2. Carries(b.stream, b.thread, b.key) => Carries(b.stream, b.thread, b.key)'
  BY CarriesStays
<1>3. b.pc \in {"prepare", "turn"} =>
          /\ b.thread \in Threads /\ b.thread < nextThread'
          /\ server'[b.thread].key = b.key /\ server'[b.thread].phase = "idle"
  <2>1. \A h \in Threads : h < nextThread => h < nextThread'
    BY StreamsAreNumbers DEF SideTyped, ServerKept
  <2>2. QED
    BY <2>1 DEF CommandKnows, ServerKept
<1>4. b.pc \in {"await", "bind", "spawn"} => b.thread \in Threads
  BY DEF CommandKnows, Carries
<1>5. QED
  BY <1>1, <1>2, <1>3, <1>4 DEF CommandKnows

LEMMA WorkerKnowsStays ==
    ASSUME SideTyped, ServerGood, ServerKept, RouterCalm, NEW k, NEW w, WorkerKnows(k, w), CalmFor(k)
    PROVE  WorkerKnows(k, w)'
<1>1. /\ NoLive(k) => NoLive(k)'
      /\ \A h \in Threads : OnlyLive(k, h) => OnlyLive(k, h)'
      /\ Reported(k, w.outcome) => Reported(k, w.outcome)'
  BY TurnsStay
<1>2. \A h \in Threads : Carries(w.stream, h, k) => Carries(w.stream, h, k)'
  BY CarriesStays
<1>3. QED
  BY <1>1, <1>2 DEF WorkerKnows

LEMMA KnownReceiptStays ==
    ASSUME ServiceInv, ServiceQuiet, NEW k \in Keys \ evicted', KnownReceipt(k)
    PROVE  KnownReceipt(k)'
<1>1. Has(disk, k) /\ Lookup(disk, k).receipt # "none"
  BY DEF KnownReceipt
<1>2. Has(disk', k) /\ Lookup(disk', k) = Lookup(disk, k)
  BY <1>1, ReceiptStays
<1>3. QED
  BY <1>2 DEF KnownReceipt, Has, Lookup, Position

(***************************************************************************)
(* A worktree is released when nothing is lost with it, and the verdict on *)
(* a run is an old one, or honest and about no run that is being started.  *)
(***************************************************************************)
ReleaseOK(k) == NoLive(k) /\ (k \notin evicted /\ TakenUp(k) => KnownReceipt(k))

Honest(k) ==
    Has(disk, k) =>
        LET run == Lookup(disk, k).run
        IN  /\ run = "completed" => Ended(k, "completed")
            /\ run = "cancelled" => Ended(k, "interrupted")
            /\ run = "failed" => Ended(k, "failed") \/ ~TakenUp(k)

VerdictOK(k) ==
    Has(disk', k) /\ Lookup(disk', k).run \in Verdict =>
        \/ Has(disk, k) /\ Lookup(disk, k) = Lookup(disk', k)
        \/ Honest(k)' /\ \A c \in Callers : ~Claims(c, k)'

LEMMA OldVerdictOK ==
    ASSUME ServiceInv, ServiceInv', NoNewVerdict, NEW k
    PROVE  VerdictOK(k)
BY VerdictWasThere DEF VerdictOK

LEMMA CommandRecordStays ==
    ASSUME SideTyped, ServerGood, ServerKept, ServiceInv, ServiceQuiet, NEW b \in Call, CalmFor(b.key),
           CommandRecord(b), b.key \notin evicted' => VerdictOK(b.key),
           NEW c \in Callers, call'[c] = b
    PROVE  CommandRecord(b)'
<1> SUFFICES ASSUME b.key \notin evicted' PROVE CommandRecord(b)'
  BY DEF CommandRecord
<1>1. b.key \in Keys \ evicted' /\ b.key \notin evicted /\ b.outcome # "none"
  BY DEF ServiceQuiet, Call, ReceiptOutcome
<1>2. b.pc \in PreTurn => ~(Has(disk', b.key) /\ Lookup(disk', b.key).run = "failed")
  <2> SUFFICES ASSUME b.pc \in PreTurn, Has(disk', b.key), Lookup(disk', b.key).run = "failed"
               PROVE  FALSE
    OBVIOUS
  <2>1. Claims(c, b.key)'
    BY DEF Claims
  <2>2. Has(disk, b.key) /\ Lookup(disk, b.key) = Lookup(disk', b.key)
    BY <2>1 DEF VerdictOK, Verdict
  <2>3. QED
    BY <1>1, <2>2 DEF CommandRecord
<1>3. TakenUp(b.key)' => TakenUp(b.key)
  BY TurnsStay
<1>4. KnownReceipt(b.key) => KnownReceipt(b.key)'
  BY <1>1, KnownReceiptStays
<1>5. ASSUME b.pc = "cleanup" PROVE Has(disk', b.key) /\ Lookup(disk', b.key).receipt = b.outcome
  <2>1. Has(disk, b.key) /\ Lookup(disk, b.key).receipt = b.outcome
    BY <1>1, <1>5 DEF CommandRecord
  <2>2. Has(disk', b.key) /\ Lookup(disk', b.key) = Lookup(disk, b.key)
    BY <1>1, <2>1, ReceiptStays
  <2>3. QED
    BY <2>1, <2>2
<1>6. QED
  BY <1>1, <1>2, <1>3, <1>4, <1>5 DEF CommandRecord, Has, Lookup, Position

LEMMA WorkerRecordStays ==
    ASSUME ServiceInv, ServiceQuiet, NEW k \in Keys, NEW w \in Worker, WorkerRecord(k, w)
    PROVE  WorkerRecord(k, w)'
<1> SUFFICES ASSUME k \notin evicted', w.pc = "cleanup"
             PROVE  Has(disk', k) /\ Lookup(disk', k).receipt = w.outcome
  BY DEF WorkerRecord, Has, Lookup, Position
<1>1. k \in Keys \ evicted' /\ k \notin evicted /\ w.outcome # "none"
  BY DEF ServiceQuiet, Worker, ReceiptOutcome
<1>2. Has(disk, k) /\ Lookup(disk, k).receipt = w.outcome
  BY <1>1 DEF WorkerRecord
<1>3. Has(disk', k) /\ Lookup(disk', k) = Lookup(disk, k)
  BY <1>1, <1>2, ReceiptStays
<1>4. QED
  BY <1>2, <1>3

LEMMA HonestStays ==
    ASSUME SideTyped, ServerGood, ServerKept, NEW k, CalmFor(k), Honest(k), VerdictOK(k)
    PROVE  Honest(k)'
<1>1. TakenUp(k)' => TakenUp(k)
  BY TurnsStay
<1>2. \A e \in TerminalEvent : Ended(k, e) => Ended(k, e)'
  BY TurnsStay
<1>3. CASE ~(Has(disk', k) /\ Lookup(disk', k).run \in Verdict)
  BY <1>3 DEF Honest, Verdict, Has, Lookup, Position
<1>4. CASE /\ Has(disk', k) /\ Lookup(disk', k).run \in Verdict
           /\ Has(disk, k) /\ Lookup(disk, k) = Lookup(disk', k)
  <2>1. PICK run : run = Lookup(disk, k).run /\ run = Lookup(disk', k).run
    BY <1>4
  <2>2. /\ run = "completed" => Ended(k, "completed")
        /\ run = "cancelled" => Ended(k, "interrupted")
        /\ run = "failed" => Ended(k, "failed") \/ ~TakenUp(k)
    BY <1>4, <2>1 DEF Honest
  <2>3. /\ run = "completed" => Ended(k, "completed")'
        /\ run = "cancelled" => Ended(k, "interrupted")'
        /\ run = "failed" => Ended(k, "failed")' \/ ~TakenUp(k)'
    BY <1>1, <1>2, <2>2 DEF TerminalEvent
  <2>4. QED
    BY <2>1, <2>3 DEF Honest, Has, Lookup, Position
<1>5. QED
  BY <1>3, <1>4 DEF VerdictOK

(***************************************************************************)
(* A step that takes up no turn keeps the invariant when its holders, the  *)
(* worktrees it releases and the verdicts it writes are in order.          *)
(***************************************************************************)
CallKept(c) ==
    /\ call'[c] = call[c]
    /\ call[c].pc \in {"prepare", "turn"} => server'[call[c].thread].phase = "idle"

WorkerKept(k) ==
    /\ worker'[k].pc = worker[k].pc
    /\ worker'[k].stream = worker[k].stream
    /\ worker'[k].outcome = worker[k].outcome

CallGood(c) == CallKept(c) \/ (CommandKnows(call[c])' /\ CommandRecord(call[c])')

WorkerGood(k) == WorkerKept(k) \/ (WorkerKnows(k, worker[k])' /\ WorkerRecord(k, worker[k])')

\* The variables of this module that have little to do with the argument.
SideOK ==
    /\ worktrees' \subseteq Keys
    /\ up' \in BOOLEAN
    /\ up' => connection' \in Connections
    /\ evicted' \subseteq Keys
    /\ \A k \in Keys : turnsSent[k] # 0 => turnsSent'[k] # 0

LEMMA CalmTurns ==
    ASSUME HoldInv, SideOK, ServerCalm, RouterCalm,
           \A k \in worktrees \ worktrees' : ReleaseOK(k),
           \A c \in Callers : CallGood(c), \A k \in Keys : WorkerGood(k)
    PROVE  TurnsInv'
<1> USE DEF HoldInv
<1>1. SideTyped /\ ServerGood /\ ServerKept /\ \A k : CalmFor(k)
  BY DEF TurnsInv, ServerCalm, CalmFor
<1>2. \A h \in Threads : Live(h)' => Live(h) /\ server'[h].key = server[h].key
  BY <1>1, MadeThread DEF ServerCalm, ServerKept, Live
<1>3. OneLiveTurn'
  BY <1>1, <1>2 DEF OneLiveTurn, ServerGood, Live
<1>4. LiveTurnHasWorktree'
  <2> SUFFICES ASSUME NEW h \in Threads, Live(h)' PROVE server'[h].key \in worktrees'
    BY DEF LiveTurnHasWorktree, Live
  <2>1. Live(h) /\ server'[h].key = server[h].key /\ server[h].key \in worktrees
    BY <1>1, <1>2 DEF ServerGood, LiveTurnHasWorktree, Live
  <2>2. QED
    BY <2>1 DEF ReleaseOK, NoLive
<1>5. ServerGood'
  BY <1>3, <1>4 DEF ServerGood, ServerCalm, ServerKept, RouterCalm, SideOK
<1>6. ASSUME NEW c \in Callers PROVE CommandKnows(call[c])'
  <2>1. CASE CallKept(c)
    <3>1. PICK b : b = call[c]
      OBVIOUS
    <3>2. CommandKnows(b)
      BY <3>1 DEF TurnsInv
    <3>3. CommandKnows(b)'
      BY <1>1, <2>1, <3>1, <3>2, CommandKnowsStays DEF CallKept
    <3>4. QED
      BY <2>1, <3>1, <3>3, CommandKnowsNext DEF CallKept
  <2>2. QED
    BY <2>1 DEF CallGood
<1>7. ASSUME NEW k \in Keys PROVE WorkerKnows(k, worker[k])'
  <2>1. CASE WorkerKept(k)
    <3>1. PICK w : w = worker[k]
      OBVIOUS
    <3>2. WorkerKnows(k, w)
      BY <3>1 DEF TurnsInv
    <3>3. WorkerKnows(k, w)'
      BY <1>1, <3>2, WorkerKnowsStays
    <3>4. QED
      BY <2>1, <3>1, <3>3, WorkerKnowsNext DEF WorkerKept
  <2>2. QED
    BY <2>1 DEF WorkerGood
<1>8. QED
  BY <1>5, <1>6, <1>7 DEF TurnsInv

LEMMA CalmRecords ==
    ASSUME HoldInv, SideOK, ServerCalm, ServiceQuiet,
           \A k \in worktrees \ worktrees' : ReleaseOK(k),
           \A k \in Keys \ evicted' : VerdictOK(k),
           \A c \in Callers : CallGood(c), \A k \in Keys : WorkerGood(k)
    PROVE  RecordsInv'
<1> USE DEF HoldInv
<1>1. SideTyped /\ ServerGood /\ ServiceInv /\ RunTyped /\ ServerKept /\ \A k : CalmFor(k)
  BY DEF TurnsInv, RunInv, ServerCalm, CalmFor
<1>2. \A k \in Keys : TakenUp(k)' => TakenUp(k)
  BY <1>1, TurnsStay
<1>3. \A k \in Keys : TakenUp(k)' => turnsSent'[k] # 0
  BY <1>2 DEF RecordsInv, SideOK
<1>4. ASSUME NEW c \in Callers PROVE CommandRecord(call[c])'
  <2>1. CASE CallKept(c)
    <3>1. PICK b \in Call : b = call[c]
      BY <1>1, CallTyped
    <3>2. CommandRecord(b) /\ b.key \in Keys /\ call'[c] = b
      BY <2>1, <3>1 DEF RecordsInv, Call, CallKept
    <3>3. CommandRecord(b)'
      BY <1>1, <3>2, CommandRecordStays
    <3>4. QED
      BY <3>2, <3>3, CommandRecordNext
  <2>2. QED
    BY <2>1 DEF CallGood
<1>5. ASSUME NEW k \in Keys PROVE WorkerRecord(k, worker[k])'
  <2>1. CASE WorkerKept(k)
    <3>1. PICK w \in Worker : w = worker[k]
      BY <1>1 DEF RunTyped
    <3>2. WorkerRecord(k, w)
      BY <3>1 DEF RecordsInv
    <3>3. WorkerRecord(k, w)'
      BY <1>1, <3>2, WorkerRecordStays
    <3>4. QED
      BY <2>1, <3>1, <3>3, WorkerRecordNext DEF WorkerKept
  <2>2. QED
    BY <2>1 DEF WorkerGood
<1>6. VerdictIsHonest'
  <2> SUFFICES ASSUME NEW k \in Keys \ evicted' PROVE Honest(k)'
    BY DEF VerdictIsHonest, Honest
  <2>1. Honest(k)
    BY DEF RecordsInv, VerdictIsHonest, Honest, ServiceQuiet
  <2>2. QED
    BY <1>1, <2>1, HonestStays
<1>7. EvidenceKept'
  <2> SUFFICES ASSUME NEW k \in Keys \ evicted', TakenUp(k)', k \notin worktrees'
               PROVE  KnownReceipt(k)'
    BY DEF EvidenceKept, KnownReceipt
  <2>1. k \notin evicted /\ TakenUp(k)
    BY <1>2 DEF ServiceQuiet
  <2>2. KnownReceipt(k)
    BY <2>1 DEF ReleaseOK, RecordsInv, EvidenceKept, KnownReceipt
  <2>3. QED
    BY <1>1, <2>2, KnownReceiptStays
<1>8. QED
  BY <1>3, <1>4, <1>5, <1>6, <1>7 DEF RecordsInv

LEMMA CalmStep ==
    ASSUME HoldInv, RunInv', ServiceQuiet, HoldersGood', SideOK, ServerCalm, RouterCalm,
           \A k \in worktrees \ worktrees' : ReleaseOK(k),
           \A k \in Keys \ evicted' : VerdictOK(k),
           \A c \in Callers : CallGood(c), \A k \in Keys : WorkerGood(k)
    PROVE  HoldInv'
<1>1. TurnsInv'
  BY CalmTurns
<1>2. RecordsInv'
  BY CalmRecords
<1>3. SideTyped'
  BY DEF SideTyped, SideOK, ServerCalm, ServerKept, RouterCalm
<1>4. QED
  BY <1>1, <1>2, <1>3 DEF HoldInv

\* The holders of a step that makes nobody a holder.
LEMMA CalmHolders ==
    ASSUME HoldersGood,
           \A c \in Callers, k \in Keys : Holding(c, k)' => Holding(c, k),
           \A k \in Keys : WorkerHolds(k)' => WorkerHolds(k),
           \A k \in worktrees \ worktrees' :
               ~WorkerHolds(k)' /\ \A c \in Callers : ~Holding(c, k)'
    PROVE  HoldersGood'
BY DEF HoldersGood

-----------------------------------------------------------------------------
(***************************************************************************)
(* Steps of a command, of a worker, and of the world around them.          *)
(***************************************************************************)
\* What a step of the whole specification brings along.
Stepping == HoldInv /\ RunInv' /\ ServiceQuiet

LEMMA SteppingParts ==
    ASSUME Stepping
    PROVE  /\ HoldInv /\ RunInv /\ SideTyped /\ HoldersGood /\ TurnsInv /\ RecordsInv /\ ServerGood
           /\ RunTyped /\ ServiceInv /\ ClaimInv /\ RouterGood
           /\ RunTyped' /\ ServiceInv' /\ ServiceQuiet /\ evicted \subseteq evicted'
BY DEF Stepping, HoldInv, RunInv, TurnsInv, ServerGood, RouterGood, SideTyped, ServiceQuiet

LEMMA OldVerdicts ==
    ASSUME Stepping, NoNewVerdict
    PROVE  \A k \in Keys \ evicted' : VerdictOK(k)
BY SteppingParts, OldVerdictOK

LEMMA FileSame ==
    ASSUME Stepping, disk' = disk
    PROVE  \A k \in Keys \ evicted' : VerdictOK(k)
BY FileSameNoVerdict, OldVerdicts

IdleKept(d) == call[d].pc \in {"prepare", "turn"} => server'[call[d].thread].phase = "idle"

LEMMA IdleStays ==
    ASSUME Stepping, server' = server, NEW d \in Callers
    PROVE  IdleKept(d)
<1>1. PICK b : b = call[d]
  OBVIOUS
<1>2. CommandKnows(b)
  BY <1>1, SteppingParts DEF TurnsInv
<1>3. QED
  BY <1>1, <1>2 DEF CommandKnows, IdleKept

LEMMA CommandStep ==
    ASSUME Stepping, NEW c \in Callers,
           \A d \in Callers : d # c => call'[d] = call[d] /\ IdleKept(d),
           worker' = worker, connection' = connection, up' = up, evicted' \subseteq Keys,
           \A k \in Keys : turnsSent[k] # 0 => turnsSent'[k] # 0,
           ServerCalm, RouterCalm, \A k \in Keys \ evicted' : VerdictOK(k),
           CommandKnows(call[c])', CommandRecord(call[c])',
           \A k \in Keys : Holding(c, k)' => Holding(c, k),
           worktrees' \subseteq Keys,
           \A k \in worktrees \ worktrees' : Holding(c, k) /\ ~Holding(c, k)' /\ ReleaseOK(k)
    PROVE  HoldInv'
<1>1. \A d \in Callers, k \in Keys : Holding(d, k)' => Holding(d, k)
  BY DEF Holding
<1>2. \A k \in Keys : WorkerHolds(k)' <=> WorkerHolds(k)
  BY DEF WorkerHolds
<1>3. HoldersGood'
  <2>1. ASSUME NEW k \in worktrees \ worktrees'
        PROVE  ~WorkerHolds(k)' /\ \A d \in Callers : ~Holding(d, k)'
    <3>1. Holding(c, k) /\ ~Holding(c, k)' /\ k \in Keys
      BY <2>1, SteppingParts DEF SideTyped
    <3>2. ~WorkerHolds(k) /\ \A d \in Callers : Holding(d, k) => d = c
      BY <3>1, SteppingParts DEF HoldersGood
    <3>3. QED
      BY <1>1, <1>2, <3>1, <3>2
  <2>2. QED
    BY <1>1, <1>2, <2>1, CalmHolders, SteppingParts
<1>4. SideOK
  BY SteppingParts DEF SideOK, SideTyped, ServerGood
<1>5. \A d \in Callers : CallGood(d)
  BY DEF CallGood, CallKept, IdleKept
<1>6. \A k \in Keys : WorkerGood(k)
  BY DEF WorkerGood, WorkerKept
<1>7. QED
  BY <1>3, <1>4, <1>5, <1>6, CalmStep DEF Stepping

LEMMA WorkerMovesOn ==
    ASSUME Stepping, NEW k \in Keys,
           \A x \in Keys : x # k => worker'[x] = worker[x],
           call' = call, server' = server, nextThread' = nextThread, connection' = connection,
           up' = up, turnsSent' = turnsSent, evicted' = evicted,
           RouterCalm, \A x \in Keys \ evicted' : VerdictOK(x),
           WorkerKnows(k, worker[k])', WorkerRecord(k, worker[k])',
           WorkerHolds(k)' => WorkerHolds(k),
           worktrees' = worktrees \/
               (worktrees' = worktrees \ {k} /\ WorkerHolds(k) /\ ~WorkerHolds(k)' /\ ReleaseOK(k))
    PROVE  HoldInv'
<1>1. \A d \in Callers, x \in Keys : Holding(d, x)' <=> Holding(d, x)
  BY DEF Holding
<1>2. \A x \in Keys : WorkerHolds(x)' => WorkerHolds(x)
  BY DEF WorkerHolds
<1>3. HoldersGood'
  <2>1. ASSUME NEW x \in worktrees \ worktrees'
        PROVE  ~WorkerHolds(x)' /\ \A d \in Callers : ~Holding(d, x)'
    <3>1. x = k /\ WorkerHolds(k) /\ ~WorkerHolds(k)'
      BY <2>1
    <3>2. \A d \in Callers : ~Holding(d, k)
      BY <3>1, SteppingParts DEF HoldersGood
    <3>3. QED
      BY <1>1, <3>1, <3>2
  <2>2. QED
    BY <1>1, <1>2, <2>1, CalmHolders, SteppingParts
<1>4. SideOK
  BY SteppingParts DEF SideOK, SideTyped, ServerGood
<1>5. \A d \in Callers : CallGood(d)
  BY IdleStays DEF CallGood, CallKept, IdleKept
<1>6. \A x \in Keys : WorkerGood(x)
  BY DEF WorkerGood, WorkerKept
<1>7. ServerCalm
  BY ServerSame, SteppingParts
<1>8. \A x \in worktrees \ worktrees' : ReleaseOK(x)
  OBVIOUS
<1>9. QED
  BY <1>3, <1>4, <1>5, <1>6, <1>7, <1>8, CalmStep DEF Stepping

\* Steps that move neither a command nor a worker.
LEMMA WorldStep ==
    ASSUME Stepping, call' = call, worker' = worker, worktrees' = worktrees,
           turnsSent' = turnsSent, evicted' = evicted,
           up' \in BOOLEAN, up' => connection' \in Connections,
           ServerCalm, RouterCalm, \A d \in Callers : IdleKept(d),
           \A x \in Keys \ evicted' : VerdictOK(x)
    PROVE  HoldInv'
<1>1. HoldersGood'
  BY SteppingParts DEF HoldersGood, Holding, WorkerHolds
<1>2. SideOK
  BY SteppingParts DEF SideOK, SideTyped
<1>3. \A d \in Callers : CallGood(d)
  BY DEF CallGood, CallKept, IdleKept
<1>4. \A x \in Keys : WorkerGood(x)
  BY DEF WorkerGood, WorkerKept
<1>5. QED
  BY <1>1, <1>2, <1>3, <1>4, CalmStep DEF Stepping

-----------------------------------------------------------------------------
(***************************************************************************)
(* How commands and workers move.                                          *)
(***************************************************************************)
SameBut(c) == \A d \in Callers : d # c => call'[d] = call[d]

LEMMA GotoMoves ==
    ASSUME RunTyped, NEW c \in Callers, NEW pc, Goto(c, pc)
    PROVE  /\ SameBut(c) /\ call'[c].pc = pc /\ call'[c].key = call[c].key
           /\ call'[c].connection = call[c].connection /\ call'[c].thread = call[c].thread
           /\ call'[c].stream = call[c].stream /\ call'[c].outcome = call[c].outcome
<1> DEFINE r == [call[c] EXCEPT !.pc = pc]
<1>1. call[c] \in Call
  BY CallTyped
<1>2. /\ r.pc = pc /\ r.key = call[c].key /\ r.connection = call[c].connection
      /\ r.thread = call[c].thread /\ r.stream = call[c].stream /\ r.outcome = call[c].outcome
  BY <1>1 DEF Call
<1>3. call' = [call EXCEPT ![c] = r]
  BY DEF Goto
<1> HIDE DEF r
<1>4. call'[c] = r /\ SameBut(c)
  BY <1>3 DEF RunTyped, SameBut
<1>5. QED
  BY <1>2, <1>4

LEMMA FinishStartMoves ==
    ASSUME RunTyped, NEW c \in Callers, NEW outcome, FinishStart(c, outcome)
    PROVE  /\ SameBut(c) /\ call'[c].pc = "collect" /\ call'[c].key = call[c].key
           /\ call'[c].connection = call[c].connection /\ call'[c].outcome = outcome
<1> DEFINE r == [call[c] EXCEPT !.pc = "collect", !.outcome = outcome]
<1>1. call[c] \in Call
  BY CallTyped
<1>2. /\ r.pc = "collect" /\ r.key = call[c].key /\ r.connection = call[c].connection
      /\ r.outcome = outcome
  BY <1>1 DEF Call
<1>3. call' = [call EXCEPT ![c] = r]
  BY DEF FinishStart
<1> HIDE DEF r
<1>4. call'[c] = r /\ SameBut(c)
  BY <1>3 DEF RunTyped, SameBut
<1>5. QED
  BY <1>2, <1>4

LEMMA ReturnMoves ==
    ASSUME RunTyped, NEW c \in Callers, Return(c)
    PROVE  SameBut(c) /\ call'[c].pc = "idle"
BY DEF Return, RunTyped, SameBut, Idle

\* A command that holds nothing knows nothing.
LEMMA OutsideGood ==
    ASSUME NEW c \in Callers, call'[c].pc \notin HoldPc,
           call'[c].pc # "idle" => call'[c].connection \in Connections
    PROVE  /\ CommandKnows(call[c])' /\ CommandRecord(call[c])'
           /\ \A k \in Keys : ~Holding(c, k)'
<1>1. PICK b : b = call'[c]
  OBVIOUS
<1>2. /\ b.pc \notin {"begin", "collect", "finalize", "cleanup", "await", "bind", "spawn"}
      /\ b.pc \notin PreTurn
  BY <1>1 DEF HoldPc, Owning, PreTurn
<1>3. CommandKnows(b)' /\ CommandRecord(b)'
  BY <1>1, <1>2 DEF CommandKnows, CommandRecord, PreTurn
<1>4. QED
  BY <1>1, <1>3, CommandKnowsNext, CommandRecordNext DEF Holding

LEMMA WorkerGotoMoves ==
    ASSUME RunTyped, NEW k \in Keys, NEW pc, WorkerGoto(k, pc)
    PROVE  /\ \A x \in Keys : x # k => worker'[x] = worker[x]
           /\ worker'[k].pc = pc /\ worker'[k].stream = worker[k].stream
           /\ worker'[k].outcome = worker[k].outcome
<1> DEFINE r == [worker[k] EXCEPT !.pc = pc]
<1>1. worker[k] \in Worker
  BY DEF RunTyped
<1>2. r.pc = pc /\ r.stream = worker[k].stream /\ r.outcome = worker[k].outcome
  BY <1>1 DEF Worker
<1>3. worker' = [worker EXCEPT ![k] = r]
  BY DEF WorkerGoto
<1> HIDE DEF r
<1>4. worker'[k] = r /\ \A x \in Keys : x # k => worker'[x] = worker[x]
  BY <1>3 DEF RunTyped
<1>5. QED
  BY <1>2, <1>4

LEMMA FinishMoves ==
    ASSUME RunTyped, NEW k \in Keys, NEW outcome, Finish(k, outcome)
    PROVE  /\ \A x \in Keys : x # k => worker'[x] = worker[x]
           /\ worker'[k].pc = "collect" /\ worker'[k].outcome = outcome
<1> DEFINE r == [worker[k] EXCEPT !.pc = "collect", !.outcome = outcome]
<1>1. worker[k] \in Worker
  BY DEF RunTyped
<1>2. r.pc = "collect" /\ r.outcome = outcome
  BY <1>1 DEF Worker
<1>3. worker' = [worker EXCEPT ![k] = r]
  BY DEF Finish
<1> HIDE DEF r
<1>4. worker'[k] = r /\ \A x \in Keys : x # k => worker'[x] = worker[x]
  BY <1>3 DEF RunTyped
<1>5. QED
  BY <1>2, <1>4

LEMMA FinishUnknownMoves ==
    ASSUME RunTyped, NEW k \in Keys, FinishUnknown(k)
    PROVE  /\ \A x \in Keys : x # k => worker'[x] = worker[x]
           /\ worker'[k].pc = "collect" /\ worker'[k].outcome = "outcomeUnknown"
<1> DEFINE r == [worker[k] EXCEPT !.pc = "collect", !.outcome = "outcomeUnknown", !.last = TRUE]
<1>1. worker[k] \in Worker
  BY DEF RunTyped
<1>2. r.pc = "collect" /\ r.outcome = "outcomeUnknown"
  BY <1>1 DEF Worker
<1>3. worker' = [worker EXCEPT ![k] = r]
  BY DEF FinishUnknown
<1> HIDE DEF r
<1>4. worker'[k] = r /\ \A x \in Keys : x # k => worker'[x] = worker[x]
  BY <1>3 DEF RunTyped
<1>5. QED
  BY <1>2, <1>4

\* A worker past its observation holds its run with an unknown outcome, or
\* only has to give it up and leave.
LEMMA UnknownGood ==
    ASSUME NEW k \in Keys, \/ worker'[k].pc \in {"none", "abandon", "remove"}
                           \/ worker'[k].pc = "collect" /\ worker'[k].outcome = "outcomeUnknown"
    PROVE  WorkerKnows(k, worker[k])' /\ WorkerRecord(k, worker[k])'
<1>1. PICK w : w = worker'[k]
  OBVIOUS
<1>2. WorkerKnows(k, w)' /\ WorkerRecord(k, w)'
  BY <1>1 DEF WorkerKnows, WorkerRecord
<1>3. QED
  BY <1>1, <1>2, WorkerKnowsNext, WorkerRecordNext

LEMMA GiveUpMoves ==
    ASSUME RunTyped, NEW k \in Keys, GiveUp(k)
    PROVE  /\ \A x \in Keys : x # k => worker'[x] = worker[x]
           /\ worker'[k].pc \in {"collect", "abandon"}
           /\ WorkerKnows(k, worker[k])' /\ WorkerRecord(k, worker[k])'
<1>1. CASE WorkerGoto(k, "abandon")
  BY <1>1, WorkerGotoMoves, UnknownGood
<1>2. CASE FinishUnknown(k)
  BY <1>2, FinishUnknownMoves, UnknownGood
<1>3. QED
  BY <1>1, <1>2 DEF GiveUp

-----------------------------------------------------------------------------
(***************************************************************************)
(* The start command, one lemma per step.                                  *)
(***************************************************************************)
LEMMA CommandConnected ==
    ASSUME Stepping, NEW c \in Callers, call[c].pc # "idle"
    PROVE  call[c].connection \in Connections
BY SteppingParts DEF TurnsInv, CommandKnows

\* A command moves outside the stretch in which it holds a worktree.
LEMMA OutsideStep ==
    ASSUME Stepping, NEW c \in Callers, SameBut(c), call'[c].pc \notin HoldPc,
           call'[c].pc # "idle" => call'[c].connection \in Connections,
           UNCHANGED <<routerVars, worker, server, nextThread, connection, up, turnsSent>>,
           evicted' \subseteq Keys, worktrees \subseteq worktrees', worktrees' \subseteq Keys,
           NoNewVerdict
    PROVE  HoldInv'
<1>1. /\ CommandKnows(call[c])' /\ CommandRecord(call[c])' /\ \A k \in Keys : ~Holding(c, k)'
  BY OutsideGood
<1>2. ServerCalm /\ RouterCalm
  BY SteppingParts, ServerSame, RouterSame
<1>3. \A d \in Callers : d # c => call'[d] = call[d] /\ IdleKept(d)
  BY IdleStays DEF SameBut
<1>4. \A k \in Keys \ evicted' : VerdictOK(k)
  BY OldVerdicts
<1>5. QED
  BY <1>1, <1>2, <1>3, <1>4, CommandStep

LEMMA StartCommandHolds ==
    ASSUME Stepping, NEW c \in Callers, NEW k \in Keys, NEW p \in Projects, StartCommand(c, k, p)
    PROVE  HoldInv'
<1> DEFINE r == [Idle EXCEPT !.pc = "create", !.key = k, !.project = p,
                             !.connection = connection]
<1>1. r.pc = "create" /\ r.connection = connection
  BY DEF Idle
<1>2. call' = [call EXCEPT ![c] = r]
  BY DEF StartCommand
<1> HIDE DEF r
<1>3. SameBut(c) /\ call'[c] = r
  BY <1>2, SteppingParts DEF RunTyped, SameBut
<1>4. connection \in Connections
  BY SteppingParts DEF StartCommand, ServerGood
<1>5. call'[c].pc \notin HoldPc
  BY <1>1, <1>3 DEF HoldPc, Owning
<1>6. NoNewVerdict
  BY FileSameNoVerdict DEF StartCommand, serviceVars
<1>7. QED
  BY <1>1, <1>3, <1>4, <1>5, <1>6, OutsideStep, SteppingParts DEF StartCommand, SideTyped

\* The target of a command that stays outside.
LEMMA StaysOutside ==
    ASSUME Stepping, NEW c \in Callers, call[c].pc # "idle", NEW pc,
           pc \in {"accept", "register", "capacity", "check", "worktree"},
           Goto(c, pc) \/ Return(c)
    PROVE  /\ SameBut(c) /\ call'[c].pc \notin HoldPc
           /\ call'[c].pc # "idle" => call'[c].connection \in Connections
<1>1. CASE Goto(c, pc)
  BY <1>1, GotoMoves, CommandConnected, SteppingParts DEF HoldPc, Owning
<1>2. CASE Return(c)
  BY <1>2, ReturnMoves, SteppingParts DEF HoldPc, Owning
<1>3. QED
  BY <1>1, <1>2

LEMMA StoreStepsHold ==
    ASSUME Stepping, NEW c \in Callers, Create(c) \/ Accept(c) \/ Register(c)
    PROVE  HoldInv'
<1>1. KeyOf(c) \in Keys /\ call[c].project \in Projects /\ call[c].pc # "idle"
  BY CallTyped, SteppingParts DEF Create, Accept, Register, At
<1>2. \E pc \in {"accept", "register", "capacity", "check"} : Goto(c, pc) \/ Return(c)
  BY DEF Create, Accept, Register
<1>3. /\ SameBut(c) /\ call'[c].pc \notin HoldPc
      /\ call'[c].pc # "idle" => call'[c].connection \in Connections
  BY <1>1, <1>2, StaysOutside
<1>4. NoNewVerdict
  <2>1. CASE UNCHANGED serviceVars
    BY <2>1, FileSameNoVerdict DEF serviceVars
  <2>2. CASE CreateTask(KeyOf(c), call[c].project)
    BY <1>1, <2>2, InsertNoVerdict, SteppingParts
  <2>3. CASE AcceptTask(KeyOf(c), call[c].project) \/ RegisterRun(KeyOf(c), call[c].project)
    BY <1>1, <2>3, UpdatesNoVerdict, SteppingParts
  <2>4. QED
    BY <2>1, <2>2, <2>3 DEF Create, Accept, Register
<1>5. evicted' \subseteq Keys /\ worktrees' = worktrees /\ worktrees \subseteq Keys
  BY SteppingParts DEF Create, Accept, Register, SideTyped
<1>6. UNCHANGED <<routerVars, worker, server, nextThread, connection, up, turnsSent>>
  BY DEF Create, Accept, Register
<1>7. QED
  BY <1>3, <1>4, <1>5, <1>6, OutsideStep

LEMMA CapacityHolds ==
    ASSUME Stepping, NEW c \in Callers, Capacity(c) \/ Check(c)
    PROVE  HoldInv'
<1>1. call[c].pc # "idle"
  BY DEF Capacity, Check, At
<1>2. \E pc \in {"check", "worktree"} : Goto(c, pc) \/ Return(c)
  BY DEF Capacity, Check
<1>3. /\ SameBut(c) /\ call'[c].pc \notin HoldPc
      /\ call'[c].pc # "idle" => call'[c].connection \in Connections
  BY <1>1, <1>2, StaysOutside
<1>4. NoNewVerdict /\ worktrees' = worktrees /\ evicted' = evicted
  BY FileSameNoVerdict DEF Capacity, Check, serviceVars
<1>5. worktrees \subseteq Keys /\ evicted \subseteq Keys
  BY SteppingParts DEF SideTyped
<1>6. UNCHANGED <<routerVars, worker, server, nextThread, connection, up, turnsSent>>
  BY DEF Capacity, Check
<1>7. QED
  BY <1>3, <1>4, <1>5, <1>6, OutsideStep

\* TaskWorktreeManager::create makes the command the holder of a run that
\* nobody holds and of which no turn executes.
LEMMA WorktreeHolds ==
    ASSUME Stepping, NEW c \in Callers, Worktree(c)
    PROVE  HoldInv'
<1>1. PICK k \in Keys : call[c].key = k /\ KeyOf(c) = k
  BY CallTyped, SteppingParts DEF KeyOf
<1>2. call[c].pc = "worktree" /\ UNCHANGED <<worker, server, nextThread, connection, up, turnsSent, evicted>>
  BY DEF Worktree, At
<1>3. UNCHANGED serviceVars /\ UNCHANGED routerVars
  BY DEF Worktree
<1>4. worktrees \subseteq Keys /\ evicted \subseteq Keys
  BY SteppingParts DEF SideTyped
<1>5. NoNewVerdict
  BY <1>3, FileSameNoVerdict DEF serviceVars
<1>6. CASE Return(c)
  <2>1. worktrees \subseteq worktrees' /\ worktrees' \subseteq Keys
    BY <1>1, <1>4 DEF Worktree
  <2>2. SameBut(c) /\ call'[c].pc = "idle"
    BY <1>6, ReturnMoves, SteppingParts
  <2>3. QED
    BY <1>2, <1>3, <1>4, <1>5, <2>1, <2>2, OutsideStep DEF HoldPc, Owning
<1>7. CASE k \notin worktrees /\ worktrees' = worktrees \cup {k} /\ Goto(c, "begin")
  <2>1. /\ SameBut(c) /\ call'[c].pc = "begin" /\ call'[c].key = k
        /\ call'[c].connection = call[c].connection
    BY <1>1, <1>7, GotoMoves, SteppingParts
  <2>2. \A d \in Callers : ~Holding(d, k)
    BY <1>7, SteppingParts DEF HoldersGood
  <2>3. ~WorkerHolds(k)
    BY <1>7, SteppingParts DEF HoldersGood
  <2>4. \A d \in Callers, x \in Keys : Holding(d, x)' => Holding(d, x) \/ (d = c /\ x = k)
    BY <2>1 DEF SameBut, Holding
  <2>5. \A x \in Keys : WorkerHolds(x)' <=> WorkerHolds(x)
    BY <1>2 DEF WorkerHolds
  <2>6. HoldersGood'
    BY <1>7, <2>2, <2>3, <2>4, <2>5, SteppingParts DEF HoldersGood
  <2>7. NoLive(k)
    BY <1>7, SteppingParts DEF ServerGood, LiveTurnHasWorktree, NoLive, Live
  <2>8. k \notin evicted /\ TakenUp(k) => KnownReceipt(k)
    BY <1>7, SteppingParts DEF RecordsInv, EvidenceKept, KnownReceipt
  <2>9. PICK b : b = call'[c]
    OBVIOUS
  <2>10. NoLive(k)' /\ (TakenUp(k)' => TakenUp(k)) /\ (KnownReceipt(k) => KnownReceipt(k)')
    BY <1>2, <1>3, <2>7 DEF NoLive, Live, TakenUp, KnownReceipt, serviceVars, Has, Lookup, Position
  <2>11. CommandKnows(b)' /\ CommandRecord(b)'
    <3>1. b.pc = "begin" /\ b.key = k /\ b.connection \in Connections
      BY <1>2, <2>1, <2>9, CommandConnected
    <3>2. NoLive(b.key)' /\ (b.key \notin evicted' /\ TakenUp(b.key)' => KnownReceipt(b.key)')
      BY <1>2, <2>8, <2>10, <3>1
    <3>3. QED
      BY <3>1, <3>2 DEF CommandKnows, CommandRecord, PreTurn
  <2>12. CommandKnows(call[c])' /\ CommandRecord(call[c])'
    BY <2>9, <2>11, CommandKnowsNext, CommandRecordNext
  <2>13. \A d \in Callers : CallGood(d)
    BY <1>2, <2>1, <2>12, IdleStays DEF SameBut, CallGood, CallKept, IdleKept
  <2>14. \A x \in Keys : WorkerGood(x)
    BY <1>2 DEF WorkerGood, WorkerKept
  <2>15. SideOK
    BY <1>1, <1>2, <1>4, <1>7, SteppingParts DEF SideOK, SideTyped, ServerGood
  <2>16. ServerCalm /\ RouterCalm
    BY <1>2, <1>3, ServerSame, RouterSame, SteppingParts
  <2>17. \A x \in Keys \ evicted' : VerdictOK(x)
    BY <1>5, OldVerdicts
  <2>18. \A x \in worktrees \ worktrees' : ReleaseOK(x)
    BY <1>7
  <2>19. QED
    BY <2>6, <2>13, <2>14, <2>15, <2>16, <2>17, <2>18, CalmStep DEF Stepping
<1>8. QED
  BY <1>1, <1>6, <1>7 DEF Worktree

\* A command that holds its run moves on with it, or leaves.
LEMMA HolderStep ==
    ASSUME Stepping, NEW c \in Callers, SameBut(c), call[c].pc \in HoldPc,
           call'[c].key = call[c].key \/ call'[c].pc = "idle",
           worker' = worker, connection' = connection, up' = up, evicted' = evicted,
           \A k \in Keys : turnsSent[k] # 0 => turnsSent'[k] # 0,
           ServerCalm, RouterCalm, \A d \in Callers : d # c => IdleKept(d),
           \A k \in Keys \ evicted' : VerdictOK(k),
           CommandKnows(call[c])', CommandRecord(call[c])',
           \/ worktrees' = worktrees
           \/ /\ worktrees' = worktrees \ {call[c].key}
              /\ call'[c].pc = "idle" /\ ReleaseOK(call[c].key)
    PROVE  HoldInv'
<1>1. \A k \in Keys : Holding(c, k)' => Holding(c, k)
  BY DEF Holding, HoldPc, Owning
<1>2. worktrees' \subseteq Keys /\ evicted' \subseteq Keys
  BY SteppingParts DEF SideTyped
<1>3. \A k \in worktrees \ worktrees' : Holding(c, k) /\ ~Holding(c, k)' /\ ReleaseOK(k)
  BY DEF Holding, HoldPc, Owning
<1>4. QED
  BY <1>1, <1>2, <1>3, CommandStep DEF SameBut

LEMMA IdleGood ==
    ASSUME NEW c \in Callers, call'[c].pc = "idle"
    PROVE  CommandKnows(call[c])' /\ CommandRecord(call[c])'
BY OutsideGood DEF HoldPc, Owning

\* Before turn/start no turn of the run executes, and none was ever taken up
\* while its record is kept.
LEMMA PreTurnKnows ==
    ASSUME Stepping, NEW c \in Callers, NEW k \in Keys, Claims(c, k), ServerCalm
    PROVE  /\ NoLive(k) /\ NoLive(k)'
           /\ k \notin evicted => ~TakenUp(k) /\ ~TakenUp(k)'
<1>1. ServerKept /\ CalmFor(k)
  BY DEF ServerCalm, CalmFor
<1>2. NoLive(k)
  BY SteppingParts DEF TurnsInv, CommandKnows, Claims
<1>3. k \notin evicted => ~TakenUp(k)
  BY SteppingParts DEF ClaimInv, RecordsInv
<1>4. QED
  BY <1>1, <1>2, <1>3, TurnsStay, SteppingParts

LEMMA FinishStartGood ==
    ASSUME Stepping, NEW c \in Callers, NEW k \in Keys, call[c].key = k, call[c].pc # "idle",
           NEW outcome, FinishStart(c, outcome),
           \/ outcome = "outcomeUnknown"
           \/ outcome = "failed" /\ NoLive(k)' /\ (k \notin evicted' => ~TakenUp(k)')
    PROVE  /\ SameBut(c) /\ call'[c].key = call[c].key
           /\ CommandKnows(call[c])' /\ CommandRecord(call[c])'
<1>1. PICK b : b = call'[c]
  OBVIOUS
<1>2. /\ SameBut(c) /\ b.pc = "collect" /\ b.key = k /\ b.connection \in Connections
      /\ b.outcome = outcome
  BY <1>1, FinishStartMoves, CommandConnected, SteppingParts
<1>3. CommandKnows(b)'
  <2>1. b.outcome = "outcomeUnknown" \/ (b.outcome = "failed" /\ NoLive(b.key)')
    BY <1>2
  <2>2. QED
    BY <1>2, <2>1 DEF CommandKnows, PreTurn
<1>4. CommandRecord(b)'
  <2>1. b.outcome = "failed" => (b.key \notin evicted' => ~TakenUp(b.key)')
    BY <1>2
  <2>2. QED
    BY <1>2, <2>1 DEF CommandRecord, PreTurn
<1>5. QED
  BY <1>1, <1>2, <1>3, <1>4, CommandKnowsNext, CommandRecordNext

\* begin_run: the run is taken, or another attempt was faster.
LEMMA BeginHolds ==
    ASSUME Stepping, NEW c \in Callers, BeginRunStep(c)
    PROVE  HoldInv'
<1>1. PICK k \in Keys : call[c].key = k /\ KeyOf(c) = k
  BY CallTyped, SteppingParts DEF KeyOf
<1>2. /\ call[c].pc = "begin" /\ call[c].pc \in HoldPc
      /\ UNCHANGED <<worker, server, nextThread, connection, up, turnsSent, evicted>>
      /\ UNCHANGED routerVars
  BY DEF BeginRunStep, At, HoldPc
<1>3. ServerCalm /\ RouterCalm /\ \A d \in Callers : d # c => IdleKept(d)
  BY <1>2, ServerSame, RouterSame, IdleStays, SteppingParts
<1>4. CommandKnows(call[c]) /\ CommandRecord(call[c])
  BY SteppingParts DEF TurnsInv, RecordsInv
<1>5. NoLive(k) /\ (k \notin evicted /\ TakenUp(k) => KnownReceipt(k))
  BY <1>1, <1>2, <1>4 DEF CommandKnows, CommandRecord
<1>6. CASE Return(c) /\ UNCHANGED serviceVars
  <2>1. SameBut(c) /\ call'[c].pc = "idle"
    BY <1>6, ReturnMoves, SteppingParts
  <2>2. worktrees' = worktrees \/ worktrees' = worktrees \ {k}
    BY <1>1 DEF BeginRunStep, Cleanup
  <2>3. \A x \in Keys \ evicted' : VerdictOK(x)
    BY <1>6, FileSame DEF serviceVars
  <2>4. ReleaseOK(k)
    BY <1>5 DEF ReleaseOK
  <2>5. QED
    BY <1>1, <1>2, <1>3, <2>1, <2>2, <2>3, <2>4, IdleGood, HolderStep
<1>7. CASE BeginRun(k) /\ Goto(c, "thread") /\ worktrees' = worktrees
  <2>1. /\ SameBut(c) /\ call'[c].pc = "thread" /\ call'[c].key = k
        /\ call'[c].connection = call[c].connection
    BY <1>1, <1>7, GotoMoves, SteppingParts
  <2>2. NoNewVerdict
    BY <1>7, UpdatesNoVerdict, SteppingParts
  <2>3. ~(Has(disk', k) /\ Lookup(disk', k).run = "failed")
    <3>1. Lookup(disk, k).run = "queued"
      BY <1>7, StoredOK, SteppingParts DEF BeginRun
    <3>2. QED
      BY <2>2, <3>1, VerdictWasThere, SteppingParts DEF Verdict
  <2>4. NoLive(k)'
    BY <1>2, <1>5 DEF NoLive, Live
  <2>5. PICK b : b = call'[c]
    OBVIOUS
  <2>6. b.pc = "thread" /\ b.key = k /\ b.connection \in Connections
    BY <1>2, <2>1, <2>5, CommandConnected
  <2>7. CommandKnows(b)'
    BY <2>4, <2>6 DEF CommandKnows
  <2>8. CommandRecord(b)'
    BY <2>3, <2>6 DEF CommandRecord, Has, Lookup, Position
  <2>9. CommandKnows(call[c])' /\ CommandRecord(call[c])'
    BY <2>5, <2>7, <2>8, CommandKnowsNext, CommandRecordNext
  <2>10. \A x \in Keys \ evicted' : VerdictOK(x)
    BY <2>2, OldVerdicts
  <2>11. QED
    BY <1>1, <1>2, <1>3, <1>7, <2>1, <2>9, <2>10, HolderStep
<1>8. QED
  BY <1>1, <1>6, <1>7 DEF BeginRunStep

\* A command at the call of thread/start, prepare_run or turn/start.
LEMMA AtPreTurn ==
    ASSUME Stepping, NEW c \in Callers, call[c].pc \in PreTurn
    PROVE  /\ call[c].pc \in HoldPc /\ call[c].pc # "idle" /\ call[c].key \in Keys
           /\ Claims(c, call[c].key)
BY CallTyped, SteppingParts DEF PreTurn, HoldPc, Owning, Claims, KeyOf

LEMMA ThreadStartHolds ==
    ASSUME Stepping, NEW c \in Callers, ThreadStart(c)
    PROVE  HoldInv'
<1>1. PICK k \in Keys : call[c].key = k /\ KeyOf(c) = k
  BY CallTyped, SteppingParts DEF KeyOf
<1>2. /\ call[c].pc = "thread" /\ UNCHANGED <<worker, worktrees, connection, up, turnsSent, evicted>>
      /\ UNCHANGED serviceVars /\ UNCHANGED routerVars
  BY DEF ThreadStart, At
<1>3. call[c].pc \in HoldPc /\ call[c].pc # "idle" /\ Claims(c, k)
  BY <1>1, <1>2, AtPreTurn DEF PreTurn
<1>4. RouterCalm /\ \A x \in Keys \ evicted' : VerdictOK(x)
  BY <1>2, RouterSame, FileSame, SteppingParts DEF serviceVars
<1>5. CASE FinishStart(c, "failed") /\ UNCHANGED <<server, nextThread>>
  <2>1. ServerCalm /\ \A d \in Callers : d # c => IdleKept(d)
    BY <1>5, ServerSame, IdleStays, SteppingParts
  <2>2. NoLive(k)' /\ (k \notin evicted' => ~TakenUp(k)')
    BY <1>2, <1>3, <2>1, PreTurnKnows
  <2>3. /\ SameBut(c) /\ call'[c].key = call[c].key
        /\ CommandKnows(call[c])' /\ CommandRecord(call[c])'
    BY <1>1, <1>3, <1>5, <2>2, FinishStartGood
  <2>4. QED
    BY <1>2, <1>3, <1>4, <2>1, <2>3, HolderStep
<1>6. CASE /\ nextThread \in Threads
           /\ server' = [server EXCEPT ![nextThread] = [NoThread EXCEPT !.key = k, !.phase = "idle"]]
           /\ call' = [call EXCEPT ![c].pc = "prepare", ![c].thread = nextThread]
           /\ nextThread' = nextThread + 1
  <2> DEFINE t == [NoThread EXCEPT !.key = k, !.phase = "idle"]
             r == [call[c] EXCEPT !.pc = "prepare", !.thread = nextThread]
  <2>1. t \in Turn /\ t.key = k /\ t.phase = "idle" /\ t.end = "none"
    BY NoThreadTyped DEF Turn, TurnPhase
  <2>2. /\ r.pc = "prepare" /\ r.key = k /\ r.thread = nextThread
        /\ r.connection = call[c].connection
    BY <1>1, CallTyped, SteppingParts DEF Call
  <2>3. server' = [server EXCEPT ![nextThread] = t] /\ call' = [call EXCEPT ![c] = r]
    BY <1>6
  <2> HIDE DEF t, r
  <2>4. call'[c] = r /\ SameBut(c)
    BY <2>3, SteppingParts DEF RunTyped, SameBut
  <2>5. /\ server' \in [Threads -> Turn] /\ server'[nextThread] = t
        /\ \A h \in Threads : h # nextThread => server'[h] = server[h]
    BY <1>6, <2>1, <2>3, SteppingParts DEF SideTyped
  <2>6. nextThread \in Int /\ \A h \in Threads : h \in Int
    BY <1>6, StreamsAreNumbers
  <2>7. nextThread' \in 1..MaxStreams + 1 /\ nextThread <= nextThread'
    BY <1>6, <2>6, StreamsAreNumbers DEF Streams
  <2>8. ServerKept
    <3>1. server[nextThread] = NoThread
      BY <1>6, <2>6, SteppingParts DEF ServerGood
    <3>2. \A h \in Threads : h >= nextThread' => h >= nextThread /\ h # nextThread
      BY <1>6, <2>6
    <3>3. \A h \in Threads : h >= nextThread' => server'[h] = NoThread
      BY <2>5, <3>2, SteppingParts DEF ServerGood
    <3>4. \A h \in Threads : h < nextThread => server'[h].key = server[h].key
      BY <2>5, <2>6
    <3>5. \A h \in Threads : server'[h].end # "none" => server'[h].phase = "over"
      BY <2>1, <2>5, SteppingParts DEF ServerGood
    <3>6. \A h \in Threads :
              server[h].phase = "over" => server'[h].phase = "over" /\ server'[h].end = server[h].end
      BY <2>5, <3>1, NoThreadTyped
    <3>7. QED
      BY <2>5, <2>7, <3>3, <3>4, <3>5, <3>6 DEF ServerKept
  <2>9. ServerCalm
    BY <2>1, <2>5, <2>8 DEF ServerCalm, Taken, Live
  <2>10. ASSUME NEW d \in Callers PROVE IdleKept(d)
    <3>1. PICK b : b = call[d]
      OBVIOUS
    <3>2. CommandKnows(b)
      BY <3>1, SteppingParts DEF TurnsInv
    <3>3. QED
      BY <2>5, <2>6, <3>1, <3>2 DEF CommandKnows, IdleKept
  <2>11. NoLive(k)'
    BY <1>3, <2>9, PreTurnKnows
  <2>12. PICK b : b = call'[c]
    OBVIOUS
  <2>13. b.pc = "prepare" /\ b.key = k /\ b.thread = nextThread /\ b.connection \in Connections
    BY <1>3, <2>2, <2>4, <2>12, CommandConnected
  <2>14. CommandKnows(b)'
    <3>1. /\ b.thread \in Threads /\ b.thread < nextThread'
          /\ server'[b.thread].key = b.key /\ server'[b.thread].phase = "idle"
      BY <1>6, <2>1, <2>5, <2>6, <2>13
    <3>2. NoLive(b.key)'
      BY <2>11, <2>13
    <3>3. QED
      BY <2>13, <3>1, <3>2 DEF CommandKnows
  <2>15. CommandRecord(b)'
    <3>1. k \notin evicted => ~(Has(disk, k) /\ Lookup(disk, k).run = "failed")
      BY <1>1, <1>2, SteppingParts DEF RecordsInv, CommandRecord, PreTurn
    <3>2. QED
      BY <1>2, <2>13, <3>1 DEF CommandRecord, serviceVars, Has, Lookup, Position
  <2>16. CommandKnows(call[c])' /\ CommandRecord(call[c])'
    BY <2>12, <2>14, <2>15, CommandKnowsNext, CommandRecordNext
  <2>17. QED
    BY <1>1, <1>2, <1>3, <1>4, <2>2, <2>4, <2>9, <2>10, <2>16, HolderStep
<1>7. QED
  BY <1>1, <1>5, <1>6 DEF ThreadStart

LEMMA PrepareHolds ==
    ASSUME Stepping, NEW c \in Callers, Prepare(c)
    PROVE  HoldInv'
<1>1. PICK k \in Keys : call[c].key = k /\ KeyOf(c) = k
  BY CallTyped, SteppingParts DEF KeyOf
<1>2. /\ call[c].pc = "prepare"
      /\ UNCHANGED <<worker, worktrees, server, nextThread, connection, up, turnsSent, evicted>>
      /\ UNCHANGED serviceVars
  BY DEF Prepare, At
<1>3. call[c].pc \in HoldPc /\ call[c].pc # "idle" /\ Claims(c, k)
  BY <1>1, <1>2, AtPreTurn DEF PreTurn
<1>4. ServerCalm /\ \A d \in Callers : d # c => IdleKept(d)
  BY <1>2, ServerSame, IdleStays, SteppingParts
<1>5. \A x \in Keys \ evicted' : VerdictOK(x)
  BY <1>2, FileSame DEF serviceVars
<1>6. NoLive(k)' /\ (k \notin evicted' => ~TakenUp(k)')
  BY <1>2, <1>3, <1>4, PreTurnKnows
<1>7. CASE FinishStart(c, "failed") /\ UNCHANGED routerVars
  <2>1. RouterCalm
    BY <1>7, RouterSame, SteppingParts
  <2>2. /\ SameBut(c) /\ call'[c].key = call[c].key
        /\ CommandKnows(call[c])' /\ CommandRecord(call[c])'
    BY <1>1, <1>3, <1>6, <1>7, FinishStartGood
  <2>3. QED
    BY <1>2, <1>3, <1>4, <1>5, <2>1, <2>2, HolderStep
<1>8. CASE /\ PrepareRun(call[c].connection, k, call[c].thread)
           /\ call' = [call EXCEPT ![c].pc = "turn", ![c].stream = nextRoute]
  <2>1. PICK h \in Threads : /\ h = call[c].thread /\ h < nextThread
                             /\ server[h].key = k /\ server[h].phase = "idle"
    BY <1>1, <1>2, SteppingParts DEF TurnsInv, CommandKnows
  <2>2. PICK n \in Connections : n = call[c].connection
    BY <1>3, CommandConnected
  <2>3. PrepareRun(n, k, h)
    BY <1>8, <2>1, <2>2
  <2>4. /\ RouterCalm /\ nextRoute' = nextRoute + 1 /\ nextRoute \in Streams
        /\ \A e : ~InQueue(queue'[nextRoute].events, e)
        /\ \A r \in routes' : r.id = nextRoute => r.thread = h
    BY <2>3, PrepareCalm, SteppingParts
  <2> DEFINE r == [call[c] EXCEPT !.pc = "turn", !.stream = nextRoute]
  <2>5. r.pc = "turn" /\ r.key = k /\ r.thread = h /\ r.connection = n /\ r.stream = nextRoute
    BY <1>1, <2>1, <2>2, CallTyped, SteppingParts DEF Call
  <2>6. call' = [call EXCEPT ![c] = r]
    BY <1>8
  <2> HIDE DEF r
  <2>7. call'[c] = r /\ SameBut(c)
    BY <2>6, SteppingParts DEF RunTyped, SameBut
  <2>8. PICK b : b = call'[c]
    OBVIOUS
  <2>9. PICK s \in Streams : s = nextRoute
    BY <2>4
  <2>10. b.pc = "turn" /\ b.key = k /\ b.thread = h /\ b.connection = n /\ b.stream = s
    BY <2>5, <2>7, <2>8, <2>9
  <2>11. Carries(s, h, k)'
    <3>1. s < nextRoute'
      BY <2>4, <2>9, StreamsAreNumbers
    <3>2. h < nextThread' /\ server'[h].key = k
      BY <1>2, <2>1
    <3>3. \A q \in routes' : q.id = s => q.thread = h
      BY <2>4, <2>9
    <3>4. \A e \in TerminalEvent : ~InQueue(queue'[s].events, e)
      BY <2>4, <2>9
    <3>5. QED
      BY <3>1, <3>2, <3>3, <3>4 DEF Carries, InQueue
  <2>12. CommandKnows(b)'
    <3>1. NoLive(b.key)' /\ Carries(b.stream, b.thread, b.key)'
      BY <1>6, <2>10, <2>11
    <3>2. /\ b.thread \in Threads /\ b.thread < nextThread'
          /\ server'[b.thread].key = b.key /\ server'[b.thread].phase = "idle"
      BY <1>2, <2>1, <2>10
    <3>3. QED
      BY <2>10, <3>1, <3>2 DEF CommandKnows
  <2>13. CommandRecord(b)'
    <3>1. k \notin evicted => ~(Has(disk, k) /\ Lookup(disk, k).run = "failed")
      BY <1>1, <1>2, SteppingParts DEF RecordsInv, CommandRecord, PreTurn
    <3>2. QED
      BY <1>2, <2>10, <3>1 DEF CommandRecord, serviceVars, Has, Lookup, Position
  <2>14. CommandKnows(call[c])' /\ CommandRecord(call[c])'
    BY <2>8, <2>12, <2>13, CommandKnowsNext, CommandRecordNext
  <2>15. QED
    BY <1>1, <1>2, <1>3, <1>4, <1>5, <2>4, <2>5, <2>7, <2>14, HolderStep
<1>9. QED
  BY <1>1, <1>7, <1>8 DEF Prepare

\* Waiting for the response to turn/start, and binding the turn it names.
LEMMA AwaitHolds ==
    ASSUME Stepping, NEW c \in Callers, Await(c) \/ Bind(c)
    PROVE  HoldInv'
<1>1. PICK k \in Keys : call[c].key = k /\ KeyOf(c) = k
  BY CallTyped, SteppingParts DEF KeyOf
<1>2. /\ call[c].pc \in {"await", "bind"}
      /\ UNCHANGED <<worker, worktrees, server, nextThread, connection, up, turnsSent, evicted>>
      /\ UNCHANGED serviceVars
  BY DEF Await, Bind, At
<1>3. call[c].pc \in HoldPc /\ call[c].pc # "idle"
  BY <1>2 DEF HoldPc, Owning
<1>4. ServerCalm /\ \A d \in Callers : d # c => IdleKept(d)
  BY <1>2, ServerSame, IdleStays, SteppingParts
<1>5. \A x \in Keys \ evicted' : VerdictOK(x)
  BY <1>2, FileSame DEF serviceVars
<1>6. PICK a \in Call : a = call[c]
  BY CallTyped, SteppingParts
<1>7. CommandKnows(a)
  BY <1>6, SteppingParts DEF TurnsInv
<1>8. a.thread \in Threads /\ a.thread \in Turns
  BY <1>2, <1>6, <1>7, StreamsAreNumbers DEF CommandKnows, Carries
<1>9. RouterCalm
  BY <1>6, <1>8, RouterSame, DropCalm, BindCalm, SteppingParts DEF Await, Bind
<1>10. CASE FinishStart(c, "outcomeUnknown")
  <2>1. /\ SameBut(c) /\ call'[c].key = call[c].key
        /\ CommandKnows(call[c])' /\ CommandRecord(call[c])'
    BY <1>1, <1>3, <1>10, FinishStartGood
  <2>2. QED
    BY <1>2, <1>3, <1>4, <1>5, <1>9, <2>1, HolderStep
<1>11. CASE \E pc \in {"bind", "spawn"} : Goto(c, pc)
  <2>1. PICK pc \in {"bind", "spawn"} : Goto(c, pc)
    BY <1>11
  <2>2. PICK b : b = call'[c]
    OBVIOUS
  <2>3. /\ SameBut(c) /\ b.pc = pc /\ b.key = a.key /\ b.connection = a.connection
        /\ b.thread = a.thread /\ b.stream = a.stream
    BY <1>6, <2>1, <2>2, GotoMoves, SteppingParts
  <2>4. Carries(a.stream, a.thread, a.key)' /\ OnlyLive(a.key, a.thread)'
    <3>1. Carries(a.stream, a.thread, a.key) /\ OnlyLive(a.key, a.thread)
      BY <1>2, <1>6, <1>7 DEF CommandKnows
    <3>2. ServerKept /\ CalmFor(a.key)
      BY <1>4 DEF ServerCalm, CalmFor
    <3>3. QED
      BY <1>8, <1>9, <3>1, <3>2, CarriesStays, TurnsStay, SteppingParts
  <2>5. CommandKnows(b)'
    <3>1. Carries(b.stream, b.thread, b.key)' /\ OnlyLive(b.key, b.thread)'
      BY <2>3, <2>4
    <3>2. b.connection \in Connections
      BY <1>3, <1>6, <2>3, CommandConnected
    <3>3. QED
      BY <2>3, <3>1, <3>2 DEF CommandKnows, PreTurn
  <2>6. CommandRecord(b)'
    BY <2>3 DEF CommandRecord, PreTurn
  <2>7. CommandKnows(call[c])' /\ CommandRecord(call[c])'
    BY <2>2, <2>5, <2>6, CommandKnowsNext, CommandRecordNext
  <2>8. call'[c].key = call[c].key
    BY <1>6, <2>2, <2>3
  <2>9. QED
    BY <1>2, <1>3, <1>4, <1>5, <1>9, <2>3, <2>7, <2>8, HolderStep
<1>12. QED
  BY <1>10, <1>11 DEF Await, Bind

-----------------------------------------------------------------------------
(***************************************************************************)
(* turn/start.                                                             *)
(***************************************************************************)
\* A command about to send turn/start is alone with its thread.
LEMMA ThreadsApart ==
    ASSUME Stepping, NEW c \in Callers, NEW d \in Callers, c # d,
           call[c].pc = "turn", call[d].pc \in {"prepare", "turn"}
    PROVE  call[d].thread # call[c].thread
<1>1. PICK a \in Call : a = call[c]
  BY CallTyped, SteppingParts
<1>2. PICK b \in Call : b = call[d]
  BY CallTyped, SteppingParts
<1>3. CommandKnows(a) /\ CommandKnows(b)
  BY <1>1, <1>2, SteppingParts DEF TurnsInv
<1>4. server[a.thread].key = a.key /\ server[b.thread].key = b.key
  BY <1>1, <1>2, <1>3 DEF CommandKnows
<1>5. a.key # b.key
  <2>1. a.key \in Keys /\ Holding(c, a.key) /\ Holding(d, b.key)
    BY <1>1, <1>2 DEF Call, Holding, HoldPc, Owning
  <2>2. QED
    BY <2>1, SteppingParts DEF HoldersGood
<1>6. QED
  BY <1>1, <1>2, <1>4, <1>5

LEMMA SendMoves ==
    ASSUME Stepping, NEW c \in Callers, NEW phase \in {"accepted", "refused"}, SendTurn(c, phase),
           NEW h \in Threads, h = call[c].thread, server[h].phase = "idle", nextThread' = nextThread,
           NEW k \in Keys, KeyOf(c) = k
    PROVE  /\ ServerKept /\ server'[h].phase = phase /\ server'[h].key = server[h].key
           /\ \A x \in Threads : x # h => server'[x] = server[x]
           /\ turnsSent'[k] # 0
           /\ \A x \in Keys : turnsSent[x] # 0 => turnsSent'[x] # 0
<1> DEFINE t == [server[h] EXCEPT !.phase = phase]
<1>1. server[h] \in Turn /\ phase \in TurnPhase
  BY SteppingParts DEF SideTyped, TurnPhase
<1>2. t \in Turn /\ t.phase = phase /\ t.key = server[h].key /\ t.end = server[h].end
  BY <1>1 DEF Turn
<1>3. server' = [server EXCEPT ![h] = t]
  BY DEF SendTurn
<1> HIDE DEF t
<1>4. /\ server' \in [Threads -> Turn] /\ server'[h] = t
      /\ \A x \in Threads : x # h => server'[x] = server[x]
  BY <1>2, <1>3, SteppingParts DEF SideTyped
<1>5. h < nextThread
  BY SteppingParts, MadeThread
<1>6. nextThread \in 1..MaxStreams + 1 /\ nextThread <= nextThread /\ h \in Int /\ ~(h >= nextThread)
  BY <1>5, StreamsAreNumbers, SteppingParts DEF SideTyped
<1>7. t.end = "none"
  BY <1>2, SteppingParts DEF ServerGood
<1>8. ServerKept
  BY <1>2, <1>4, <1>6, <1>7, SteppingParts DEF ServerKept, ServerGood
<1>9. turnsSent \in [Keys -> Nat] /\ turnsSent' = [turnsSent EXCEPT ![k] = turnsSent[k] + 1]
  BY SteppingParts DEF SendTurn, RunTyped
<1>10. turnsSent[k] + 1 # 0
  BY <1>9
<1>11. turnsSent'[k] # 0 /\ \A x \in Keys : turnsSent[x] # 0 => turnsSent'[x] # 0
  BY <1>9, <1>10
<1>12. QED
  BY <1>2, <1>4, <1>8, <1>11

LEMMA AtTurn ==
    ASSUME Stepping, NEW c \in Callers, TurnStart(c), NEW k \in Keys, call[c].key = k
    PROVE  /\ call[c].pc = "turn" /\ call[c].pc \in HoldPc /\ Claims(c, k)
           /\ UNCHANGED <<worker, worktrees, nextThread, connection, up, evicted>>
           /\ UNCHANGED serviceVars /\ RouterCalm
           /\ \A x \in Keys \ evicted' : VerdictOK(x)
           /\ \E h \in Threads : /\ h = call[c].thread /\ h < nextThread
                                 /\ server[h].key = k /\ server[h].phase = "idle"
<1>1. /\ call[c].pc = "turn" /\ UNCHANGED <<worker, worktrees, nextThread, connection, up, evicted>>
      /\ UNCHANGED serviceVars
  BY DEF TurnStart, At
<1>2. call[c].pc \in HoldPc /\ Claims(c, k)
  BY <1>1, AtPreTurn DEF PreTurn
<1>3. \E h \in Threads : /\ h = call[c].thread /\ h < nextThread
                         /\ server[h].key = k /\ server[h].phase = "idle"
  BY <1>1, SteppingParts DEF TurnsInv, CommandKnows
<1>4. \A x \in Keys \ evicted' : VerdictOK(x)
  BY <1>1, FileSame DEF serviceVars
<1>5. RouterCalm
  BY RouterSame, DropCalm, SteppingParts DEF TurnStart
<1>6. QED
  BY <1>1, <1>2, <1>3, <1>4, <1>5

\* The turn is not taken up: the request is refused, or not sent.
LEMMA TurnStartCalm ==
    ASSUME Stepping, NEW c \in Callers, TurnStart(c),
           \/ /\ UNCHANGED <<server, turnsSent>>
              /\ FinishStart(c, "failed") \/ FinishStart(c, "outcomeUnknown")
           \/ SendTurn(c, "refused") /\ FinishStart(c, "failed")
    PROVE  HoldInv'
<1>1. PICK k \in Keys : call[c].key = k /\ KeyOf(c) = k
  BY CallTyped, SteppingParts DEF KeyOf
<1>2. /\ call[c].pc = "turn" /\ call[c].pc \in HoldPc /\ Claims(c, k)
      /\ UNCHANGED <<worker, worktrees, nextThread, connection, up, evicted>>
      /\ UNCHANGED serviceVars /\ RouterCalm
      /\ \A x \in Keys \ evicted' : VerdictOK(x)
  BY <1>1, AtTurn
<1>3. PICK h \in Threads : /\ h = call[c].thread /\ h < nextThread
                           /\ server[h].key = k /\ server[h].phase = "idle"
  BY <1>1, AtTurn
<1>4. /\ ServerCalm /\ \A d \in Callers : d # c => IdleKept(d)
      /\ \A x \in Keys : turnsSent[x] # 0 => turnsSent'[x] # 0
  <2>1. CASE UNCHANGED <<server, turnsSent>>
    BY <1>2, <2>1, ServerSame, IdleStays, SteppingParts
  <2>2. CASE SendTurn(c, "refused")
    <3>1. /\ ServerKept /\ server'[h].phase = "refused"
          /\ \A x \in Threads : x # h => server'[x] = server[x]
          /\ \A x \in Keys : turnsSent[x] # 0 => turnsSent'[x] # 0
      BY <1>1, <1>2, <1>3, <2>2, SendMoves
    <3>2. ServerCalm
      BY <3>1 DEF ServerCalm, Taken, Live
    <3>3. ASSUME NEW d \in Callers, d # c PROVE IdleKept(d)
      <4>1. PICK b : b = call[d]
        OBVIOUS
      <4>2. CommandKnows(b)
        BY <4>1, SteppingParts DEF TurnsInv
      <4>3. b.pc \in {"prepare", "turn"} =>
                b.thread # h /\ b.thread \in Threads /\ server[b.thread].phase = "idle"
        BY <1>2, <1>3, <3>3, <4>1, <4>2, ThreadsApart DEF CommandKnows
      <4>4. QED
        BY <3>1, <4>1, <4>3 DEF IdleKept
    <3>4. QED
      BY <3>1, <3>2, <3>3
  <2>3. QED
    BY <2>1, <2>2
<1>5. NoLive(k)' /\ (k \notin evicted' => ~TakenUp(k)')
  BY <1>2, <1>4, PreTurnKnows
<1>6. PICK outcome \in {"failed", "outcomeUnknown"} : FinishStart(c, outcome)
  OBVIOUS
<1>7. /\ SameBut(c) /\ call'[c].key = call[c].key
      /\ CommandKnows(call[c])' /\ CommandRecord(call[c])'
  BY <1>1, <1>2, <1>5, <1>6, FinishStartGood
<1>8. QED
  BY <1>2, <1>4, <1>7, HolderStep

\* A command that holds nothing for k knows nothing that a turn of k could
\* disturb.
LEMMA BystanderKnows ==
    ASSUME Stepping, ServerKept, RouterCalm, NEW c \in Callers, NEW d \in Callers, d # c,
           call'[d] = call[d], NEW k \in Keys, Holding(c, k), \A x : x # k => CalmFor(x),
           IdleKept(d), \A x \in Keys \ evicted' : VerdictOK(x)
    PROVE  CommandKnows(call[d])' /\ CommandRecord(call[d])'
<1>1. PICK b \in Call : b = call[d]
  BY CallTyped, SteppingParts
<1>2. CommandKnows(b) /\ CommandRecord(b) /\ b.key \in Keys /\ call'[d] = b
  BY <1>1, SteppingParts DEF TurnsInv, RecordsInv, Call
<1>3. CASE b.pc \in HoldPc
  <2>1. b.key # k
    BY <1>1, <1>2, <1>3, SteppingParts DEF HoldersGood, Holding
  <2>2. CommandKnows(b)'
    BY <1>1, <1>2, <2>1, CommandKnowsStays, SteppingParts DEF IdleKept
  <2>3. CommandRecord(b)'
    BY <1>2, <2>1, CommandRecordStays, SteppingParts
  <2>4. QED
    BY <1>2, <2>2, <2>3, CommandKnowsNext, CommandRecordNext
<1>4. CASE b.pc \notin HoldPc
  <2>1. b.pc # "idle" => b.connection \in Connections
    BY <1>1, CommandConnected
  <2>2. QED
    BY <1>2, <1>4, <2>1, OutsideGood
<1>5. QED
  BY <1>3, <1>4

\* The turn is taken up, or may have been.
LEMMA TurnTaken ==
    ASSUME Stepping, NEW c \in Callers, TurnStart(c), SendTurn(c, "accepted"),
           Goto(c, "await") \/ FinishStart(c, "outcomeUnknown")
    PROVE  HoldInv'
<1>1. PICK k \in Keys : call[c].key = k /\ KeyOf(c) = k
  BY CallTyped, SteppingParts DEF KeyOf
<1>2. /\ call[c].pc = "turn" /\ call[c].pc \in HoldPc /\ Claims(c, k)
      /\ UNCHANGED <<worker, worktrees, nextThread, connection, up, evicted>>
      /\ UNCHANGED serviceVars /\ RouterCalm
      /\ \A x \in Keys \ evicted' : VerdictOK(x)
  BY <1>1, AtTurn
<1>3. PICK h \in Threads : /\ h = call[c].thread /\ h < nextThread
                           /\ server[h].key = k /\ server[h].phase = "idle"
  BY <1>1, AtTurn
<1>4. /\ ServerKept /\ server'[h].phase = "accepted" /\ server'[h].key = k
      /\ \A x \in Threads : x # h => server'[x] = server[x]
      /\ turnsSent'[k] # 0
      /\ \A x \in Keys : turnsSent[x] # 0 => turnsSent'[x] # 0
  BY <1>1, <1>2, <1>3, SendMoves
<1>5. Holding(c, k) /\ k \in worktrees /\ ~WorkerHolds(k)
  BY <1>1, <1>2, SteppingParts DEF Holding, HoldersGood
<1>6. NoLive(k)
  BY <1>2, SteppingParts DEF TurnsInv, CommandKnows, Claims
<1>7. \A x : x # k => CalmFor(x)
  BY <1>4 DEF CalmFor, Taken, Live
<1>8. SameBut(c) /\ call'[c].key = k /\ call'[c].pc \in HoldPc
  BY <1>1, GotoMoves, FinishStartMoves, SteppingParts DEF HoldPc, Owning
<1>9. HoldersGood'
  <2>1. \A d \in Callers, x \in Keys : Holding(d, x)' => Holding(d, x)
    BY <1>1, <1>2, <1>8 DEF SameBut, Holding
  <2>2. \A x \in Keys : WorkerHolds(x)' => WorkerHolds(x)
    BY <1>2 DEF WorkerHolds
  <2>3. QED
    BY <1>2, <2>1, <2>2, CalmHolders, SteppingParts
<1>10. ServerGood'
  <2>1. \A x \in Threads : Live(x)' => x = h \/ (Live(x) /\ server'[x] = server[x])
    BY <1>4 DEF Live
  <2>2. OneLiveTurn'
    <3> SUFFICES ASSUME NEW x \in Threads, NEW y \in Threads, Live(x)', Live(y)',
                        server'[x].key = server'[y].key
                 PROVE  x = y
      BY DEF OneLiveTurn, Live
    <3>1. CASE x = h
      BY <1>4, <1>6, <2>1, <3>1 DEF NoLive
    <3>2. CASE y = h
      BY <1>4, <1>6, <2>1, <3>2 DEF NoLive
    <3>3. CASE x # h /\ y # h
      BY <2>1, <3>3, SteppingParts DEF ServerGood, OneLiveTurn, Live
    <3>4. QED
      BY <3>1, <3>2, <3>3
  <2>3. LiveTurnHasWorktree'
    <3> SUFFICES ASSUME NEW x \in Threads, Live(x)' PROVE server'[x].key \in worktrees'
      BY DEF LiveTurnHasWorktree, Live
    <3>1. QED
      BY <1>2, <1>4, <1>5, <2>1, SteppingParts DEF ServerGood, LiveTurnHasWorktree, Live
  <2>4. QED
    BY <1>2, <1>4, <2>2, <2>3, SteppingParts DEF ServerGood, ServerKept, RouterCalm
<1>11. CommandKnows(call[c])' /\ CommandRecord(call[c])'
  <2>1. CASE FinishStart(c, "outcomeUnknown")
    BY <1>1, <1>2, <2>1, FinishStartGood
  <2>2. CASE Goto(c, "await")
    <3>1. PICK a : a = call[c]
      OBVIOUS
    <3>2. PICK b : b = call'[c]
      OBVIOUS
    <3>3. /\ b.pc = "await" /\ b.key = k /\ b.connection \in Connections
          /\ b.thread = h /\ b.stream = a.stream /\ a.pc = "turn" /\ a.thread = h /\ a.key = k
      BY <1>1, <1>2, <1>3, <2>2, <3>1, <3>2, GotoMoves, CommandConnected, SteppingParts
    <3>4. Carries(a.stream, h, k)
      BY <3>1, <3>3, SteppingParts DEF TurnsInv, CommandKnows
    <3>5. Carries(a.stream, h, k)'
      BY <1>2, <1>4, <3>4, CarriesStays, SteppingParts
    <3>6. OnlyLive(k, h)'
      BY <1>4, <1>6 DEF OnlyLive, NoLive, Live
    <3>7. Carries(b.stream, b.thread, b.key)' /\ OnlyLive(b.key, b.thread)'
      BY <3>3, <3>5, <3>6
    <3>8. CommandKnows(b)' /\ CommandRecord(b)'
      BY <3>3, <3>7 DEF CommandKnows, CommandRecord, PreTurn
    <3>9. QED
      BY <3>2, <3>8, CommandKnowsNext, CommandRecordNext
  <2>3. QED
    BY <2>1, <2>2
<1>12. ASSUME NEW d \in Callers PROVE CommandKnows(call[d])' /\ CommandRecord(call[d])'
  <2>1. CASE d = c
    BY <1>11, <2>1
  <2>2. CASE d # c
    <3>1. IdleKept(d)
      <4>1. PICK b : b = call[d]
        OBVIOUS
      <4>2. CommandKnows(b)
        BY <4>1, SteppingParts DEF TurnsInv
      <4>3. b.pc \in {"prepare", "turn"} =>
                b.thread # h /\ b.thread \in Threads /\ server[b.thread].phase = "idle"
        BY <1>2, <1>3, <2>2, <4>1, <4>2, ThreadsApart DEF CommandKnows
      <4>4. QED
        BY <1>4, <4>1, <4>3 DEF IdleKept
    <3>2. call'[d] = call[d]
      BY <1>8, <2>2 DEF SameBut
    <3>3. QED
      BY <1>2, <1>4, <1>5, <1>7, <2>2, <3>1, <3>2, BystanderKnows
  <2>3. QED
    BY <2>1, <2>2
<1>13. ASSUME NEW x \in Keys PROVE WorkerKnows(x, worker[x])' /\ WorkerRecord(x, worker[x])'
  <2>1. PICK w \in Worker : w = worker[x]
    BY SteppingParts DEF RunTyped
  <2>2. worker'[x] = w /\ WorkerKnows(x, w) /\ WorkerRecord(x, w)
    BY <1>2, <2>1, SteppingParts DEF TurnsInv, RecordsInv
  <2>3. WorkerRecord(x, w)'
    BY <2>2, WorkerRecordStays, SteppingParts
  <2>4. WorkerKnows(x, w)'
    <3>1. CASE x # k
      BY <1>2, <1>4, <1>7, <2>2, <3>1, WorkerKnowsStays, SteppingParts
    <3>2. CASE x = k
      BY <1>5, <2>1, <3>2 DEF WorkerHolds, WorkerHoldPc, Worker, WorkerPc, WorkerKnows
    <3>3. QED
      BY <3>1, <3>2
  <2>5. QED
    BY <2>2, <2>3, <2>4, WorkerKnowsNext, WorkerRecordNext
<1>14. TurnsInv'
  BY <1>10, <1>12, <1>13 DEF TurnsInv
<1>15. \A x \in Keys : x # k /\ TakenUp(x)' => TakenUp(x)
  BY <1>4, <1>7, TurnsStay, SteppingParts
<1>16. VerdictIsHonest'
  <2> SUFFICES ASSUME NEW x \in Keys \ evicted' PROVE Honest(x)'
    BY DEF VerdictIsHonest, Honest
  <2>1. Honest(x) /\ VerdictOK(x) /\ x \notin evicted
    BY <1>2, SteppingParts DEF RecordsInv, VerdictIsHonest, Honest
  <2>2. CASE x # k
    BY <1>4, <1>7, <2>1, <2>2, HonestStays, SteppingParts
  <2>3. CASE x = k
    <3>1. ~(Has(disk, k) /\ Lookup(disk, k).run = "failed")
      BY <1>1, <1>2, <2>1, <2>3, SteppingParts DEF RecordsInv, CommandRecord, PreTurn
    <3>2. \A e \in TerminalEvent : Ended(k, e) => Ended(k, e)'
      BY <1>4, EndedStays, SteppingParts
    <3>3. disk' = disk
      BY <1>2 DEF serviceVars
    <3>4. Has(disk, k) => /\ Lookup(disk, k).run = "completed" => Ended(k, "completed")'
                          /\ Lookup(disk, k).run = "cancelled" => Ended(k, "interrupted")'
      BY <2>1, <2>3, <3>2 DEF Honest, TerminalEvent
    <3>5. Honest(k)'
      BY <3>1, <3>3, <3>4 DEF Honest, Has, Lookup, Position
    <3>6. QED
      BY <2>3, <3>5
  <2>4. QED
    BY <2>2, <2>3
<1>17. EvidenceKept'
  <2> SUFFICES ASSUME NEW x \in Keys \ evicted', TakenUp(x)', x \notin worktrees'
               PROVE  KnownReceipt(x)'
    BY DEF EvidenceKept, KnownReceipt
  <2>1. x # k /\ x \notin evicted
    BY <1>2, <1>5
  <2>2. KnownReceipt(x)
    BY <1>2, <1>15, <2>1, SteppingParts DEF RecordsInv, EvidenceKept, KnownReceipt
  <2>3. QED
    BY <2>2, KnownReceiptStays, SteppingParts
<1>18. \A x \in Keys : TakenUp(x)' => turnsSent'[x] # 0
  BY <1>4, <1>15, SteppingParts DEF RecordsInv
<1>19. RecordsInv'
  BY <1>12, <1>13, <1>16, <1>17, <1>18 DEF RecordsInv
<1>20. SideTyped'
  BY <1>2, <1>4, SteppingParts DEF SideTyped, ServerKept, RouterCalm
<1>21. QED
  BY <1>9, <1>14, <1>19, <1>20 DEF HoldInv, Stepping

LEMMA TurnStartHolds ==
    ASSUME Stepping, NEW c \in Callers, TurnStart(c)
    PROVE  HoldInv'
<1>1. \/ SendTurn(c, "accepted") /\ (Goto(c, "await") \/ FinishStart(c, "outcomeUnknown"))
      \/ SendTurn(c, "refused") /\ FinishStart(c, "failed")
      \/ /\ UNCHANGED <<server, turnsSent>>
         /\ FinishStart(c, "failed") \/ FinishStart(c, "outcomeUnknown")
  BY DEF TurnStart
<1>2. QED
  BY <1>1, TurnTaken, TurnStartCalm

-----------------------------------------------------------------------------
(***************************************************************************)
(* The verdict.  finalize_run writes the outcome its caller vouches for.   *)
(***************************************************************************)
LEMMA FinalizeVerdicts ==
    ASSUME Stepping, NEW k \in Keys, NEW outcome \in ReceiptOutcome, FinalizeRun(k, outcome),
           server' = server, \A c \in Callers : ~Claims(c, k)',
           \/ outcome = "outcomeUnknown" \/ Reported(k, outcome)
           \/ outcome = "failed" /\ (k \notin evicted' => ~TakenUp(k))
    PROVE  /\ \A x \in Keys \ evicted' : VerdictOK(x)
           /\ Has(disk', k) /\ Lookup(disk', k).receipt = outcome
<1>1. /\ Has(disk', k) /\ Lookup(disk', k).receipt = outcome
      /\ Lookup(disk', k).run = RunStatusFor(outcome)
      /\ \A x : x # k /\ Has(disk', x) /\ Lookup(disk', x).run \in Verdict =>
             Has(disk, x) /\ Lookup(disk, x) = Lookup(disk', x)
  BY FinalizeWrites, SteppingParts
<1>2. PICK run : run = Lookup(disk', k).run /\ run = RunStatusFor(outcome)
  BY <1>1
<1>3. CASE outcome = "outcomeUnknown"
  <2>1. run \notin Verdict
    BY <1>2, <1>3 DEF RunStatusFor, Verdict
  <2>2. QED
    BY <1>1, <1>2, <2>1 DEF VerdictOK
<1>4. CASE k \notin evicted' /\ outcome # "outcomeUnknown"
  <2>1. /\ run = "completed" => Ended(k, "completed")
        /\ run = "cancelled" => Ended(k, "interrupted")
        /\ run = "failed" => Ended(k, "failed") \/ ~TakenUp(k)
    BY <1>2, <1>4 DEF Reported, OutcomeOf, TerminalEvent, RunStatusFor
  <2>2. Honest(k)'
    BY <1>2, <2>1 DEF Honest, Ended, TakenUp, Has, Lookup, Position
  <2>3. QED
    BY <1>1, <2>2 DEF VerdictOK
<1>5. CASE k \in evicted'
  BY <1>1, <1>5 DEF VerdictOK
<1>6. QED
  BY <1>1, <1>3, <1>4, <1>5

LEMMA EmptyDomain == DOMAIN <<>> = {}
<1>1. DOMAIN <<>> = 1..0
  BY EmptySeq, LenProperties
<1>2. QED
  BY <1>1

\* The receipt of the same outcome is there already.
LEMMA SameReceiptIsThere ==
    ASSUME Stepping, NEW k \in Keys, NEW outcome \in ReceiptOutcome, SameReceipt(k, outcome)
    PROVE  Has(disk, k) /\ Lookup(disk, k).receipt = outcome
<1>1. cache # <<>>
  BY EmptyDomain DEF SameReceipt, Stored, Has
<1>2. cache = disk
  BY <1>1, SteppingParts DEF ServiceInv
<1>3. QED
  BY <1>2 DEF SameReceipt, Stored, TaskOf

\* Nobody claims a run that a command past turn/start holds, or a worker.
LEMMA HeldUnclaimed ==
    ASSUME Stepping, NEW k \in Keys,
           \/ WorkerHolds(k) /\ call' = call
           \/ \E c \in Callers : Holding(c, k) /\ SameBut(c) /\ call'[c].pc \notin PreTurn
    PROVE  \A d \in Callers : ~Claims(d, k)'
<1>1. \A d \in Callers : Claims(d, k) => Holding(d, k)
  BY DEF Claims, Holding, PreTurn, HoldPc, Owning
<1>2. CASE WorkerHolds(k) /\ call' = call
  BY <1>1, <1>2, SteppingParts DEF HoldersGood, Claims
<1>3. CASE \E c \in Callers : Holding(c, k) /\ SameBut(c) /\ call'[c].pc \notin PreTurn
  BY <1>1, <1>3, SteppingParts DEF HoldersGood, Claims, SameBut
<1>4. QED
  BY <1>2, <1>3

LEMMA FinalizeStartHolds ==
    ASSUME Stepping, NEW c \in Callers, FinalizeStart(c)
    PROVE  HoldInv'
<1>1. PICK k \in Keys : call[c].key = k /\ KeyOf(c) = k
  BY CallTyped, SteppingParts DEF KeyOf
<1>2. PICK o \in ReceiptOutcome : call[c].outcome = o
  BY CallTyped, SteppingParts DEF Call
<1>3. /\ call[c].pc = "finalize" /\ call[c].pc \in HoldPc /\ Holding(c, k)
      /\ UNCHANGED <<worker, worktrees, server, nextThread, connection, up, turnsSent, evicted>>
      /\ UNCHANGED routerVars
  BY <1>1 DEF FinalizeStart, At, HoldPc, Owning, Holding
<1>4. ServerCalm /\ RouterCalm /\ \A d \in Callers : d # c => IdleKept(d)
  BY <1>3, ServerSame, RouterSame, IdleStays, SteppingParts
<1>5. CASE Return(c) /\ UNCHANGED serviceVars
  <2>1. SameBut(c) /\ call'[c].pc = "idle"
    BY <1>5, ReturnMoves, SteppingParts
  <2>2. \A x \in Keys \ evicted' : VerdictOK(x)
    BY <1>5, FileSame DEF serviceVars
  <2>3. QED
    BY <1>3, <1>4, <2>1, <2>2, IdleGood, HolderStep
<1>6. CASE /\ Goto(c, "cleanup")
           /\ FinalizeRun(k, o) \/ (SameReceipt(k, o) /\ UNCHANGED serviceVars)
  <2>1. /\ SameBut(c) /\ call'[c].pc = "cleanup" /\ call'[c].key = k /\ call'[c].outcome = o
        /\ call'[c].connection = call[c].connection
    BY <1>1, <1>2, <1>6, GotoMoves, SteppingParts
  <2>2. o = "outcomeUnknown" \/ (o = "failed" /\ NoLive(k) /\ (k \notin evicted => ~TakenUp(k)))
    <3>1. CommandKnows(call[c]) /\ CommandRecord(call[c])
      BY SteppingParts DEF TurnsInv, RecordsInv
    <3>2. QED
      BY <1>1, <1>2, <1>3, <3>1 DEF CommandKnows, CommandRecord
  <2>3. \A d \in Callers : ~Claims(d, k)'
    BY <1>3, <2>1, HeldUnclaimed DEF PreTurn
  <2>4. (\A x \in Keys \ evicted' : VerdictOK(x)) /\ Has(disk', k) /\ Lookup(disk', k).receipt = o
    <3>1. CASE FinalizeRun(k, o)
      BY <1>3, <2>2, <2>3, <3>1, FinalizeVerdicts
    <3>2. CASE SameReceipt(k, o) /\ UNCHANGED serviceVars
      BY <3>2, SameReceiptIsThere, FileSame DEF serviceVars
    <3>3. QED
      BY <1>6, <3>1, <3>2
  <2>5. PICK b : b = call'[c]
    OBVIOUS
  <2>6. /\ b.pc = "cleanup" /\ b.key = k /\ b.outcome = o /\ b.connection \in Connections
    BY <1>3, <2>1, <2>5, CommandConnected
  <2>7. NoLive(k) => NoLive(k)'
    BY <1>3 DEF NoLive, Live
  <2>8. CommandKnows(b)'
    BY <2>2, <2>6, <2>7 DEF CommandKnows, PreTurn
  <2>9. CommandRecord(b)'
    BY <2>4, <2>6 DEF CommandRecord, PreTurn, Has, Lookup, Position
  <2>10. CommandKnows(call[c])' /\ CommandRecord(call[c])'
    BY <2>5, <2>8, <2>9, CommandKnowsNext, CommandRecordNext
  <2>11. QED
    BY <1>1, <1>3, <1>4, <2>1, <2>4, <2>10, HolderStep
<1>7. QED
  BY <1>1, <1>2, <1>5, <1>6 DEF FinalizeStart

LEMMA CollectStartHolds ==
    ASSUME Stepping, NEW c \in Callers, CollectStart(c)
    PROVE  HoldInv'
<1>1. PICK k \in Keys : call[c].key = k
  BY CallTyped, SteppingParts DEF KeyOf
<1>2. /\ call[c].pc = "collect" /\ call[c].pc \in HoldPc
      /\ UNCHANGED <<worker, worktrees, server, nextThread, connection, up, turnsSent, evicted>>
      /\ UNCHANGED routerVars /\ UNCHANGED serviceVars
  BY DEF CollectStart, At, HoldPc, Owning
<1>3. ServerCalm /\ RouterCalm /\ \A d \in Callers : d # c => IdleKept(d)
  BY <1>2, ServerSame, RouterSame, IdleStays, SteppingParts
<1>4. \A x \in Keys \ evicted' : VerdictOK(x)
  BY <1>2, FileSame DEF serviceVars
<1>5. CASE Return(c)
  BY <1>2, <1>3, <1>4, <1>5, ReturnMoves, IdleGood, HolderStep, SteppingParts
<1>6. CASE Goto(c, "finalize")
  <2>1. /\ SameBut(c) /\ call'[c].pc = "finalize" /\ call'[c].key = k
        /\ call'[c].outcome = call[c].outcome /\ call'[c].connection = call[c].connection
    BY <1>1, <1>6, GotoMoves, SteppingParts
  <2>2. /\ call[c].outcome = "outcomeUnknown" \/ (call[c].outcome = "failed" /\ NoLive(k))
        /\ k \notin evicted /\ call[c].outcome = "failed" => ~TakenUp(k)
    <3>1. CommandKnows(call[c]) /\ CommandRecord(call[c])
      BY SteppingParts DEF TurnsInv, RecordsInv
    <3>2. QED
      BY <1>1, <1>2, <3>1 DEF CommandKnows, CommandRecord
  <2>3. (NoLive(k) => NoLive(k)') /\ (TakenUp(k)' => TakenUp(k))
    BY <1>2 DEF NoLive, Live, TakenUp
  <2>4. PICK b : b = call'[c]
    OBVIOUS
  <2>5. /\ b.pc = "finalize" /\ b.key = k /\ b.outcome = call[c].outcome
        /\ b.connection \in Connections
    BY <1>2, <2>1, <2>4, CommandConnected
  <2>6. CommandKnows(b)'
    BY <2>2, <2>3, <2>5 DEF CommandKnows, PreTurn
  <2>7. CommandRecord(b)'
    BY <1>2, <2>2, <2>3, <2>5 DEF CommandRecord, PreTurn
  <2>8. CommandKnows(call[c])' /\ CommandRecord(call[c])'
    BY <2>4, <2>6, <2>7, CommandKnowsNext, CommandRecordNext
  <2>9. QED
    BY <1>1, <1>2, <1>3, <1>4, <2>1, <2>8, HolderStep
<1>7. QED
  BY <1>5, <1>6 DEF CollectStart

\* The receipt of a failed run is in the file when its worktree goes.
LEMMA CleanupStartHolds ==
    ASSUME Stepping, NEW c \in Callers, CleanupStart(c)
    PROVE  HoldInv'
<1>1. PICK k \in Keys : call[c].key = k /\ KeyOf(c) = k
  BY CallTyped, SteppingParts DEF KeyOf
<1>2. /\ call[c].pc = "cleanup" /\ call[c].pc \in HoldPc
      /\ UNCHANGED <<worker, server, nextThread, connection, up, turnsSent, evicted>>
      /\ UNCHANGED routerVars /\ UNCHANGED serviceVars
  BY DEF CleanupStart, At, HoldPc
<1>3. ServerCalm /\ RouterCalm /\ \A d \in Callers : d # c => IdleKept(d)
  BY <1>2, ServerSame, RouterSame, IdleStays, SteppingParts
<1>4. \A x \in Keys \ evicted' : VerdictOK(x)
  BY <1>2, FileSame DEF serviceVars
<1>5. SameBut(c) /\ call'[c].pc = "idle"
  BY ReturnMoves, SteppingParts DEF CleanupStart
<1>6. worktrees' = worktrees \/ (call[c].outcome # "outcomeUnknown" /\ worktrees' = worktrees \ {k})
  BY <1>1 DEF CleanupStart, CleanupAfter
<1>7. ASSUME call[c].outcome # "outcomeUnknown" PROVE ReleaseOK(k)
  <2>1. CommandKnows(call[c]) /\ CommandRecord(call[c])
    BY SteppingParts DEF TurnsInv, RecordsInv
  <2>2. call[c].outcome = "failed" /\ NoLive(k)
    BY <1>1, <1>2, <1>7, <2>1 DEF CommandKnows
  <2>3. k \notin evicted => Has(disk, k) /\ Lookup(disk, k).receipt = "failed"
    BY <1>1, <1>2, <2>1, <2>2 DEF CommandRecord
  <2>4. QED
    BY <2>2, <2>3 DEF ReleaseOK, KnownReceipt
<1>8. QED
  BY <1>1, <1>2, <1>3, <1>4, <1>5, <1>6, <1>7, IdleGood, HolderStep

\* spawn_active hands the run over: the worker knows what the command knew.
LEMMA SpawnHolds ==
    ASSUME Stepping, NEW c \in Callers, Spawn(c)
    PROVE  HoldInv'
<1>1. PICK k \in Keys : call[c].key = k /\ KeyOf(c) = k
  BY CallTyped, SteppingParts DEF KeyOf
<1>2. /\ call[c].pc = "spawn" /\ call[c].pc \in HoldPc /\ Holding(c, k)
      /\ UNCHANGED <<worktrees, server, nextThread, connection, up, turnsSent, evicted>>
      /\ UNCHANGED serviceVars
  BY <1>1 DEF Spawn, At, HoldPc, Owning, Holding
<1>3. SameBut(c) /\ call'[c].pc = "idle"
  BY ReturnMoves, SteppingParts DEF Spawn
<1>4. ServerCalm /\ \A d \in Callers : d # c => IdleKept(d)
  BY <1>2, ServerSame, IdleStays, SteppingParts
<1>5. \A x \in Keys \ evicted' : VerdictOK(x)
  BY <1>2, FileSame DEF serviceVars
<1>6. CommandKnows(call[c])' /\ CommandRecord(call[c])'
  BY <1>3, IdleGood
<1>7. CASE DropStream(call[c].stream) /\ UNCHANGED worker
  <2>1. RouterCalm
    BY <1>7, DropCalm, SteppingParts
  <2>2. QED
    BY <1>2, <1>3, <1>4, <1>5, <1>6, <1>7, <2>1, HolderStep
<1> DEFINE new == [NoWorker EXCEPT !.pc = "loop", !.stream = call[c].stream,
                                   !.connection = call[c].connection]
           lost == [new EXCEPT !.pc = "collect", !.last = TRUE]
<1>8. ASSUME NEW w \in {new, lost}, worker' = [worker EXCEPT ![k] = w], UNCHANGED routerVars
      PROVE  HoldInv'
  <2>1. /\ w.pc = "loop" \/ (w.pc = "collect" /\ w.outcome = "outcomeUnknown")
        /\ w.stream = call[c].stream
    BY <1>8 DEF NoWorker
  <2> HIDE DEF new, lost
  <2>2. worker'[k] = w /\ \A x \in Keys : x # k => worker'[x] = worker[x]
    BY <1>8, SteppingParts DEF RunTyped
  <2>3. RouterCalm
    BY <1>8, RouterSame, SteppingParts
  <2>4. PICK a \in Call : a = call[c]
    BY CallTyped, SteppingParts
  <2>5. Carries(a.stream, a.thread, k) /\ OnlyLive(k, a.thread) /\ a.thread \in Threads
    <3>1. CommandKnows(a)
      BY <2>4, SteppingParts DEF TurnsInv
    <3>2. QED
      BY <1>1, <1>2, <2>4, <3>1 DEF CommandKnows, Carries
  <2>6. Carries(a.stream, a.thread, k)' /\ OnlyLive(k, a.thread)'
    <3>1. ServerKept /\ CalmFor(k)
      BY <1>4 DEF ServerCalm, CalmFor
    <3>2. QED
      BY <2>3, <2>5, <3>1, CarriesStays, TurnsStay, SteppingParts
  <2>7. WorkerKnows(k, worker[k])' /\ WorkerRecord(k, worker[k])'
    <3>1. CASE w.pc = "loop"
      <4>1. WorkerKnows(k, w)' /\ WorkerRecord(k, w)'
        BY <2>1, <2>4, <2>5, <2>6, <3>1 DEF WorkerKnows, WorkerRecord
      <4>2. QED
        BY <2>2, <4>1, WorkerKnowsNext, WorkerRecordNext
    <3>2. CASE w.pc = "collect" /\ w.outcome = "outcomeUnknown"
      BY <2>2, <3>2, UnknownGood
    <3>3. QED
      BY <2>1, <3>1, <3>2
  <2>8. HoldersGood'
    <3>1. k \in worktrees /\ \A d \in Callers : Holding(d, k) => d = c
      BY <1>2, SteppingParts DEF HoldersGood
    <3>2. \A d \in Callers, x \in Keys : Holding(d, x)' => Holding(d, x) /\ d # c
      BY <1>3 DEF SameBut, Holding, HoldPc, Owning
    <3>3. \A x \in Keys : WorkerHolds(x)' => WorkerHolds(x) \/ x = k
      BY <2>2 DEF WorkerHolds
    <3>4. QED
      BY <1>2, <3>1, <3>2, <3>3, SteppingParts DEF HoldersGood
  <2>9. \A d \in Callers : CallGood(d)
    BY <1>3, <1>4, <1>6 DEF SameBut, CallGood, CallKept, IdleKept
  <2>10. \A x \in Keys : WorkerGood(x)
    BY <2>2, <2>7 DEF WorkerGood, WorkerKept
  <2>11. SideOK
    BY <1>2, SteppingParts DEF SideOK, SideTyped, ServerGood
  <2>12. \A x \in worktrees \ worktrees' : ReleaseOK(x)
    BY <1>2
  <2>13. QED
    BY <1>4, <1>5, <2>3, <2>8, <2>9, <2>10, <2>11, <2>12, CalmStep DEF Stepping
<1>9. QED
  BY <1>1, <1>7, <1>8 DEF Spawn

LEMMA StartStepHolds ==
    ASSUME Stepping, NEW c \in Callers, StartStep(c)
    PROVE  HoldInv'
<1>1. CASE Create(c) \/ Accept(c) \/ Register(c)
  BY <1>1, StoreStepsHold
<1>2. CASE Capacity(c) \/ Check(c) \/ Worktree(c)
  BY <1>2, CapacityHolds, WorktreeHolds
<1>3. CASE BeginRunStep(c) \/ ThreadStart(c) \/ Prepare(c)
  BY <1>3, BeginHolds, ThreadStartHolds, PrepareHolds
<1>4. CASE TurnStart(c) \/ Await(c) \/ Bind(c) \/ Spawn(c)
  BY <1>4, TurnStartHolds, AwaitHolds, SpawnHolds
<1>5. CASE CollectStart(c) \/ FinalizeStart(c) \/ CleanupStart(c)
  BY <1>5, CollectStartHolds, FinalizeStartHolds, CleanupStartHolds
<1>6. QED
  BY <1>1, <1>2, <1>3, <1>4, <1>5 DEF StartStep

-----------------------------------------------------------------------------
(***************************************************************************)
(* The worker, one lemma per step.                                         *)
(***************************************************************************)
\* What the steps of a worker leave alone.
WorkerQuiet ==
    /\ call' = call /\ server' = server /\ nextThread' = nextThread /\ connection' = connection
    /\ up' = up /\ turnsSent' = turnsSent /\ evicted' = evicted

WorkerOthers(k) == \A x \in Keys : x # k => worker'[x] = worker[x]

\* A worker moves on and keeps the worktree of its run.
LEMMA WorkerKeepsOn ==
    ASSUME Stepping, NEW k \in Keys, WorkerQuiet, WorkerOthers(k), worktrees' = worktrees,
           worker[k].pc \in WorkerHoldPc \/ worker'[k].pc \notin WorkerHoldPc,
           RouterCalm, \A x \in Keys \ evicted' : VerdictOK(x),
           WorkerKnows(k, worker[k])', WorkerRecord(k, worker[k])'
    PROVE  HoldInv'
<1>1. WorkerHolds(k)' => WorkerHolds(k)
  BY DEF WorkerHolds
<1>2. QED
  BY <1>1, WorkerMovesOn DEF WorkerQuiet, WorkerOthers

\* A worker whose position, stream and outcome stay as they are.
LEMMA WorkerStays ==
    ASSUME Stepping, NEW k \in Keys, WorkerKept(k), WorkerQuiet, RouterCalm
    PROVE  WorkerKnows(k, worker[k])'
<1>1. PICK w : w = worker[k]
  OBVIOUS
<1>2. WorkerKnows(k, w)
  BY <1>1, SteppingParts DEF TurnsInv
<1>3. ServerKept /\ CalmFor(k)
  BY ServerSame, SteppingParts DEF WorkerQuiet, ServerCalm, CalmFor
<1>4. WorkerKnows(k, w)'
  BY <1>2, <1>3, WorkerKnowsStays, SteppingParts
<1>5. QED
  BY <1>1, <1>4, WorkerKnowsNext DEF WorkerKept

\* A worker that observes its stream goes on doing so.
LEMMA WatchGood ==
    ASSUME Stepping, NEW k \in Keys, WorkerQuiet, RouterCalm,
           worker[k].pc \in {"loop", "check"}, worker'[k].pc \in {"loop", "check"},
           worker'[k].stream = worker[k].stream
    PROVE  WorkerKnows(k, worker[k])' /\ WorkerRecord(k, worker[k])'
<1>1. PICK s : s = worker[k].stream
  OBVIOUS
<1>2. PICK h \in Threads : Carries(s, h, k) /\ OnlyLive(k, h)
  BY <1>1, SteppingParts DEF TurnsInv, WorkerKnows
<1>3. ServerKept /\ CalmFor(k)
  BY ServerSame, SteppingParts DEF WorkerQuiet, ServerCalm, CalmFor
<1>4. Carries(s, h, k)' /\ OnlyLive(k, h)'
  BY <1>2, <1>3, CarriesStays, TurnsStay, SteppingParts
<1>5. PICK w : w = worker'[k]
  OBVIOUS
<1>6. WorkerKnows(k, w)' /\ WorkerRecord(k, w)'
  BY <1>1, <1>4, <1>5 DEF WorkerKnows, WorkerRecord
<1>7. QED
  BY <1>5, <1>6, WorkerKnowsNext, WorkerRecordNext

\* A worker that has finished its observation knows how the turn ended.
LEMMA FinishGood ==
    ASSUME Stepping, NEW k \in Keys, server' = server,
           worker'[k].pc \in {"collect", "finalize", "cleanup"},
           worker'[k].outcome = "outcomeUnknown" \/ (Reported(k, worker'[k].outcome) /\ NoLive(k))
    PROVE  WorkerKnows(k, worker[k])'
<1>1. PICK w : w = worker'[k]
  OBVIOUS
<1>2. w.outcome = "outcomeUnknown" \/ (Reported(k, w.outcome)' /\ NoLive(k)')
  BY <1>1 DEF Reported, Ended, NoLive, Live
<1>3. WorkerKnows(k, w)'
  BY <1>1, <1>2 DEF WorkerKnows
<1>4. QED
  BY <1>1, <1>3, WorkerKnowsNext

LEMMA NoCleanupRecord ==
    ASSUME NEW k \in Keys, worker'[k].pc # "cleanup"
    PROVE  WorkerRecord(k, worker[k])'
BY DEF WorkerRecord

\* The outcome a finishing worker carries is that of the turn, or unknown.
LEMMA OutcomeKnown ==
    ASSUME Stepping, NEW k \in Keys, worker[k].pc \in {"collect", "finalize", "cleanup"}
    PROVE  worker[k].outcome = "outcomeUnknown" \/ (Reported(k, worker[k].outcome) /\ NoLive(k))
BY SteppingParts DEF TurnsInv, WorkerKnows

\* stop and turn/interrupt set a flag, or end the observation.
LEMMA StopHolds ==
    ASSUME Stepping, NEW k \in Keys, Stop(k) \/ Interrupt(k)
    PROVE  HoldInv'
<1>1. WorkerQuiet /\ worktrees' = worktrees /\ UNCHANGED routerVars /\ UNCHANGED serviceVars
  BY DEF Stop, Interrupt, WorkerQuiet
<1>2. RouterCalm /\ \A x \in Keys \ evicted' : VerdictOK(x)
  BY <1>1, RouterSame, FileSame, SteppingParts DEF serviceVars
<1>3. CASE FinishUnknown(k) /\ worker[k].pc = "loop"
  <2>1. /\ WorkerOthers(k) /\ worker'[k].pc = "collect" /\ worker'[k].outcome = "outcomeUnknown"
        /\ worker[k].pc \in WorkerHoldPc
    BY <1>3, FinishUnknownMoves, SteppingParts DEF WorkerOthers, WorkerHoldPc, WorkerPc
  <2>2. QED
    BY <1>1, <1>2, <2>1, UnknownGood, WorkerKeepsOn
<1>4. CASE \/ worker' = [worker EXCEPT ![k].stop = TRUE]
           \/ worker' = [worker EXCEPT ![k].interrupted = TRUE]
  <2>1. worker[k] \in Worker
    BY SteppingParts DEF RunTyped
  <2>2. WorkerOthers(k) /\ WorkerKept(k)
    BY <1>4, <2>1, SteppingParts DEF RunTyped, Worker, WorkerOthers, WorkerKept
  <2>3. WorkerKnows(k, worker[k])'
    BY <1>1, <1>2, <2>2, WorkerStays
  <2>4. WorkerRecord(k, worker[k])'
    <3>1. PICK w \in Worker : w = worker[k]
      BY <2>1
    <3>2. WorkerRecord(k, w)
      BY <3>1, SteppingParts DEF RecordsInv
    <3>3. QED
      BY <2>2, <3>1, <3>2, WorkerRecordStays, WorkerRecordNext, SteppingParts DEF WorkerKept
  <2>5. worker[k].pc \in WorkerHoldPc \/ worker'[k].pc \notin WorkerHoldPc
    BY <2>2 DEF WorkerKept
  <2>6. QED
    BY <1>1, <1>2, <2>2, <2>3, <2>4, <2>5, WorkerKeepsOn
<1>5. QED
  BY <1>3, <1>4 DEF Stop, Interrupt, WorkerAt

\* A worker that holds its run ends its observation with an unknown outcome.
LEMMA UnknownHolds ==
    ASSUME Stepping, NEW k \in Keys, worker[k].pc \in WorkerHoldPc, FinishUnknown(k) \/ GiveUp(k),
           WorkerQuiet, worktrees' = worktrees, RouterCalm, \A x \in Keys \ evicted' : VerdictOK(x)
    PROVE  HoldInv'
<1>1. CASE FinishUnknown(k)
  <2>1. WorkerOthers(k) /\ worker'[k].pc = "collect" /\ worker'[k].outcome = "outcomeUnknown"
    BY <1>1, FinishUnknownMoves, SteppingParts DEF WorkerOthers
  <2>2. QED
    BY <2>1, UnknownGood, WorkerKeepsOn
<1>2. CASE GiveUp(k)
  BY <1>2, GiveUpMoves, WorkerKeepsOn, SteppingParts DEF WorkerOthers
<1>3. QED
  BY <1>1, <1>2

LEMMA WatchHolds ==
    ASSUME Stepping, NEW k \in Keys, worker[k].pc \in {"loop", "check"},
           NEW pc \in {"loop", "check"}, WorkerGoto(k, pc),
           WorkerQuiet, worktrees' = worktrees, RouterCalm, \A x \in Keys \ evicted' : VerdictOK(x)
    PROVE  HoldInv'
<1>1. WorkerOthers(k) /\ worker'[k].pc = pc /\ worker'[k].stream = worker[k].stream
  BY WorkerGotoMoves, SteppingParts DEF WorkerOthers
<1>2. worker[k].pc \in WorkerHoldPc
  BY DEF WorkerHoldPc, WorkerPc
<1>3. QED
  BY <1>1, <1>2, WatchGood, WorkerKeepsOn

\* What the worker reads from its stream is the end of its turn, when it is an end.
LEMMA ReadsTheEnd ==
    ASSUME Stepping, NEW k \in Keys, worker[k].pc = "loop", queue[worker[k].stream].events # <<>>
    PROVE  /\ worker[k].stream \in Streams
           /\ \A event : event = queue[worker[k].stream].events[1] =>
                  \/ event \in {"running", "waitingApproval"}
                  \/ OutcomeOf(event) = "outcomeUnknown"
                  \/ Reported(k, OutcomeOf(event)) /\ NoLive(k)
<1>1. PICK s : s = worker[k].stream
  OBVIOUS
<1>2. PICK h \in Threads : Carries(s, h, k) /\ OnlyLive(k, h)
  BY <1>1, SteppingParts DEF TurnsInv, WorkerKnows
<1>3. s \in Streams /\ queue[s].events \in Seq(RunEvent)
  BY <1>2, SteppingParts DEF Carries, RouterGood, RouterTypeOK, EventQueue
<1>4. PICK event : event = queue[s].events[1]
  OBVIOUS
<1>5. event \in RunEvent /\ InQueue(queue[s].events, event)
  BY <1>1, <1>3, <1>4, TailEvents
<1>6. CASE event \in TerminalEvent
  <2>1. server[h].phase = "over" /\ server[h].end = event /\ server[h].key = k
    BY <1>2, <1>5, <1>6 DEF Carries
  <2>2. Reported(k, OutcomeOf(event))
    BY <1>6, <2>1 DEF Reported, Ended
  <2>3. NoLive(k)
    BY <1>2, <2>1 DEF OnlyLive, NoLive, Live
  <2>4. QED
    BY <1>1, <1>3, <1>4, <2>2, <2>3
<1>7. CASE event = "gap"
  BY <1>1, <1>3, <1>4, <1>7 DEF OutcomeOf
<1>8. QED
  BY <1>1, <1>3, <1>4, <1>5, <1>6, <1>7 DEF RunEvent, Notification

LEMMA PollHolds ==
    ASSUME Stepping, NEW k \in Keys, Poll(k)
    PROVE  HoldInv'
<1>1. PICK s, event : s = worker[k].stream /\ event = queue[s].events[1]
  OBVIOUS
<1>2. WorkerQuiet /\ worktrees' = worktrees /\ worker[k].pc = "loop" /\ worker[k].pc \in WorkerHoldPc
  BY DEF Poll, WorkerAt, WorkerQuiet, WorkerHoldPc, WorkerPc
<1>3. CASE WorkerGoto(k, "check") /\ UNCHANGED serviceVars /\ UNCHANGED routerVars
  <2>1. RouterCalm /\ \A x \in Keys \ evicted' : VerdictOK(x)
    BY <1>3, RouterSame, FileSame, SteppingParts DEF serviceVars
  <2>2. QED
    BY <1>2, <1>3, <2>1, WatchHolds
<1>4. CASE /\ TryRecv(s)
           /\ \/ event \in {"running", "waitingApproval"} /\ Observe(k, event)
              \/ /\ event \notin {"running", "waitingApproval"}
                 /\ Finish(k, OutcomeOf(event)) /\ UNCHANGED serviceVars
  <2>1. s \in Streams /\ (\/ event \in {"running", "waitingApproval"}
                          \/ OutcomeOf(event) = "outcomeUnknown"
                          \/ Reported(k, OutcomeOf(event)) /\ NoLive(k))
    BY <1>1, <1>2, <1>4, ReadsTheEnd DEF TryRecv
  <2>2. RouterCalm
    BY <1>4, <2>1, TryRecvCalm, SteppingParts
  <2>3. CASE event \in {"running", "waitingApproval"} /\ Observe(k, event)
    <3>1. NoNewVerdict
      <4>1. CASE UNCHANGED serviceVars
        BY <4>1, FileSameNoVerdict DEF serviceVars
      <4>2. CASE PollTransition(k, event)
        BY <2>3, <4>2, UpdatesNoVerdict, SteppingParts DEF ActiveRun
      <4>3. QED
        BY <2>3, <4>1, <4>2 DEF Observe
    <3>2. \A x \in Keys \ evicted' : VerdictOK(x)
      BY <3>1, OldVerdicts
    <3>3. CASE WorkerGoto(k, "loop")
      BY <1>2, <2>2, <3>2, <3>3, WatchHolds
    <3>4. CASE FinishUnknown(k)
      BY <1>2, <2>2, <3>2, <3>4, UnknownHolds
    <3>5. QED
      BY <2>3, <3>3, <3>4 DEF Observe
  <2>4. CASE /\ event \notin {"running", "waitingApproval"}
             /\ Finish(k, OutcomeOf(event)) /\ UNCHANGED serviceVars
    <3>1. \A x \in Keys \ evicted' : VerdictOK(x)
      BY <2>4, FileSame DEF serviceVars
    <3>2. WorkerOthers(k) /\ worker'[k].pc = "collect" /\ worker'[k].outcome = OutcomeOf(event)
      BY <2>4, FinishMoves, SteppingParts DEF WorkerOthers
    <3>3. WorkerKnows(k, worker[k])' /\ WorkerRecord(k, worker[k])'
      BY <1>2, <2>1, <2>4, <3>2, FinishGood, NoCleanupRecord DEF WorkerQuiet
    <3>4. QED
      BY <1>2, <2>2, <3>1, <3>2, <3>3, WorkerKeepsOn
  <2>5. QED
    BY <1>4, <2>3, <2>4
<1>5. QED
  BY <1>1, <1>3, <1>4 DEF Poll

LEMMA CheckActiveHolds ==
    ASSUME Stepping, NEW k \in Keys, CheckActive(k)
    PROVE  HoldInv'
<1>1. /\ WorkerQuiet /\ worktrees' = worktrees /\ UNCHANGED routerVars /\ UNCHANGED serviceVars
      /\ worker[k].pc = "check" /\ worker[k].pc \in WorkerHoldPc
  BY DEF CheckActive, WorkerAt, WorkerQuiet, WorkerHoldPc, WorkerPc
<1>2. RouterCalm /\ \A x \in Keys \ evicted' : VerdictOK(x)
  BY <1>1, RouterSame, FileSame, SteppingParts DEF serviceVars
<1>3. CASE WorkerGoto(k, "loop")
  BY <1>1, <1>2, <1>3, WatchHolds
<1>4. CASE FinishUnknown(k)
  BY <1>1, <1>2, <1>4, UnknownHolds
<1>5. CASE Finish(k, "outcomeUnknown")
  <2>1. WorkerOthers(k) /\ worker'[k].pc = "collect" /\ worker'[k].outcome = "outcomeUnknown"
    BY <1>5, FinishMoves, SteppingParts DEF WorkerOthers
  <2>2. QED
    BY <1>1, <1>2, <2>1, UnknownGood, WorkerKeepsOn
<1>6. QED
  BY <1>3, <1>4, <1>5 DEF CheckActive

LEMMA CollectHolds ==
    ASSUME Stepping, NEW k \in Keys, Collect(k)
    PROVE  HoldInv'
<1>1. /\ WorkerQuiet /\ worktrees' = worktrees /\ UNCHANGED routerVars /\ UNCHANGED serviceVars
      /\ worker[k].pc = "collect" /\ worker[k].pc \in WorkerHoldPc
  BY DEF Collect, WorkerAt, WorkerQuiet, WorkerHoldPc, WorkerPc
<1>2. RouterCalm /\ \A x \in Keys \ evicted' : VerdictOK(x)
  BY <1>1, RouterSame, FileSame, SteppingParts DEF serviceVars
<1>3. CASE WorkerGoto(k, "finalize")
  <2>1. WorkerOthers(k) /\ worker'[k].pc = "finalize" /\ worker'[k].outcome = worker[k].outcome
    BY <1>3, WorkerGotoMoves, SteppingParts DEF WorkerOthers
  <2>2. WorkerKnows(k, worker[k])' /\ WorkerRecord(k, worker[k])'
    BY <1>1, <2>1, OutcomeKnown, FinishGood, NoCleanupRecord DEF WorkerQuiet
  <2>3. QED
    BY <1>1, <1>2, <2>1, <2>2, WorkerKeepsOn
<1>4. CASE GiveUp(k)
  BY <1>1, <1>2, <1>4, UnknownHolds
<1>5. QED
  BY <1>3, <1>4 DEF Collect

LEMMA FinalizeHolds ==
    ASSUME Stepping, NEW k \in Keys, Finalize(k)
    PROVE  HoldInv'
<1>1. /\ WorkerQuiet /\ worktrees' = worktrees /\ UNCHANGED routerVars
      /\ worker[k].pc = "finalize" /\ worker[k].pc \in WorkerHoldPc
  BY DEF Finalize, WorkerAt, WorkerQuiet, WorkerHoldPc, WorkerPc
<1>2. RouterCalm
  BY <1>1, RouterSame, SteppingParts
<1>3. PICK o \in ReceiptOutcome : worker[k].outcome = o
  BY SteppingParts DEF RunTyped, Worker
<1>4. CASE GiveUp(k) /\ UNCHANGED serviceVars
  <2>1. \A x \in Keys \ evicted' : VerdictOK(x)
    BY <1>4, FileSame DEF serviceVars
  <2>2. QED
    BY <1>1, <1>2, <1>4, <2>1, UnknownHolds
<1>5. CASE /\ WorkerGoto(k, "cleanup")
           /\ FinalizeRun(k, o) \/ (SameReceipt(k, o) /\ UNCHANGED serviceVars)
  <2>1. WorkerOthers(k) /\ worker'[k].pc = "cleanup" /\ worker'[k].outcome = o
    BY <1>3, <1>5, WorkerGotoMoves, SteppingParts DEF WorkerOthers
  <2>2. o = "outcomeUnknown" \/ (Reported(k, o) /\ NoLive(k))
    BY <1>1, <1>3, OutcomeKnown
  <2>3. \A d \in Callers : ~Claims(d, k)'
    BY <1>1, HeldUnclaimed DEF WorkerQuiet, WorkerHolds
  <2>4. (\A x \in Keys \ evicted' : VerdictOK(x)) /\ Has(disk', k) /\ Lookup(disk', k).receipt = o
    <3>1. CASE FinalizeRun(k, o)
      BY <1>1, <2>2, <2>3, <3>1, FinalizeVerdicts DEF WorkerQuiet
    <3>2. CASE SameReceipt(k, o) /\ UNCHANGED serviceVars
      BY <3>2, SameReceiptIsThere, FileSame DEF serviceVars
    <3>3. QED
      BY <1>5, <3>1, <3>2
  <2>5. WorkerKnows(k, worker[k])'
    BY <1>1, <2>1, <2>2, FinishGood DEF WorkerQuiet
  <2>6. WorkerRecord(k, worker[k])'
    BY <2>1, <2>4 DEF WorkerRecord, Has, Lookup, Position
  <2>7. QED
    BY <1>1, <1>2, <2>1, <2>4, <2>5, <2>6, WorkerKeepsOn
<1>6. QED
  BY <1>3, <1>4, <1>5 DEF Finalize

\* The receipt of the run is in the file when its worktree goes.
LEMMA CleanupRunHolds ==
    ASSUME Stepping, NEW k \in Keys, CleanupRun(k)
    PROVE  HoldInv'
<1>1. /\ WorkerQuiet /\ UNCHANGED routerVars /\ UNCHANGED serviceVars
      /\ worker[k].pc = "cleanup" /\ WorkerHolds(k)
  BY DEF CleanupRun, WorkerAt, WorkerQuiet, WorkerHolds, WorkerHoldPc, WorkerPc
<1>2. RouterCalm /\ \A x \in Keys \ evicted' : VerdictOK(x)
  BY <1>1, RouterSame, FileSame, SteppingParts DEF serviceVars
<1>3. WorkerOthers(k) /\ worker'[k].pc = "remove"
  BY WorkerGotoMoves, SteppingParts DEF CleanupRun, WorkerOthers
<1>4. WorkerKnows(k, worker[k])' /\ WorkerRecord(k, worker[k])' /\ ~WorkerHolds(k)'
  BY <1>3, UnknownGood DEF WorkerHolds, WorkerHoldPc
<1>5. \/ worktrees' = worktrees
      \/ worker[k].outcome # "outcomeUnknown" /\ worktrees' = worktrees \ {k}
  BY DEF CleanupRun, CleanupAfter
<1>6. ASSUME worker[k].outcome # "outcomeUnknown" PROVE ReleaseOK(k)
  <2>1. PICK o : o = worker[k].outcome
    OBVIOUS
  <2>2. Reported(k, o) /\ NoLive(k)
    BY <1>1, <1>6, <2>1, OutcomeKnown
  <2>3. o \in {"success", "failed", "cancelled"}
    BY <2>2 DEF Reported, OutcomeOf, TerminalEvent
  <2>4. k \notin evicted => Has(disk, k) /\ Lookup(disk, k).receipt = o
    BY <1>1, <2>1, SteppingParts DEF RecordsInv, WorkerRecord
  <2>5. QED
    BY <2>2, <2>3, <2>4 DEF ReleaseOK, KnownReceipt
<1>7. QED
  BY <1>1, <1>2, <1>3, <1>4, <1>5, <1>6, WorkerMovesOn DEF WorkerQuiet, WorkerOthers

LEMMA AbandonHolds ==
    ASSUME Stepping, NEW k \in Keys, Abandon(k)
    PROVE  HoldInv'
<1>1. WorkerQuiet /\ worktrees' = worktrees /\ UNCHANGED routerVars
  BY DEF Abandon, WorkerQuiet
<1>2. NoNewVerdict
  <2>1. CASE AbandonRun(k)
    BY <2>1, UpdatesNoVerdict, SteppingParts
  <2>2. CASE UNCHANGED serviceVars
    BY <2>2, FileSameNoVerdict DEF serviceVars
  <2>3. QED
    BY <2>1, <2>2 DEF Abandon
<1>3. RouterCalm /\ \A x \in Keys \ evicted' : VerdictOK(x)
  BY <1>1, <1>2, RouterSame, OldVerdicts, SteppingParts
<1>4. WorkerOthers(k) /\ worker'[k].pc = "remove"
  BY WorkerGotoMoves, SteppingParts DEF Abandon, WorkerOthers
<1>5. worker'[k].pc \notin WorkerHoldPc
  BY <1>4 DEF WorkerHoldPc
<1>6. QED
  BY <1>1, <1>3, <1>4, <1>5, UnknownGood, WorkerKeepsOn

LEMMA RemoveHolds ==
    ASSUME Stepping, NEW k \in Keys, Remove(k)
    PROVE  HoldInv'
<1>1. WorkerQuiet /\ worktrees' = worktrees /\ UNCHANGED serviceVars
  BY DEF Remove, WorkerQuiet
<1>2. RouterCalm /\ \A x \in Keys \ evicted' : VerdictOK(x)
  BY <1>1, DropCalm, FileSame, SteppingParts DEF Remove, serviceVars
<1>3. WorkerOthers(k) /\ worker'[k].pc = "none"
  <2>1. NoWorker.pc = "none"
    BY DEF NoWorker
  <2>2. QED
    BY <2>1, SteppingParts DEF Remove, RunTyped, WorkerOthers
<1>4. worker'[k].pc \notin WorkerHoldPc
  BY <1>3 DEF WorkerHoldPc
<1>5. QED
  BY <1>1, <1>2, <1>3, <1>4, UnknownGood, WorkerKeepsOn

LEMMA WorkerStepHolds ==
    ASSUME Stepping, NEW k \in Keys, Stop(k) \/ WorkerStep(k)
    PROVE  HoldInv'
BY StopHolds, PollHolds, CheckActiveHolds, CollectHolds, FinalizeHolds, CleanupRunHolds,
   AbandonHolds, RemoveHolds DEF WorkerStep

-----------------------------------------------------------------------------
(***************************************************************************)
(* The App Server, its connection, and the life of the process.            *)
(***************************************************************************)
LEMMA TurnGoesOn ==
    ASSUME Stepping, NEW h \in Threads, Live(h), nextThread' = nextThread,
           NEW t \in Turn, server' = [server EXCEPT ![h] = t],
           t.key = server[h].key, t.phase \in {"running", "over"}, t.end # "none" => t.phase = "over"
    PROVE  ServerCalm /\ \A d \in Callers : IdleKept(d)
<1>1. /\ server' \in [Threads -> Turn] /\ server'[h] = t
      /\ \A x \in Threads : x # h => server'[x] = server[x]
  BY SteppingParts DEF SideTyped
<1>2. nextThread' \in 1..MaxStreams + 1 /\ nextThread <= nextThread'
  BY StreamsAreNumbers, SteppingParts DEF SideTyped
<1>3. \A x \in Threads : x >= nextThread' => server'[x] = NoThread
  <2>1. ~(h >= nextThread)
    BY NoThreadTyped, SteppingParts DEF ServerGood, Live
  <2>2. QED
    BY <1>1, <2>1, SteppingParts DEF ServerGood
<1>4. \A x \in Threads : server'[x].key = server[x].key
  BY <1>1
<1>5. \A x \in Threads : server'[x].end # "none" => server'[x].phase = "over"
  BY <1>1, SteppingParts DEF ServerGood
<1>6. \A x \in Threads :
          server[x].phase = "over" => server'[x].phase = "over" /\ server'[x].end = server[x].end
  BY <1>1 DEF Live
<1>7. ServerCalm
  BY <1>1, <1>2, <1>3, <1>4, <1>5, <1>6 DEF ServerCalm, ServerKept, Taken, Live
<1>8. ASSUME NEW d \in Callers PROVE IdleKept(d)
  <2>1. PICK b : b = call[d]
    OBVIOUS
  <2>2. CommandKnows(b)
    BY <2>1, SteppingParts DEF TurnsInv
  <2>3. QED
    BY <1>1, <2>1, <2>2 DEF CommandKnows, IdleKept, Live
<1>9. QED
  BY <1>7, <1>8

LEMMA TurnStepHolds ==
    ASSUME Stepping, NEW h \in Threads,
           \/ TurnStarts(h)
           \/ \E kind \in {"running", "waitingApproval"} : TurnNotifies(h, kind)
           \/ \E kind \in TerminalEvent : TurnEnds(h, kind)
    PROVE  HoldInv'
<1>1. UNCHANGED serviceVars /\ UNCHANGED <<call, worker, worktrees, nextThread, connection, up, turnsSent, evicted>>
  BY DEF TurnStarts, TurnNotifies, TurnEnds
<1>2. Live(h) /\ up
  BY DEF TurnStarts, TurnNotifies, TurnEnds, Live
<1>3. server[h] \in Turn /\ server[h].end = "none"
  BY <1>2, SteppingParts DEF SideTyped, ServerGood, Live
<1>4. PICK kind \in Notification, t \in Turn :
          /\ server' = [server EXCEPT ![h] = t] /\ Deliver(h, kind)
          /\ t.key = server[h].key /\ t.phase \in {"running", "over"}
          /\ t.end # "none" => t.phase = "over"
          /\ kind \in TerminalEvent => t.phase = "over" /\ t.end = kind
  <2>1. CASE TurnStarts(h)
    <3> DEFINE n == server[h].sent + 1
               t == [server[h] EXCEPT !.phase = "running", !.sent = n]
    <3>1. server' = [server EXCEPT ![h] = t] /\ Deliver(h, "running")
      BY <2>1 DEF TurnStarts
    <3>2. t \in Turn /\ t.key = server[h].key /\ t.phase = "running" /\ t.end = "none"
      <4>1. n \in Nat /\ "running" \in TurnPhase
        BY <1>3 DEF Turn, TurnPhase
      <4> HIDE DEF n
      <4>2. QED
        BY <1>3, <4>1 DEF Turn
    <3>3. "running" \in Notification /\ "running" \notin TerminalEvent
      BY DEF Notification, TerminalEvent
    <3> HIDE DEF t
    <3>4. QED
      BY <3>1, <3>2, <3>3
  <2>2. ASSUME NEW kind \in {"running", "waitingApproval"}, TurnNotifies(h, kind)
        PROVE  \E e \in Notification, t \in Turn :
                  /\ server' = [server EXCEPT ![h] = t] /\ Deliver(h, e)
                  /\ t.key = server[h].key /\ t.phase \in {"running", "over"}
                  /\ t.end # "none" => t.phase = "over"
                  /\ e \in TerminalEvent => t.phase = "over" /\ t.end = e
    <3> DEFINE t == [server[h] EXCEPT !.sent = @ + 1]
    <3>1. server' = [server EXCEPT ![h] = t] /\ Deliver(h, kind) /\ server[h].phase = "running"
      BY <2>2 DEF TurnNotifies
    <3>2. t \in Turn /\ t.key = server[h].key /\ t.phase = "running" /\ t.end = "none"
      BY <1>3, <3>1 DEF Turn, TurnPhase
    <3>3. kind \in Notification /\ kind \notin TerminalEvent
      BY DEF Notification, TerminalEvent
    <3> HIDE DEF t
    <3>4. QED
      BY <3>1, <3>2, <3>3
  <2>3. ASSUME NEW kind \in TerminalEvent, TurnEnds(h, kind)
        PROVE  \E e \in Notification, t \in Turn :
                  /\ server' = [server EXCEPT ![h] = t] /\ Deliver(h, e)
                  /\ t.key = server[h].key /\ t.phase \in {"running", "over"}
                  /\ t.end # "none" => t.phase = "over"
                  /\ e \in TerminalEvent => t.phase = "over" /\ t.end = e
    <3> DEFINE t == [server[h] EXCEPT !.phase = "over", !.end = kind]
    <3>1. server' = [server EXCEPT ![h] = t] /\ Deliver(h, kind)
      BY <2>3 DEF TurnEnds
    <3>2. t \in Turn /\ t.key = server[h].key /\ t.phase = "over" /\ t.end = kind
      BY <1>3 DEF Turn, TurnPhase
    <3>3. kind \in Notification
      BY DEF Notification
    <3> HIDE DEF t
    <3>4. QED
      BY <3>1, <3>2, <3>3
  <2>4. QED
    BY <2>1, <2>2, <2>3
<1>5. ServerCalm /\ \A d \in Callers : IdleKept(d)
  BY <1>1, <1>2, <1>4, TurnGoesOn
<1>6. RouterCalm
  <2>1. server'[h] = t
    BY <1>4, SteppingParts DEF SideTyped
  <2>2. QED
    BY <1>4, <2>1, DeliverCalm, SteppingParts
<1>7. \A x \in Keys \ evicted' : VerdictOK(x)
  BY <1>1, FileSame DEF serviceVars
<1>8. up' \in BOOLEAN /\ (up' => connection' \in Connections)
  BY <1>1, SteppingParts DEF SideTyped, ServerGood
<1>9. QED
  BY <1>1, <1>5, <1>6, <1>7, <1>8, WorldStep

LEMMA GoneCalm ==
    ASSUME Stepping, ServerGone, nextThread' = nextThread
    PROVE  ServerCalm /\ \A d \in Callers : IdleKept(d)
<1>1. \A x \in Threads : /\ server[x] \in Turn /\ [server[x] EXCEPT !.phase = "lost"] \in Turn
                         /\ [server[x] EXCEPT !.phase = "lost"].phase = "lost"
                         /\ [server[x] EXCEPT !.phase = "lost"].key = server[x].key
                         /\ [server[x] EXCEPT !.phase = "lost"].end = server[x].end
  BY SteppingParts DEF SideTyped, Turn, TurnPhase
<1>2. /\ server' \in [Threads -> Turn]
      /\ \A x \in Threads : /\ server'[x].key = server[x].key /\ server'[x].end = server[x].end
                            /\ Live(x) => server'[x].phase = "lost"
                            /\ ~Live(x) => server'[x] = server[x]
  BY <1>1 DEF ServerGone, Live
<1>3. nextThread' \in 1..MaxStreams + 1 /\ nextThread <= nextThread'
  BY StreamsAreNumbers, SteppingParts DEF SideTyped
<1>4. \A x \in Threads : x >= nextThread' => server'[x] = NoThread
  BY <1>2, NoThreadTyped, SteppingParts DEF ServerGood, Live
<1>5. \A x \in Threads : server'[x].end # "none" => server'[x].phase = "over"
  BY <1>2, SteppingParts DEF ServerGood, Live
<1>6. \A x \in Threads :
          server[x].phase = "over" => server'[x].phase = "over" /\ server'[x].end = server[x].end
  BY <1>2 DEF Live
<1>7. ServerCalm
  BY <1>2, <1>3, <1>4, <1>5, <1>6 DEF ServerCalm, ServerKept, Taken, Live
<1>8. ASSUME NEW d \in Callers PROVE IdleKept(d)
  <2>1. PICK b : b = call[d]
    OBVIOUS
  <2>2. CommandKnows(b)
    BY <2>1, SteppingParts DEF TurnsInv
  <2>3. QED
    BY <1>2, <2>1, <2>2 DEF CommandKnows, IdleKept, Live
<1>9. QED
  BY <1>7, <1>8

LEMMA ConnectionHolds ==
    ASSUME Stepping, Disconnect \/ Connect \/ Startup \/ UNCHANGED vars
    PROVE  HoldInv'
<1>1. UNCHANGED <<call, worker, worktrees, nextThread, turnsSent, evicted>>
  BY DEF Disconnect, Connect, Startup, vars, runVars
<1>2. NoNewVerdict
  <2>1. CASE disk' = disk
    BY <2>1, FileSameNoVerdict
  <2>2. CASE Open
    BY <2>2, OpenNoVerdict, SteppingParts
  <2>3. QED
    BY <2>1, <2>2 DEF Disconnect, Connect, Startup, vars, serviceVars
<1>3. \A x \in Keys \ evicted' : VerdictOK(x)
  BY <1>2, OldVerdicts
<1>4. up' \in BOOLEAN /\ (up' => connection' \in Connections)
  <2>1. CASE up' = up /\ connection' = connection
    BY <2>1, SteppingParts DEF SideTyped, ServerGood
  <2>2. CASE up' = FALSE
    BY <2>2
  <2>3. CASE up' = TRUE /\ connection' \in Connections
    BY <2>3
  <2>4. QED
    BY <2>1, <2>2, <2>3 DEF Disconnect, Connect, Startup, vars, runVars
<1>5. CASE Disconnect
  <2>1. ServerCalm /\ \A d \in Callers : IdleKept(d)
    BY <1>5, GoneCalm DEF Disconnect
  <2>2. RouterCalm
    BY <1>5, DeactivateCalm, SteppingParts DEF Disconnect
  <2>3. QED
    BY <1>1, <1>3, <1>4, <2>1, <2>2, WorldStep
<1>6. CASE Connect \/ Startup \/ UNCHANGED vars
  <2>1. server' = server /\ UNCHANGED routerVars
    BY <1>6 DEF Connect, Startup, vars, runVars
  <2>2. ServerCalm /\ RouterCalm /\ \A d \in Callers : IdleKept(d)
    BY <1>1, <2>1, ServerSame, RouterSame, IdleStays, SteppingParts
  <2>3. QED
    BY <1>1, <1>3, <1>4, <2>2, WorldStep
<1>7. QED
  BY <1>5, <1>6

\* A crash leaves nobody who holds a run, and every turn lost.
LEMMA CrashHolds == ASSUME Stepping, Crash PROVE HoldInv'
<1>1. /\ UNCHANGED <<nextRoute, worktrees, nextThread, connection, turnsSent, evicted>>
      /\ up' = FALSE /\ disk' = disk
  BY DEF Crash, Close
<1>2. (\A c \in Callers : call'[c].pc = "idle") /\ \A k \in Keys : worker'[k].pc = "none"
  BY DEF Crash, Idle, NoWorker
<1>3. \A c \in Callers : CallGood(c)
  BY <1>2, IdleGood DEF CallGood
<1>4. \A k \in Keys : WorkerGood(k)
  BY <1>2, UnknownGood DEF WorkerGood
<1>5. HoldersGood'
  BY <1>2 DEF HoldersGood, Holding, WorkerHolds, HoldPc, Owning, WorkerHoldPc
<1>6. ServerCalm
  BY <1>1, GoneCalm DEF Crash
<1>7. RouterCalm
  <2>1. /\ routes' \subseteq routes /\ queue' \in [Streams -> EventQueue]
        /\ \A s \in Streams : queue'[s] = NoQueue
    BY NoQueueTyped DEF Crash
  <2>2. \A s \in Streams, e \in TerminalEvent :
            InQueue(queue'[s].events, e) => InQueue(queue[s].events, e)
    BY <2>1, NoQueueTyped
  <2>3. QED
    BY <1>1, <2>1, <2>2, FewerCalm, SteppingParts
<1>8. SideOK
  BY <1>1, SteppingParts DEF SideOK, SideTyped
<1>9. \A x \in Keys \ evicted' : VerdictOK(x)
  BY <1>1, FileSame
<1>10. \A x \in worktrees \ worktrees' : ReleaseOK(x)
  BY <1>1
<1>11. QED
  BY <1>3, <1>4, <1>5, <1>6, <1>7, <1>8, <1>9, <1>10, CalmStep DEF Stepping

-----------------------------------------------------------------------------
LEMMA HoldInit == Init => HoldInv
<1> SUFFICES ASSUME Init PROVE HoldInv
  OBVIOUS
<1>1. RunInv
  BY RunInitInv
<1>2. \A h \in Threads : server[h] = NoThread /\ server[h].phase = "none" /\ server[h].end = "none"
  BY NoThreadTyped DEF Init
<1>3. (\A c \in Callers : call[c].pc = "idle") /\ \A k \in Keys : worker[k].pc = "none"
  BY DEF Init, Idle, NoWorker
<1>4. SideTyped
  <2>1. RouterTypeOK
    BY NoQueueTyped, StreamsAreNumbers DEF Init, RouterInit, RouterTypeOK
  <2>2. server \in [Threads -> Turn] /\ 1 \in 1..MaxStreams + 1
    BY NoThreadTyped, StreamsAreNumbers DEF Init
  <2>3. QED
    BY <2>1, <2>2 DEF Init, SideTyped
<1>5. HoldersGood
  BY <1>3 DEF HoldersGood, Holding, WorkerHolds, HoldPc, Owning, WorkerHoldPc
<1>6. TurnsInv
  <2>1. ServerGood
    BY <1>2 DEF ServerGood, OneLiveTurn, LiveTurnHasWorktree, Init, RouterInit
  <2>2. \A c \in Callers : CommandKnows(call[c])
    BY <1>3 DEF CommandKnows, PreTurn
  <2>3. \A k \in Keys : WorkerKnows(k, worker[k])
    BY <1>3 DEF WorkerKnows
  <2>4. QED
    BY <2>1, <2>2, <2>3 DEF TurnsInv
<1>7. RecordsInv
  <2>1. \A k : ~Has(disk, k)
    BY EmptyDomain DEF Init, ServiceInit, Has
  <2>2. \A k \in Keys : ~TakenUp(k)
    BY <1>2 DEF TakenUp
  <2>3. VerdictIsHonest /\ EvidenceKept
    BY <2>1, <2>2 DEF VerdictIsHonest, EvidenceKept
  <2>4. \A c \in Callers : CommandRecord(call[c])
    BY <1>3 DEF CommandRecord, PreTurn
  <2>5. \A k \in Keys : WorkerRecord(k, worker[k])
    BY <1>3 DEF WorkerRecord
  <2>6. QED
    BY <2>2, <2>3, <2>4, <2>5 DEF RecordsInv
<1>8. QED
  BY <1>1, <1>4, <1>5, <1>6, <1>7 DEF HoldInv

LEMMA HoldStep == HoldInv /\ [Next]_vars => HoldInv'
<1> SUFFICES ASSUME HoldInv, [Next]_vars PROVE HoldInv'
  OBVIOUS
<1>1. Stepping
  BY RunStep DEF Stepping, HoldInv
<1>2. ASSUME NEW c \in Callers,
             StartStep(c) \/ \E k \in Keys, p \in Projects : StartCommand(c, k, p)
      PROVE  HoldInv'
  BY <1>1, <1>2, StartStepHolds, StartCommandHolds
<1>3. ASSUME NEW k \in Keys, Stop(k) \/ WorkerStep(k) PROVE HoldInv'
  BY <1>1, <1>3, WorkerStepHolds
<1>4. ASSUME NEW h \in Threads,
             \/ TurnStarts(h)
             \/ \E kind \in {"running", "waitingApproval"} : TurnNotifies(h, kind)
             \/ \E kind \in TerminalEvent : TurnEnds(h, kind)
      PROVE  HoldInv'
  BY <1>1, <1>4, TurnStepHolds
<1>5. CASE Startup \/ Crash \/ Connect \/ Disconnect \/ UNCHANGED vars
  BY <1>1, <1>5, CrashHolds, ConnectionHolds
<1>6. QED
  BY <1>2, <1>3, <1>4, <1>5 DEF Next

(***************************************************************************)
(* Commands, workers, router, App Server and worktrees keep their types.   *)
(***************************************************************************)
THEOREM RunTypes == Spec => []TypeOK
<1>1. HoldInv => TypeOK
  BY DEF HoldInv, RunInv, RunTyped, ServiceInv, SideTyped, TypeOK
<1>2. QED
  BY <1>1, HoldInit, HoldStep, PTL DEF Spec

(***************************************************************************)
(* Two turns of one run never execute at the same time, whatever command   *)
(* repeats the request and even when the store has dropped its record: the *)
(* worktree that TaskWorktreeManager::create refuses to make twice stands  *)
(* in the way.                                                             *)
(***************************************************************************)
THEOREM NeverTwoLiveTurns == Spec => []OneLiveTurn
<1>1. HoldInv => OneLiveTurn
  BY DEF HoldInv, TurnsInv, ServerGood
<1>2. QED
  BY <1>1, HoldInit, HoldStep, PTL DEF Spec

(***************************************************************************)
(* Cleanup throws no work away: while a turn executes its worktree exists, *)
(* and a worktree a turn has worked in goes only when the receipt of a     *)
(* known outcome is in the file, whatever fails or crashes in between.     *)
(***************************************************************************)
THEOREM WorkIsKept == Spec => []WorkKept
<1>1. HoldInv => WorkKept
  BY DEF HoldInv, TurnsInv, ServerGood, RecordsInv, WorkKept
<1>2. QED
  BY <1>1, HoldInit, HoldStep, PTL DEF Spec

(***************************************************************************)
(* The file never holds a false verdict: what finalize_run records as      *)
(* completed, cancelled or failed the App Server reported so, or no turn   *)
(* was ever taken up.                                                      *)
(***************************************************************************)
THEOREM VerdictsAreHonest == Spec => []VerdictIsHonest
<1>1. HoldInv => VerdictIsHonest
  BY DEF HoldInv, RecordsInv
<1>2. QED
  BY <1>1, HoldInit, HoldStep, PTL DEF Spec

-----------------------------------------------------------------------------
(***************************************************************************)
(* Room in the event log.  The log of a task grows by two events when it   *)
(* is accepted, one when its run is registered, two when the run begins,   *)
(* and one with each change between running and waiting for approval that  *)
(* the worker observes; the two events of its end must still fit.  What    *)
(* the worker can still observe is in the queue of its stream, and the     *)
(* first "running" of a turn changes nothing, so the events of an active   *)
(* run and the changes in its queue are bounded by what the App Server has *)
(* sent of its turn.                                                       *)
(***************************************************************************)
Change == {"running", "waitingApproval"}

ChangesAt(q) == {i \in 1..Len(q) : q[i] \in Change}

Changes(q) == Cardinality(ChangesAt(q))

EarlyLog(t) ==
    /\ t.status = "draft" => t.events = 0
    /\ t.status = "offered" => t.events <= 1
    /\ t.run = "none" => t.events <= 2
    /\ t.run = "queued" => t.events <= 3

Active(k) == Has(disk, k) /\ Lookup(disk, k).run \in ActiveRun

JustBegun(k) == Active(k) => Lookup(disk, k).run = "running" /\ Lookup(disk, k).events <= 5

\* The first "running" of the turn is not sent yet, or at the head of the queue.
Unread(q, t, n) ==
    /\ t.run = "running" /\ t.events <= 5
    /\ t.events + Changes(q) <= 5 + n
    /\ IF q = <<>> THEN n = 0 ELSE q[1] = "running"

HasRoom(q, t, n) == t.events + Changes(q) <= 4 + n \/ Unread(q, t, n)

\* What reaches stream s comes from thread h.
ComesFrom(s, h) ==
    /\ s \in Streams /\ s < nextRoute /\ h \in Threads /\ h < nextThread
    /\ \A r \in routes : r.id = s => r.thread = h

\* Thread h, at the other end of stream s, has a turn of k, and as far as k's
\* log is filled it is filled by what h has sent.
LogRoom(s, h, k) ==
    /\ ComesFrom(s, h)
    /\ server[h].key = k
    /\ Active(k) => HasRoom(queue[s].events, Lookup(disk, k), server[h].sent)

SentGood(h) ==
    /\ server[h].sent <= 1 \/ server[h].sent <= MaxNotifications
    /\ server[h].phase \in {"none", "idle", "accepted", "refused"} => server[h].sent = 0
    /\ server[h].phase \in {"running", "over"} => server[h].sent >= 1

Reading == {"turn", "await", "bind", "spawn"}

CommandLog(b) ==
    /\ b.pc \in PreTurn => JustBegun(b.key)
    /\ b.pc \in Reading => LogRoom(b.stream, b.thread, b.key)

WorkerLog(k, w) == w.pc \in {"loop", "check"} => \E h \in Threads : LogRoom(w.stream, h, k)

RoomToEnd(t) == t.run \in ActiveRun => t.events + 2 <= MaxEvents \/ Overlong(t.key)

LogInv ==
    /\ \A i \in DOMAIN disk : EarlyLog(disk[i]) /\ RoomToEnd(disk[i])
    /\ \A h \in Threads : SentGood(h)
    /\ \A c \in Callers : CommandLog(call[c])
    /\ \A k \in Keys : WorkerLog(k, worker[k])

-----------------------------------------------------------------------------
(***************************************************************************)
(* The changes in a queue.                                                 *)
(***************************************************************************)
LEMMA ChangesFinite ==
    ASSUME NEW q \in Seq(RunEvent)
    PROVE  IsFiniteSet(ChangesAt(q)) /\ Changes(q) \in Nat
<1>1. IsFiniteSet(1..Len(q))
  BY FS_Interval, LenProperties
<1>2. ChangesAt(q) \subseteq 1..Len(q)
  BY DEF ChangesAt
<1>3. QED
  BY <1>1, <1>2, FS_Subset, FS_CardinalityType DEF Changes

LEMMA NoChanges == Changes(<<>>) = 0
<1>1. <<>> \in Seq(RunEvent) /\ Len(<<>>) = 0
  BY EmptySeq
<1>2. ChangesAt(<<>>) = {}
  BY <1>1 DEF ChangesAt
<1>3. QED
  BY <1>2, FS_EmptySet DEF Changes

\* Fewer positions hold a change, up to the one that is new.
LEMMA FewerChanges ==
    ASSUME NEW q \in Seq(RunEvent), NEW p \in Seq(RunEvent), ChangesAt(p) \subseteq ChangesAt(q)
    PROVE  Changes(p) <= Changes(q)
BY ChangesFinite, FS_Subset DEF Changes

LEMMA OneMoreChange ==
    ASSUME NEW q \in Seq(RunEvent), NEW p \in Seq(RunEvent), NEW x,
           ChangesAt(p) \subseteq ChangesAt(q) \cup {x}
    PROVE  Changes(p) <= Changes(q) + 1
<1>1. /\ IsFiniteSet(ChangesAt(q) \cup {x})
      /\ Cardinality(ChangesAt(q) \cup {x}) = IF x \in ChangesAt(q) THEN Changes(q) ELSE Changes(q) + 1
  BY ChangesFinite, FS_AddElement DEF Changes
<1>2. Changes(p) <= Cardinality(ChangesAt(q) \cup {x})
  BY <1>1, FS_Subset DEF Changes
<1>3. Changes(p) \in Nat /\ Changes(q) \in Nat
  BY ChangesFinite
<1>4. QED
  BY <1>1, <1>2, <1>3

\* What push makes of the changes in a queue, and of its head.
LEMMA PushedChanges ==
    ASSUME NEW q \in Seq(RunEvent), NEW kind \in RunEvent
    PROVE  LET p == QueuePush(q, kind)
           IN  /\ p # <<>>
               /\ Changes(p) <= Changes(q) + 1
               /\ kind \notin Change => Changes(p) <= Changes(q)
               /\ q = <<>> => p[1] = kind
               /\ q # <<>> => p[1] = q[1] \/ Changes(p) = 0
<1> DEFINE p == QueuePush(q, kind)
<1>0. /\ QueueCapacity \in Nat \ {0} /\ Len(q) \in Nat /\ DOMAIN q = 1..Len(q)
      /\ "gap" \in RunEvent /\ "gap" \notin Change
  BY RouterAssumption, LenProperties DEF RunEvent, Change
<1>1. (q = <<>> <=> Len(q) = 0) /\ (q # <<>> => 1 \in 1..Len(q))
  BY <1>0, EmptySeq
<1>2. Changes(q) \in Nat
  BY ChangesFinite
<1>3. CASE Len(q) < QueueCapacity
  <2>1. p = Append(q, kind)
    BY <1>3 DEF QueuePush
  <2>2. /\ p \in Seq(RunEvent) /\ Len(p) = Len(q) + 1 /\ p[Len(q) + 1] = kind
        /\ \A i \in 1..Len(q) : p[i] = q[i]
    BY <2>1, AppendProperties
  <2> HIDE DEF p
  <2>3. \A i \in 1..(Len(q) + 1) : i \in 1..Len(q) \/ i = Len(q) + 1
    BY <1>0
  <2>4. ChangesAt(p) \subseteq ChangesAt(q) \cup {Len(q) + 1}
    BY <2>2, <2>3 DEF ChangesAt
  <2>5. kind \notin Change => ChangesAt(p) \subseteq ChangesAt(q)
    BY <2>2, <2>3 DEF ChangesAt
  <2>6. Changes(p) <= Changes(q) + 1
    BY <2>2, <2>4, OneMoreChange
  <2>7. kind \notin Change => Changes(p) <= Changes(q)
    BY <2>2, <2>5, FewerChanges
  <2>8. p # <<>>
    BY <1>0, <2>2, EmptySeq
  <2>9. (q = <<>> => p[1] = kind) /\ (q # <<>> => p[1] = q[1])
    BY <1>0, <1>1, <2>2
  <2>10. QED
    BY <2>6, <2>7, <2>8, <2>9 DEF p
<1>4. CASE Len(q) >= QueueCapacity /\ q[Len(q)] = "gap"
  <2>0. ~(Len(q) < QueueCapacity) /\ q # <<>>
    BY <1>0, <1>1, <1>4
  <2>1. p = q /\ q # <<>>
    BY <1>4, <2>0 DEF QueuePush
  <2>2. QED
    BY <1>2, <2>1
<1>5. CASE Len(q) >= QueueCapacity /\ q[Len(q)] # "gap"
  <2>0. ~(Len(q) < QueueCapacity) /\ Len(q) \in 1..Len(q) /\ q # <<>>
    BY <1>0, <1>1, <1>5
  <2>1. p = [q EXCEPT ![Len(q)] = "gap"]
    BY <1>5, <2>0 DEF QueuePush
  <2>2. /\ p \in Seq(RunEvent) /\ Len(p) = Len(q)
        /\ \A j \in 1..Len(q) : p[j] = IF j = Len(q) THEN "gap" ELSE q[j]
    BY <1>0, <2>0, <2>1, ExceptSeq
  <2> HIDE DEF p
  <2>3. ChangesAt(p) \subseteq ChangesAt(q)
    BY <1>0, <2>2 DEF ChangesAt
  <2>4. Changes(p) <= Changes(q) /\ Changes(p) \in Nat
    BY <2>2, <2>3, FewerChanges, ChangesFinite
  <2>5. p # <<>>
    BY <1>1, <2>0, <2>2, EmptySeq
  <2>6. Len(q) # 1 => p[1] = q[1]
    BY <1>1, <2>0, <2>2
  <2>7. Len(q) = 1 => Changes(p) = 0
    <3> SUFFICES ASSUME Len(q) = 1 PROVE Changes(p) = 0
      OBVIOUS
    <3>1. ChangesAt(p) = {}
      BY <1>0, <2>2 DEF ChangesAt
    <3>2. QED
      BY <3>1, FS_EmptySet DEF Changes
  <2>8. QED
    BY <1>2, <2>0, <2>4, <2>5, <2>6, <2>7 DEF p
<1>6. QED
  BY <1>0, <1>3, <1>4, <1>5

\* try_recv takes the head, and with it a change if it is one.
LEMMA TailChanges ==
    ASSUME NEW q \in Seq(RunEvent), q # <<>>
    PROVE  /\ Changes(Tail(q)) <= Changes(q)
           /\ q[1] \in Change => Changes(Tail(q)) = Changes(q) - 1
<1> DEFINE t == Tail(q)
           A == ChangesAt(t)
           B == ChangesAt(q)
           f == [i \in A |-> i + 1]
<1>1. /\ t \in Seq(RunEvent) /\ Len(t) = Len(q) - 1
      /\ \A i \in 1..Len(t) : t[i] = q[i + 1]
  BY HeadTailProperties
<1> HIDE DEF t
<1>2. Len(q) \in Nat /\ Len(q) # 0 /\ Len(t) \in Nat
  BY <1>1, LenProperties, EmptySeq
<1>3. IsFiniteSet(A) /\ Cardinality(A) = Changes(t) /\ IsFiniteSet(B) /\ Cardinality(B) = Changes(q)
  BY <1>1, ChangesFinite DEF Changes
<1>4. A \subseteq Nat /\ B \subseteq Nat
  BY <1>2 DEF ChangesAt
<1>5. \A i \in A : i + 1 \in B \ {1}
  BY <1>1, <1>2 DEF ChangesAt
<1>6. \A j \in B \ {1} : j - 1 \in A /\ (j - 1) + 1 = j
  BY <1>1, <1>2 DEF ChangesAt
<1> HIDE DEF A, B
<1>7. f \in [A -> B \ {1}] /\ \A i \in A : f[i] = i + 1
  BY <1>5
<1> HIDE DEF f
<1>8. f \in Bijection(A, B \ {1})
  <2>1. \A i, j \in A : f[i] = f[j] => i = j
    BY <1>4, <1>7
  <2>2. \A j \in B \ {1} : \E i \in A : f[i] = j
    BY <1>6, <1>7
  <2>3. f \in Injection(A, B \ {1})
    BY <1>7, <2>1 DEF Injection, IsInjective
  <2>4. f \in Surjection(A, B \ {1})
    BY <1>7, <2>2 DEF Surjection
  <2>5. QED
    BY <2>3, <2>4 DEF Bijection
<1>9. Cardinality(A) = Cardinality(B \ {1})
  BY <1>3, <1>8, FS_Bijection DEF ExistsBijection
<1>10. Cardinality(B \ {1}) = IF 1 \in B THEN Cardinality(B) - 1 ELSE Cardinality(B)
  BY <1>3, FS_RemoveElement
<1>11. q[1] \in Change => 1 \in B
  BY <1>2 DEF B, ChangesAt
<1>12. Cardinality(B) \in Nat
  BY <1>3, FS_CardinalityType
<1>13. QED
  BY <1>3, <1>9, <1>10, <1>11, <1>12 DEF t

-----------------------------------------------------------------------------
(***************************************************************************)
(* Room stays when events are read or dropped, when the App Server sends   *)
(* one, and when the worker writes what it has read.                       *)
(***************************************************************************)
Shrunk(q, p) == p = q \/ (q # <<>> /\ p = Tail(q)) \/ p = <<>>

LEMMA RoomShrinks ==
    ASSUME NEW q \in Seq(RunEvent), NEW p, Shrunk(q, p), NEW t, t.events \in Nat, NEW n \in Nat,
           HasRoom(q, t, n)
    PROVE  HasRoom(p, t, n)
<1>1. Changes(q) \in Nat /\ Changes(<<>>) = 0
  BY ChangesFinite, NoChanges
<1>2. CASE p = q
  BY <1>2
<1>3. ASSUME q # <<>> PROVE HasRoom(Tail(q), t, n) /\ HasRoom(<<>>, t, n)
  <2>1. /\ Changes(Tail(q)) \in Nat /\ Changes(Tail(q)) <= Changes(q)
        /\ q[1] \in Change => Changes(Tail(q)) = Changes(q) - 1
    BY <1>3, TailChanges, TailEvents, ChangesFinite
  <2>2. CASE t.events + Changes(q) <= 4 + n
    BY <1>1, <2>1, <2>2 DEF HasRoom
  <2>3. CASE Unread(q, t, n)
    <3>1. q[1] \in Change /\ t.events + Changes(q) <= 5 + n
      BY <1>3, <2>3 DEF Unread, Change
    <3>2. QED
      BY <1>1, <2>1, <3>1 DEF HasRoom
  <2>4. QED
    BY <2>2, <2>3 DEF HasRoom
<1>4. CASE q = <<>>
  BY <1>2, <1>4 DEF Shrunk
<1>5. QED
  BY <1>2, <1>3, <1>4 DEF Shrunk

\* A change is sent, and reaches the queue, is replaced by a gap, or gets lost.
LEMMA RoomSent ==
    ASSUME NEW q \in Seq(RunEvent), NEW t, t.events \in Nat, NEW n \in Nat, HasRoom(q, t, n)
    PROVE  HasRoom(q, t, n + 1)
<1>1. Changes(q) \in Nat /\ Changes(<<>>) = 0
  BY ChangesFinite, NoChanges
<1>2. CASE t.events + Changes(q) <= 4 + n
  BY <1>1, <1>2 DEF HasRoom
<1>3. CASE Unread(q, t, n)
  <2>1. CASE q = <<>>
    BY <1>1, <1>3, <2>1 DEF HasRoom, Unread
  <2>2. CASE q # <<>>
    BY <1>1, <1>3, <2>2 DEF HasRoom, Unread
  <2>3. QED
    BY <2>1, <2>2
<1>4. QED
  BY <1>2, <1>3 DEF HasRoom

LEMMA RoomPushed ==
    ASSUME NEW q \in Seq(RunEvent), NEW t, t.events \in Nat, NEW n \in Nat, HasRoom(q, t, n),
           NEW kind \in {"running", "waitingApproval", "gap"},
           n = 0 => kind \in {"running", "gap"}
    PROVE  HasRoom(QueuePush(q, kind), t, n + 1)
<1> DEFINE p == QueuePush(q, kind)
<1>1. kind \in RunEvent /\ "gap" \notin Change
  BY DEF RunEvent, Notification, Change
<1>2. /\ p # <<>> /\ Changes(p) <= Changes(q) + 1
      /\ kind \notin Change => Changes(p) <= Changes(q)
      /\ q = <<>> => p[1] = kind
      /\ q # <<>> => p[1] = q[1] \/ Changes(p) = 0
  BY <1>1, PushedChanges
<1>3. Changes(q) \in Nat /\ Changes(<<>>) = 0 /\ Changes(p) \in Nat
  BY <1>1, ChangesFinite, NoChanges, PushedEvents
<1> HIDE DEF p
<1> SUFFICES HasRoom(p, t, n + 1)
  BY DEF p
<1>4. CASE t.events + Changes(q) <= 4 + n
  BY <1>2, <1>3, <1>4 DEF HasRoom
<1>5. CASE Unread(q, t, n)
  <2>1. t.run = "running" /\ t.events <= 5 /\ t.events + Changes(q) <= 5 + n
    BY <1>5 DEF Unread
  <2>2. CASE q = <<>>
    <3>1. n = 0 /\ p[1] = kind
      BY <1>2, <1>5, <2>2 DEF Unread
    <3>2. CASE kind = "running"
      BY <1>2, <1>3, <2>1, <2>2, <3>1, <3>2 DEF HasRoom, Unread
    <3>3. CASE kind = "gap"
      BY <1>1, <1>2, <1>3, <2>1, <2>2, <3>1, <3>3 DEF HasRoom
    <3>4. QED
      BY <3>1, <3>2, <3>3
  <2>3. CASE q # <<>> /\ p[1] = q[1]
    <3>1. p[1] = "running"
      BY <1>5, <2>3 DEF Unread
    <3>2. t.events + Changes(p) <= 5 + (n + 1)
      BY <1>2, <1>3, <2>1
    <3>3. QED
      BY <1>2, <2>1, <3>1, <3>2 DEF HasRoom, Unread
  <2>4. CASE Changes(p) = 0
    BY <2>1, <2>4 DEF HasRoom
  <2>5. QED
    BY <1>2, <2>2, <2>3, <2>4
<1>6. QED
  BY <1>4, <1>5 DEF HasRoom

\* The end of a turn is no change.
LEMMA RoomEnds ==
    ASSUME NEW q \in Seq(RunEvent), NEW t, t.events \in Nat, NEW n \in Nat, HasRoom(q, t, n),
           n >= 1, NEW kind \in RunEvent, kind \notin Change
    PROVE  HasRoom(QueuePush(q, kind), t, n)
<1> DEFINE p == QueuePush(q, kind)
<1>2. /\ p # <<>> /\ Changes(p) <= Changes(q)
      /\ q # <<>> => p[1] = q[1] \/ Changes(p) = 0
  BY PushedChanges
<1>3. Changes(q) \in Nat /\ Changes(p) \in Nat
  BY ChangesFinite, PushedEvents
<1> HIDE DEF p
<1> SUFFICES HasRoom(p, t, n)
  BY DEF p
<1>4. CASE t.events + Changes(q) <= 4 + n
  BY <1>2, <1>3, <1>4 DEF HasRoom
<1>5. CASE Unread(q, t, n)
  <2>1. /\ t.run = "running" /\ t.events <= 5 /\ t.events + Changes(q) <= 5 + n
        /\ q # <<>> /\ q[1] = "running"
    BY <1>5 DEF Unread
  <2>2. CASE p[1] = q[1]
    <3>1. t.events + Changes(p) <= 5 + n
      BY <1>2, <1>3, <2>1
    <3>2. QED
      BY <1>2, <2>1, <2>2, <3>1 DEF HasRoom, Unread
  <2>3. CASE Changes(p) = 0
    BY <2>1, <2>3 DEF HasRoom
  <2>4. QED
    BY <1>2, <2>1, <2>2, <2>3
<1>6. QED
  BY <1>4, <1>5 DEF HasRoom

\* A change that is read and written: one event more, one change less.
LEMMA RoomWritten ==
    ASSUME NEW q \in Seq(RunEvent), q # <<>>, NEW t, t.events \in Nat, NEW n \in Nat,
           HasRoom(q, t, n), q[1] \in Change, q[1] = "running" => t.run # "running",
           NEW u, u.events = t.events + 1
    PROVE  HasRoom(Tail(q), u, n)
<1>1. ~Unread(q, t, n)
  BY DEF Unread, Change
<1>2. t.events + Changes(q) <= 4 + n
  BY <1>1 DEF HasRoom
<1>3. Changes(q) \in Nat /\ Changes(Tail(q)) = Changes(q) - 1
  BY ChangesFinite, TailChanges
<1>4. u.events + Changes(Tail(q)) <= 4 + n
  BY <1>2, <1>3
<1>5. QED
  BY <1>4 DEF HasRoom

LEMMA RoomSuffices ==
    ASSUME NEW q \in Seq(RunEvent), NEW t, t.events \in Nat, NEW n \in Nat, HasRoom(q, t, n)
    PROVE  t.events + 2 <= MaxEvents \/ n + 6 > MaxEvents
<1>1. Changes(q) \in Nat /\ MaxEvents \in Nat /\ MaxEvents >= 7
  BY ChangesFinite, MaxEventsAssumption, TaskRunAssumption
<1>2. CASE t.events + Changes(q) <= 4 + n
  BY <1>1, <1>2
<1>3. CASE Unread(q, t, n)
  BY <1>1, <1>3 DEF Unread
<1>4. QED
  BY <1>2, <1>3 DEF HasRoom

-----------------------------------------------------------------------------
(***************************************************************************)
(* The records.  Only begin_run and the transitions of a poll write an     *)
(* active run; every other step leaves the active runs as they are or      *)
(* ends them.                                                              *)
(***************************************************************************)
KeptAt(j) == \E i \in DOMAIN disk : disk[i] = disk'[j]

OnlyWrites(k, t) ==
    /\ Has(disk', k) /\ Lookup(disk', k) = t
    /\ \A j \in DOMAIN disk' : KeptAt(j) \/ disk'[j] = t

NoNewActive == \A j \in DOMAIN disk' : disk'[j].run \in ActiveRun => KeptAt(j)

LogsEarly == \A i \in DOMAIN disk : EarlyLog(disk[i])

LEMMA UpdateWrites ==
    ASSUME ServiceInv, ServiceInv', loaded, NEW k, Stored(k), NEW t, Update(k, t),
           Advances(TaskOf(k), t)
    PROVE  OnlyWrites(k, t)
<1> DEFINE p == Position(disk, k)
<1>1. cache = disk /\ disk' = [disk EXCEPT ![p] = t] /\ Has(disk, k)
  BY DEF ServiceInv, Update, Save, Replaced, Stored
<1>2. p \in DOMAIN disk /\ disk[p].key = k /\ TaskOf(k) = disk[p]
  BY <1>1, PositionFound DEF TaskOf
<1> HIDE DEF p
<1>3. DOMAIN disk' = DOMAIN disk /\ \A j \in DOMAIN disk : disk'[j] = IF j = p THEN t ELSE disk[j]
  BY <1>1
<1>4. t.key = k
  BY <1>2 DEF Advances, Continues
<1>5. disk'[p] = t /\ p \in DOMAIN disk'
  BY <1>2, <1>3
<1>6. Has(disk', k) /\ Lookup(disk', k) = t
  BY <1>4, <1>5, SameRecordNext
<1>7. \A j \in DOMAIN disk' : KeptAt(j) \/ disk'[j] = t
  BY <1>3 DEF KeptAt
<1>8. QED
  BY <1>6, <1>7 DEF OnlyWrites

\* What create_task, Open and a step without a write leave in the file.
LEMMA InsertRecords ==
    ASSUME ServiceInv, NEW k \in Keys, NEW q \in Projects, CreateTask(k, q)
    PROVE  \A j \in DOMAIN disk' : KeptAt(j) \/ disk'[j] = NewTask(k, q)
<1> DEFINE t == NewTask(k, q)
           n == Len(disk)
           m == IF n < MaxStoredTasks THEN n + 1 ELSE MaxStoredTasks
           next == [i \in 1..m |-> IF i = 1 THEN t ELSE disk[i - 1]]
<1>1. cache = disk /\ disk \in Seq(StoredTask) /\ Len(disk) <= MaxStoredTasks
  BY DEF ServiceInv, ServiceTypeOK, TaskList, CreateTask
<1>2. DOMAIN disk = 1..n /\ n \in Nat
  BY <1>1, LenProperties
<1>3. disk' = next
  BY <1>1 DEF CreateTask, Save, Inserted
<1>5. m \in Nat /\ m <= n + 1
  BY <1>1, <1>2, MaxStoredTasksAssumption
<1> HIDE DEF t, n, m
<1>6. \A j \in 1..m : j = 1 \/ j - 1 \in 1..n
  BY <1>2, <1>5
<1>7. DOMAIN disk' = 1..m /\ \A j \in 1..m : disk'[j] = IF j = 1 THEN t ELSE disk[j - 1]
  BY <1>3
<1>8. QED
  BY <1>2, <1>6, <1>7 DEF KeptAt, t

LEMMA OpenRecords ==
    ASSUME ServiceInv, Open
    PROVE  \A j \in DOMAIN disk' :
               /\ disk'[j].run \in ActiveRun \cup {"none", "queued"} => KeptAt(j)
               /\ disk'[j].run \notin ActiveRun
<1>1. disk' = [i \in DOMAIN disk |-> Reconciled(disk[i])]
  BY DEF Open, ReconciledList
<1>2. \A i \in DOMAIN disk : Reconciled(disk[i]) = disk[i] \/ Reconciled(disk[i]).run = "outcomeUnknown"
  BY ReconciledAdvances DEF ServiceInv, Open, ReconcileSucceeds
<1>3. \A i \in DOMAIN disk : Reconciled(disk[i]).run \notin ActiveRun
  <2> SUFFICES ASSUME NEW i \in DOMAIN disk, Reconciled(disk[i]).run \in ActiveRun PROVE FALSE
    OBVIOUS
  <2>1. Reconciled(disk[i]) = disk[i] /\ TaskOK(disk[i])
    BY <1>2 DEF ActiveRun, ServiceInv
  <2>2. disk[i].run \in ActiveRun /\ disk[i].status = "running"
    BY <2>1 DEF TaskOK, StatusesAgree
  <2>3. Reconciled(disk[i]) = Abandoned(disk[i]) /\ ~IsRefused(Reconciled(disk[i]))
    BY <2>2 DEF Reconciled, Open, ReconcileSucceeds
  <2>4. Abandoned(disk[i]).run = "outcomeUnknown"
    BY <2>1, <2>3, AbandonedAdvances
  <2>5. QED
    BY <2>1, <2>2, <2>3, <2>4 DEF ActiveRun
<1>4. QED
  BY <1>1, <1>2, <1>3 DEF KeptAt, ActiveRun

LEMMA FileKept == ASSUME disk' = disk PROVE \A j \in DOMAIN disk' : KeptAt(j)
BY DEF KeptAt

\* How many events accept_task, register_run and begin_run add.
LEMMA AcceptedCounts ==
    ASSUME NEW t, TaskOK(t), EarlyLog(t), t.status \in {"draft", "offered"}, ~IsRefused(Accepted(t))
    PROVE  Accepted(t).status = "accepted" /\ Accepted(t).events <= 2
<1>1. t \in StoredTask /\ t.events \in Nat
  BY DEF TaskOK, StoredTask
<1> DEFINE u == Accepted(t)
<1>2. CASE t.status = "draft"
  <2> DEFINE v == Transition(t, "offered")
  <2>1. v # Refused(t)
    BY <1>1, <1>2, RefusalStays, RefusedIsRefused DEF Accepted, ReceiptOutcome
  <2>2. v \in StoredTask /\ v.events = t.events + 1
    BY <1>1, <2>1, TransitionCases DEF TaskStatus
  <2> HIDE DEF v
  <2>3. u = Transition(v, "accepted")
    BY <1>2 DEF Accepted, v
  <2>4. u.status = "accepted" /\ u.events = v.events + 1
    BY <2>2, <2>3, TransitionCases, RefusedIsRefused DEF TaskStatus
  <2>5. QED
    BY <1>2, <2>2, <2>4 DEF EarlyLog
<1>3. CASE t.status = "offered"
  <2>1. u = Transition(t, "accepted")
    BY <1>3 DEF Accepted
  <2>2. u.status = "accepted" /\ u.events = t.events + 1
    BY <1>1, <2>1, TransitionCases, RefusedIsRefused DEF TaskStatus
  <2>3. QED
    BY <1>1, <1>3, <2>2 DEF EarlyLog
<1>4. QED
  BY <1>2, <1>3

LEMMA AddRunCounts ==
    ASSUME NEW t, TaskOK(t), EarlyLog(t), ~IsRefused(AddRun(t))
    PROVE  AddRun(t).status = "accepted" /\ AddRun(t).events <= 3
<1>1. t \in StoredTask /\ t.events \in Nat
  BY DEF TaskOK, StoredTask
<1>2. t.status = "accepted" /\ t.run = "none" /\ AddRun(t) = [t EXCEPT !.run = "queued", !.events = @ + 1]
  BY <1>1, RefusedIsRefused DEF AddRun
<1>3. AddRun(t).status = "accepted" /\ AddRun(t).events = t.events + 1
  BY <1>1, <1>2 DEF StoredTask
<1>4. QED
  BY <1>1, <1>2, <1>3 DEF EarlyLog

LEMMA BegunCounts ==
    ASSUME NEW t, TaskOK(t), EarlyLog(t), t.run = "queued", ~IsRefused(Begun(t))
    PROVE  Begun(t).events \in Nat /\ Begun(t).events <= 5
<1> DEFINE v == Transition(t, "running")
<1>1. t \in StoredTask /\ t.events \in Nat /\ t.events <= 3
  BY DEF TaskOK, StoredTask, EarlyLog
<1>2. v # Refused(t)
  BY <1>1, RefusalStays, RefusedIsRefused DEF Begun, ReceiptOutcome
<1>3. v \in StoredTask /\ v.events = t.events + 1
  BY <1>1, <1>2, TransitionCases DEF TaskStatus
<1> HIDE DEF v
<1>4. Begun(t) = MoveRun(v, "running")
  BY DEF Begun, v
<1>5. Begun(t).events = v.events + 1
  BY <1>3, <1>4, MoveRunCases, RefusedIsRefused DEF RunStatus
<1>6. QED
  BY <1>1, <1>3, <1>5

\* A run that began says nothing about the early part of its log.
LEMMA BegunLog ==
    ASSUME NEW t, TaskOK(t), t.run \notin {"none", "queued"}
    PROVE  EarlyLog(t)
<1>1. t.status \notin {"draft", "offered"}
  BY DEF TaskOK, StatusesAgree, StoredTask, RunStatus, ActiveRun
<1>2. QED
  BY <1>1 DEF EarlyLog

LEMMA EarlyStays ==
    ASSUME ServiceInv, ServiceInv', LogsEarly,
           \A j \in DOMAIN disk' :
               disk'[j].run \in {"none", "queued"} => KeptAt(j) \/ EarlyLog(disk'[j])
    PROVE  LogsEarly'
<1> SUFFICES ASSUME NEW j \in DOMAIN disk' PROVE EarlyLog(disk'[j])
  BY DEF LogsEarly
<1>1. CASE disk'[j].run \notin {"none", "queued"}
  BY <1>1, BegunLog DEF ServiceInv
<1>2. CASE disk'[j].run \in {"none", "queued"}
  BY <1>2 DEF LogsEarly, KeptAt
<1>3. QED
  BY <1>1, <1>2

\* The log of a task whose run has not begun stays short in every step.
LEMMA LogsStayEarly ==
    ASSUME ServiceInv, LogsEarly, [ServiceNext]_serviceVars, GoodStep
    PROVE  LogsEarly'
<1>0. ServiceInv'
  BY DEF GoodStep
<1>1. CASE Open
  BY <1>0, <1>1, OpenRecords, EarlyStays
<1>2. CASE Close \/ UNCHANGED serviceVars
  BY <1>0, <1>2, FileKept, EarlyStays DEF Close, serviceVars
<1>3. ASSUME NEW k \in Keys, NEW p \in Projects, CreateTask(k, p) PROVE LogsEarly'
  <2>1. EarlyLog(NewTask(k, p))
    BY DEF EarlyLog, NewTask
  <2>2. QED
    BY <1>0, <1>3, <2>1, InsertRecords, EarlyStays
<1>4. ASSUME NEW k \in Keys, Stored(k), loaded, NEW t, Update(k, t), Advances(TaskOf(k), t),
             t.run \in {"none", "queued"} => EarlyLog(t)
      PROVE  LogsEarly'
  BY <1>0, <1>4, UpdateWrites, EarlyStays DEF OnlyWrites
<1>5. ASSUME NEW k, Stored(k), loaded PROVE TaskOK(TaskOf(k)) /\ EarlyLog(TaskOf(k))
  <2>1. cache = disk /\ Has(disk, k)
    BY <1>5 DEF ServiceInv, Stored
  <2>2. QED
    BY <1>5, <2>1, StoredOK, LookupStored DEF LogsEarly
<1>6. ASSUME NEW k \in Keys, NEW p \in Projects, AcceptTask(k, p) PROVE LogsEarly'
  <2>1. Stored(k) /\ loaded /\ Update(k, Accepted(TaskOf(k))) /\ ~IsRefused(Accepted(TaskOf(k)))
    BY <1>6 DEF AcceptTask, StoredFor, Update
  <2>2. Advances(TaskOf(k), Accepted(TaskOf(k))) /\ Accepted(TaskOf(k)).run = "none"
    BY <1>5, <1>6, <2>1, AcceptedAdvances DEF AcceptTask
  <2>3. Accepted(TaskOf(k)).status = "accepted" /\ Accepted(TaskOf(k)).events <= 2
    BY <1>5, <1>6, <2>1, AcceptedCounts DEF AcceptTask
  <2>4. EarlyLog(Accepted(TaskOf(k)))
    BY <2>2, <2>3 DEF EarlyLog
  <2>5. QED
    BY <1>4, <2>1, <2>2, <2>4
<1>7. ASSUME NEW k \in Keys, NEW p \in Projects, RegisterRun(k, p) PROVE LogsEarly'
  <2>1. Stored(k) /\ loaded /\ Update(k, AddRun(TaskOf(k))) /\ ~IsRefused(AddRun(TaskOf(k)))
    BY <1>7 DEF RegisterRun, StoredFor, Update
  <2>2. Advances(TaskOf(k), AddRun(TaskOf(k))) /\ AddRun(TaskOf(k)).run = "queued"
    BY <1>5, <2>1, AddRunAdvances
  <2>3. AddRun(TaskOf(k)).status = "accepted" /\ AddRun(TaskOf(k)).events <= 3
    BY <1>5, <2>1, AddRunCounts
  <2>4. EarlyLog(AddRun(TaskOf(k)))
    BY <2>2, <2>3 DEF EarlyLog
  <2>5. QED
    BY <1>4, <2>1, <2>2, <2>4
<1>8. ASSUME NEW k \in Keys, BeginRun(k) PROVE LogsEarly'
  <2>1. /\ Stored(k) /\ loaded /\ Update(k, Begun(TaskOf(k))) /\ ~IsRefused(Begun(TaskOf(k)))
        /\ TaskOf(k).run = "queued"
    BY <1>8 DEF BeginRun, Update
  <2>2. Advances(TaskOf(k), Begun(TaskOf(k))) /\ Begun(TaskOf(k)).run = "running"
    BY <1>5, <2>1, BegunAdvances
  <2>3. QED
    BY <1>4, <2>1, <2>2
<1>9. ASSUME NEW k \in Keys, AbandonRun(k) PROVE LogsEarly'
  <2>1. Stored(k) /\ loaded /\ Update(k, Abandoned(TaskOf(k))) /\ ~IsRefused(Abandoned(TaskOf(k)))
    BY <1>9 DEF AbandonRun, Update
  <2>2. Advances(TaskOf(k), Abandoned(TaskOf(k))) /\ Abandoned(TaskOf(k)).run = "outcomeUnknown"
    BY <1>5, <2>1, AbandonedAdvances
  <2>3. QED
    BY <1>4, <2>1, <2>2
<1>10. ASSUME NEW k \in Keys, NEW o \in ReceiptOutcome, FinalizeRun(k, o) PROVE LogsEarly'
  <2>1. /\ Stored(k) /\ loaded /\ Update(k, Finalized(TaskOf(k), o))
        /\ ~IsRefused(Finalized(TaskOf(k), o))
    BY <1>10 DEF FinalizeRun, Update
  <2>2. Advances(TaskOf(k), Finalized(TaskOf(k), o)) /\ Finalized(TaskOf(k), o).run = RunStatusFor(o)
    BY <1>5, <2>1, FinalizedAdvances
  <2>3. RunStatusFor(o) \notin {"none", "queued"}
    BY OutcomeTables DEF TerminalRun
  <2>4. QED
    BY <1>4, <2>1, <2>2, <2>3
<1>11. ASSUME NEW k \in Keys, NEW to \in ActiveRun, PollTransition(k, to) PROVE LogsEarly'
  <2>1. /\ Stored(k) /\ loaded /\ Update(k, MoveRun(TaskOf(k), to)) /\ ~IsRefused(MoveRun(TaskOf(k), to))
    BY <1>11 DEF PollTransition, TransitionRun, Update
  <2>2. TaskOf(k).run # "queued"
    <3>1. TaskOf(k) \in StoredTask /\ to \in RunStatus
      BY <1>5, <2>1 DEF TaskOK, ActiveRun, RunStatus
    <3>2. valid_run_transition(TaskOf(k).run, to)
      BY <2>1, <3>1, MoveRunCases, RefusedIsRefused
    <3>3. to = "running" => TaskOf(k).run = "waitingApproval"
      BY <1>11 DEF PollTransition
    <3>4. QED
      BY <3>2, <3>3 DEF valid_run_transition, TerminalRun, ActiveRun
  <2>3. Advances(TaskOf(k), MoveRun(TaskOf(k), to)) /\ MoveRun(TaskOf(k), to).run = to
    BY <1>5, <2>1, <2>2, MoveRunAdvances
  <2>4. QED
    BY <1>4, <2>1, <2>3 DEF ActiveRun
<1>12. QED
  BY <1>1, <1>2, <1>3, <1>6, <1>7, <1>8, <1>9, <1>10, <1>11 DEF ServiceNext, Operation

-----------------------------------------------------------------------------
\* A run that is active after the step was active before, with the same log.
RecordKept(k) ==
    Has(disk', k) /\ Lookup(disk', k).run \in ActiveRun =>
        Has(disk, k) /\ Lookup(disk, k) = Lookup(disk', k)

LEMMA KeptIsRecord ==
    ASSUME ServiceInv, NEW k, NEW j \in DOMAIN disk', disk'[j].key = k, KeptAt(j)
    PROVE  Has(disk, k) /\ Lookup(disk, k) = disk'[j]
<1>1. PICK i \in DOMAIN disk : disk[i] = disk'[j]
  BY DEF KeptAt
<1>2. Has(disk, k)
  BY <1>1 DEF Has
<1>3. QED
  BY <1>1, <1>2, SameRecord

LEMMA ActivesKept ==
    ASSUME ServiceInv, NoNewActive, NEW k
    PROVE  RecordKept(k)
<1> SUFFICES ASSUME Has(disk', k), Lookup(disk', k).run \in ActiveRun
             PROVE  Has(disk, k) /\ Lookup(disk, k) = Lookup(disk', k)
  BY DEF RecordKept
<1>1. PICK j \in DOMAIN disk' : disk'[j] = Lookup(disk', k) /\ disk'[j].key = k
  BY PositionFound
<1>2. KeptAt(j)
  BY <1>1 DEF NoNewActive
<1>3. QED
  BY <1>1, <1>2, KeptIsRecord

LEMMA OthersKept ==
    ASSUME ServiceInv, NEW k, NEW t, OnlyWrites(k, t), t.key = k, NEW x, x # k
    PROVE  RecordKept(x)
<1> SUFFICES ASSUME Has(disk', x), Lookup(disk', x).run \in ActiveRun
             PROVE  Has(disk, x) /\ Lookup(disk, x) = Lookup(disk', x)
  BY DEF RecordKept
<1>1. PICK j \in DOMAIN disk' : disk'[j] = Lookup(disk', x) /\ disk'[j].key = x
  BY PositionFound
<1>2. KeptAt(j)
  BY <1>1 DEF OnlyWrites
<1>3. QED
  BY <1>1, <1>2, KeptIsRecord

\* The operations that write no active run.
LEMMA QuietWrites ==
    ASSUME ServiceInv, ServiceInv',
           \/ disk' = disk
           \/ Open
           \/ \E k \in Keys :
                 \/ \E p \in Projects : CreateTask(k, p) \/ AcceptTask(k, p) \/ RegisterRun(k, p)
                 \/ AbandonRun(k)
                 \/ \E o \in ReceiptOutcome : FinalizeRun(k, o)
    PROVE  NoNewActive
<1>1. CASE disk' = disk
  BY <1>1, FileKept DEF NoNewActive
<1>2. CASE Open
  BY <1>2, OpenRecords DEF NoNewActive
<1>3. ASSUME NEW k \in Keys, NEW p \in Projects, CreateTask(k, p) PROVE NoNewActive
  <2>1. NewTask(k, p).run \notin ActiveRun
    BY DEF NewTask, ActiveRun
  <2>2. QED
    BY <1>3, <2>1, InsertRecords DEF NoNewActive
<1>4. ASSUME NEW k \in Keys, Stored(k), loaded, NEW t, Update(k, t), Advances(TaskOf(k), t),
             t.run \notin ActiveRun
      PROVE  NoNewActive
  BY <1>4, UpdateWrites DEF OnlyWrites, NoNewActive
<1>6. ASSUME NEW k \in Keys, NEW p \in Projects, AcceptTask(k, p) PROVE NoNewActive
  <2>1. Stored(k) /\ loaded /\ Update(k, Accepted(TaskOf(k))) /\ ~IsRefused(Accepted(TaskOf(k)))
    BY <1>6 DEF AcceptTask, StoredFor, Update
  <2>2. Advances(TaskOf(k), Accepted(TaskOf(k))) /\ Accepted(TaskOf(k)).run = "none"
    BY <1>6, <2>1, StoredOK, AcceptedAdvances DEF AcceptTask
  <2>3. QED
    BY <1>4, <2>1, <2>2 DEF ActiveRun
<1>7. ASSUME NEW k \in Keys, NEW p \in Projects, RegisterRun(k, p) PROVE NoNewActive
  <2>1. Stored(k) /\ loaded /\ Update(k, AddRun(TaskOf(k))) /\ ~IsRefused(AddRun(TaskOf(k)))
    BY <1>7 DEF RegisterRun, StoredFor, Update
  <2>2. Advances(TaskOf(k), AddRun(TaskOf(k))) /\ AddRun(TaskOf(k)).run = "queued"
    BY <2>1, StoredOK, AddRunAdvances
  <2>3. QED
    BY <1>4, <2>1, <2>2 DEF ActiveRun
<1>9. ASSUME NEW k \in Keys, AbandonRun(k) PROVE NoNewActive
  <2>1. Stored(k) /\ loaded /\ Update(k, Abandoned(TaskOf(k))) /\ ~IsRefused(Abandoned(TaskOf(k)))
    BY <1>9 DEF AbandonRun, Update
  <2>2. Advances(TaskOf(k), Abandoned(TaskOf(k))) /\ Abandoned(TaskOf(k)).run = "outcomeUnknown"
    BY <2>1, StoredOK, AbandonedAdvances
  <2>3. QED
    BY <1>4, <2>1, <2>2 DEF ActiveRun
<1>10. ASSUME NEW k \in Keys, NEW o \in ReceiptOutcome, FinalizeRun(k, o) PROVE NoNewActive
  <2>1. /\ Stored(k) /\ loaded /\ Update(k, Finalized(TaskOf(k), o))
        /\ ~IsRefused(Finalized(TaskOf(k), o))
    BY <1>10 DEF FinalizeRun, Update
  <2>2. Advances(TaskOf(k), Finalized(TaskOf(k), o)) /\ Finalized(TaskOf(k), o).run = RunStatusFor(o)
    BY <2>1, StoredOK, FinalizedAdvances
  <2>3. RunStatusFor(o) \notin ActiveRun
    BY OutcomeTables DEF TerminalRun, ActiveRun
  <2>4. QED
    BY <1>4, <2>1, <2>2, <2>3
<1>11. QED
  BY <1>1, <1>2, <1>3, <1>6, <1>7, <1>9, <1>10

-----------------------------------------------------------------------------
(***************************************************************************)
(* The router.  Apart from deliveries its steps only take events away.     *)
(***************************************************************************)
RoutesKept ==
    /\ nextRoute <= nextRoute'
    /\ \A r \in routes' : r.id < nextRoute => \E q \in routes : q.id = r.id /\ q.thread = r.thread

QueuesShrink == \A s \in Streams : s < nextRoute => Shrunk(queue[s].events, queue'[s].events)

LEMMA RouterSameShrinks == ASSUME RouterGood, UNCHANGED routerVars PROVE RoutesKept /\ QueuesShrink
<1>1. RoutesKept
  BY RouterSame DEF RouterCalm, RoutesKept
<1>2. QED
  BY <1>1 DEF routerVars, QueuesShrink, Shrunk

LEMMA BindShrinks ==
    ASSUME RouterGood, NEW s, NEW turn \in Turns, BindTurn(s, turn)
    PROVE  RoutesKept /\ QueuesShrink
<1>1. RoutesKept
  BY BindCalm DEF RouterCalm, RoutesKept
<1>2. QED
  BY <1>1 DEF BindTurn, QueuesShrink, Shrunk

LEMMA DropShrinks == ASSUME RouterGood, NEW s, DropStream(s) PROVE RoutesKept /\ QueuesShrink
<1>1. RoutesKept
  BY DropCalm DEF RouterCalm, RoutesKept
<1>2. \A x \in Streams : queue'[x] \in {queue[x], NoQueue}
  BY DEF DropStream, RouterGood, RouterTypeOK
<1>3. NoQueue.events = <<>>
  BY DEF NoQueue
<1>4. QED
  BY <1>1, <1>2, <1>3 DEF QueuesShrink, Shrunk

LEMMA TryRecvShrinks ==
    ASSUME RouterGood, NEW s \in Streams, TryRecv(s)
    PROVE  /\ RoutesKept /\ QueuesShrink
           /\ queue[s].events # <<>> /\ queue'[s].events = Tail(queue[s].events)
<1> DEFINE q == [queue[s] EXCEPT !.events = Tail(queue[s].events)]
<1>1. RoutesKept
  BY TryRecvCalm DEF RouterCalm, RoutesKept
<1>2. queue' = [queue EXCEPT ![s] = q] /\ queue[s].events # <<>>
  BY DEF TryRecv
<1>3. q.events = Tail(queue[s].events)
  BY DEF RouterGood, RouterTypeOK, EventQueue
<1> HIDE DEF q
<1>4. \A x \in Streams : queue'[x] = IF x = s THEN q ELSE queue[x]
  BY <1>2 DEF RouterGood, RouterTypeOK
<1>5. QED
  BY <1>1, <1>2, <1>3, <1>4 DEF QueuesShrink, Shrunk

LEMMA DeactivateShrinks == ASSUME RouterGood, DeactivateAll PROVE RoutesKept /\ QueuesShrink
<1>1. RoutesKept
  BY DeactivateCalm DEF RouterCalm, RoutesKept
<1>2. \A s \in Streams : [queue[s] EXCEPT !.active = FALSE].events = queue[s].events
  BY DEF RouterGood, RouterTypeOK, EventQueue
<1>3. \A s \in Streams : queue'[s].events = queue[s].events
  BY <1>2 DEF DeactivateAll
<1>4. QED
  BY <1>1, <1>3 DEF QueuesShrink, Shrunk

LEMMA PrepareShrinks ==
    ASSUME RouterGood, NEW n \in Connections, NEW k \in Keys, NEW h \in Threads, PrepareRun(n, k, h)
    PROVE  RoutesKept /\ QueuesShrink /\ queue'[nextRoute].events = <<>>
<1> DEFINE q == [events |-> <<>>, active |-> TRUE, held |-> TRUE]
<1>1. RoutesKept /\ nextRoute \in Streams
  BY PrepareCalm DEF RouterCalm, RoutesKept
<1>2. queue' = [queue EXCEPT ![nextRoute] = q] /\ q.events = <<>>
  BY DEF PrepareRun
<1> HIDE DEF q
<1>3. \A s \in Streams : queue'[s] = IF s = nextRoute THEN q ELSE queue[s]
  BY <1>1, <1>2 DEF RouterGood, RouterTypeOK
<1>4. \A s \in Streams : s < nextRoute => s # nextRoute
  BY <1>1, StreamsAreNumbers
<1>5. QED
  BY <1>1, <1>2, <1>3, <1>4 DEF QueuesShrink, Shrunk

\* The threads of the App Server that exist have sent what they had sent.
SentKept ==
    /\ nextThread <= nextThread'
    /\ \A h \in Threads : h < nextThread => server'[h].sent = server[h].sent

LEMMA ComesFromStays ==
    ASSUME SideTyped, RoutesKept, RouterTypeOK', nextThread' \in Int, nextThread <= nextThread',
           NEW s, NEW h, ComesFrom(s, h)
    PROVE  ComesFrom(s, h)'
<1>1. s \in Streams /\ s < nextRoute /\ h \in Threads /\ h < nextThread
  BY DEF ComesFrom
<1>2. s \in Int /\ h \in Int /\ {nextRoute, nextRoute', nextThread, nextThread'} \subseteq Int
  BY <1>1, StreamsAreNumbers DEF SideTyped, RouterTypeOK
<1>3. s < nextRoute' /\ h < nextThread'
  BY <1>1, <1>2 DEF RoutesKept
<1>4. \A r \in routes' : r.id = s => r.thread = h
  BY <1>1 DEF RoutesKept, ComesFrom
<1>5. QED
  BY <1>1, <1>3, <1>4 DEF ComesFrom

LEMMA StoredEvents ==
    ASSUME ServiceInv, NEW k, Has(disk, k)
    PROVE  Lookup(disk, k).events \in Nat /\ TaskOK(Lookup(disk, k)) /\ Lookup(disk, k).key = k
<1>1. TaskOK(Lookup(disk, k)) /\ Lookup(disk, k).key = k
  BY LookupStored DEF ServiceInv
<1>2. QED
  BY <1>1 DEF TaskOK, StoredTask

LEMMA ActiveNext == ASSUME NEW k PROVE Active(k)' <=> Has(disk', k) /\ Lookup(disk', k).run \in ActiveRun
BY DEF Active, Has, Lookup, Position

\* The threads that exist keep their run and take back nothing they have sent.
TurnsGrow ==
    \A h \in Threads :
        h < nextThread => server'[h].key = server[h].key /\ server[h].sent <= server'[h].sent

\* A step that delivers nothing keeps the room of a run whose record it leaves alone.
LEMMA RoomStays ==
    ASSUME ServiceInv, SideTyped, RoutesKept, RouterTypeOK', QueuesShrink, nextThread' \in Int, SentKept,
           TurnsGrow, NEW s, NEW h, NEW k, RecordKept(k), LogRoom(s, h, k)
    PROVE  LogRoom(s, h, k)'
<1>1. ComesFrom(s, h) /\ ComesFrom(s, h)' /\ server'[h].key = k
  BY ComesFromStays DEF LogRoom, SentKept, TurnsGrow, ComesFrom
<1>2. ASSUME Active(k)' PROVE HasRoom(queue'[s].events, Lookup(disk', k), server'[h].sent)
  <2>1. Has(disk, k) /\ Lookup(disk, k) = Lookup(disk', k) /\ Active(k)
    BY <1>2, ActiveNext DEF RecordKept, Active
  <2>2. HasRoom(queue[s].events, Lookup(disk, k), server[h].sent)
    BY <2>1 DEF LogRoom
  <2>3. /\ queue[s].events \in Seq(RunEvent) /\ server[h].sent \in Nat
        /\ server'[h].sent = server[h].sent /\ Shrunk(queue[s].events, queue'[s].events)
    BY <1>1 DEF ComesFrom, SideTyped, RouterTypeOK, EventQueue, Turn, SentKept, QueuesShrink
  <2>4. Lookup(disk, k).events \in Nat
    BY <2>1, StoredEvents
  <2>5. HasRoom(queue'[s].events, Lookup(disk, k), server[h].sent)
    BY <2>2, <2>3, <2>4, RoomShrinks
  <2>6. QED
    BY <2>1, <2>3, <2>5
<1>3. QED
  BY <1>1, <1>2 DEF LogRoom, HasRoom, Unread, Changes, ChangesAt, Lookup, Position, Active, Has

-----------------------------------------------------------------------------
(***************************************************************************)
(* A step of the whole specification, and who keeps the room he had.       *)
(***************************************************************************)
LogStepping == TurnsGrow /\ Stepping /\ HoldInv' /\ LogInv /\ LogsEarly'

LEMMA LogSteppingParts ==
    ASSUME LogStepping
    PROVE  /\ TurnsGrow /\ Stepping /\ LogInv /\ LogsEarly'
           /\ ServiceInv /\ SideTyped /\ SideTyped' /\ RouterTypeOK' /\ RouterGood
           /\ HoldersGood /\ HoldersGood' /\ TurnsInv /\ RunTyped /\ ServerGood
           /\ nextThread \in Int /\ nextThread' \in Int
<1>1. /\ TurnsGrow /\ Stepping /\ LogInv /\ LogsEarly' /\ HoldersGood' /\ SideTyped'
  BY DEF LogStepping, HoldInv
<1>2. RouterTypeOK' /\ nextThread' \in Int
  BY <1>1, StreamsAreNumbers DEF SideTyped
<1>3. nextThread \in Int
  BY <1>1, SteppingParts, StreamsAreNumbers DEF SideTyped
<1>4. QED
  BY <1>1, <1>2, <1>3, SteppingParts

RoomsKept == \A s, h, k : LogRoom(s, h, k) /\ RecordKept(k) => LogRoom(s, h, k)'

LEMMA CalmRooms ==
    ASSUME LogStepping, RoutesKept, QueuesShrink, SentKept
    PROVE  RoomsKept
<1> SUFFICES ASSUME NEW s, NEW h, NEW k, LogRoom(s, h, k), RecordKept(k) PROVE LogRoom(s, h, k)'
  BY DEF RoomsKept
<1>1. QED
  BY RoomStays, LogSteppingParts

LEMMA JustBegunStays ==
    ASSUME NEW k, RecordKept(k), JustBegun(k)
    PROVE  JustBegun(k)'
<1>1. ASSUME Active(k)' PROVE Lookup(disk', k).run = "running" /\ Lookup(disk', k).events <= 5
  <2>1. Has(disk, k) /\ Lookup(disk, k) = Lookup(disk', k) /\ Active(k)
    BY <1>1, ActiveNext DEF RecordKept, Active
  <2>2. QED
    BY <2>1 DEF JustBegun
<1>2. QED
  BY <1>1 DEF JustBegun, Active, Has, Lookup, Position

\* A command that goes on with the run it had, or with none.
CallFollows(c) ==
    /\ call'[c].pc \in PreTurn => call[c].pc \in PreTurn /\ call'[c].key = call[c].key
    /\ call'[c].pc \in Reading =>
          /\ call[c].pc \in Reading /\ call'[c].key = call[c].key
          /\ call'[c].stream = call[c].stream /\ call'[c].thread = call[c].thread

WorkerFollows(k) ==
    worker'[k].pc \in {"loop", "check"} =>
        worker[k].pc \in {"loop", "check"} /\ worker'[k].stream = worker[k].stream

LEMMA CommandLogNext ==
    ASSUME NEW c, NEW b, call'[c] = b, CommandLog(b)'
    PROVE  CommandLog(call[c])'
BY DEF CommandLog, JustBegun, LogRoom, ComesFrom, Active, HasRoom, Unread, Changes, ChangesAt,
       Has, Lookup, Position

LEMMA WorkerLogNext ==
    ASSUME NEW k, NEW w, worker'[k].pc = w.pc, worker'[k].stream = w.stream, WorkerLog(k, w)'
    PROVE  WorkerLog(k, worker[k])'
BY DEF WorkerLog, LogRoom, ComesFrom, Active, HasRoom, Unread, Changes, ChangesAt,
       Has, Lookup, Position

LEMMA CommandLogStays ==
    ASSUME LogStepping, RoomsKept, NEW c \in Callers, CallFollows(c), RecordKept(call[c].key)
    PROVE  CommandLog(call[c])'
<1>1. PICK a : a = call[c]
  OBVIOUS
<1>2. PICK b : b = call'[c]
  OBVIOUS
<1>3. CommandLog(a) /\ RecordKept(a.key)
  BY <1>1, LogSteppingParts DEF LogInv
<1>4. b.pc \in PreTurn => JustBegun(b.key)'
  <2> SUFFICES ASSUME b.pc \in PreTurn PROVE JustBegun(b.key)'
    OBVIOUS
  <2>1. a.pc \in PreTurn /\ b.key = a.key
    BY <1>1, <1>2 DEF CallFollows
  <2>2. JustBegun(a.key)
    BY <1>3, <2>1 DEF CommandLog
  <2>3. JustBegun(a.key)'
    BY <1>3, <2>2, JustBegunStays
  <2>4. QED
    BY <2>1, <2>3
<1>5. b.pc \in Reading => LogRoom(b.stream, b.thread, b.key)'
  <2> SUFFICES ASSUME b.pc \in Reading PROVE LogRoom(b.stream, b.thread, b.key)'
    OBVIOUS
  <2>1. a.pc \in Reading /\ b.key = a.key /\ b.stream = a.stream /\ b.thread = a.thread
    BY <1>1, <1>2 DEF CallFollows
  <2>2. LogRoom(a.stream, a.thread, a.key)
    BY <1>3, <2>1 DEF CommandLog
  <2>3. LogRoom(a.stream, a.thread, a.key)'
    BY <1>3, <2>2 DEF RoomsKept
  <2>4. QED
    BY <2>1, <2>3
<1>6. CommandLog(b)'
  BY <1>4, <1>5 DEF CommandLog
<1>7. QED
  BY <1>2, <1>6, CommandLogNext

LEMMA WorkerLogStays ==
    ASSUME LogStepping, RoomsKept, NEW k \in Keys, WorkerFollows(k), RecordKept(k)
    PROVE  WorkerLog(k, worker[k])'
<1>1. PICK a : a = worker[k]
  OBVIOUS
<1>2. PICK b : b = worker'[k]
  OBVIOUS
<1>3. WorkerLog(k, a)
  BY <1>1, LogSteppingParts DEF LogInv
<1>4. b.pc \in {"loop", "check"} => \E h \in Threads : LogRoom(b.stream, h, k)'
  <2> SUFFICES ASSUME b.pc \in {"loop", "check"} PROVE \E h \in Threads : LogRoom(b.stream, h, k)'
    OBVIOUS
  <2>1. a.pc \in {"loop", "check"} /\ b.stream = a.stream
    BY <1>1, <1>2 DEF WorkerFollows
  <2>2. PICK h \in Threads : LogRoom(a.stream, h, k)
    BY <1>3, <2>1 DEF WorkerLog
  <2>3. LogRoom(a.stream, h, k)'
    BY <2>2 DEF RoomsKept
  <2>4. QED
    BY <2>1, <2>3
<1>5. WorkerLog(k, b)'
  BY <1>4 DEF WorkerLog
<1>6. QED
  BY <1>2, <1>5, WorkerLogNext

\* Nobody who begins or watches a run.
LEMMA OutsideLog ==
    ASSUME NEW c, call'[c].pc \notin PreTurn, call'[c].pc \notin Reading
    PROVE  CommandLog(call[c])'
<1>1. PICK b : b = call'[c]
  OBVIOUS
<1>2. CommandLog(b)'
  BY <1>1 DEF CommandLog
<1>3. QED
  BY <1>1, <1>2, CommandLogNext

LEMMA OutsideWorkerLog ==
    ASSUME NEW k, worker'[k].pc \notin {"loop", "check"}
    PROVE  WorkerLog(k, worker[k])'
<1>1. PICK b : b = worker'[k]
  OBVIOUS
<1>2. WorkerLog(k, b)'
  BY <1>1 DEF WorkerLog
<1>3. QED
  BY <1>1, <1>2, WorkerLogNext

\* A log that a turn has filled stays one that a turn has filled.
LEMMA RoomToEndStays ==
    ASSUME LogStepping, NEW t, RoomToEnd(t)
    PROVE  RoomToEnd(t)'
<1> SUFFICES ASSUME Overlong(t.key) PROVE Overlong(t.key)'
  BY DEF RoomToEnd
<1>1. PICK h \in Threads : server[h].key = t.key /\ server[h].sent + 6 > MaxEvents
  BY DEF Overlong
<1>2. MaxEvents \in Nat /\ MaxEvents >= 7
  BY MaxEventsAssumption, TaskRunAssumption
<1>3. NoThread.sent = 0
  BY DEF NoThread
<1>4. ~(h >= nextThread)
  BY <1>1, <1>2, <1>3, LogSteppingParts DEF ServerGood
<1>5. h < nextThread
  BY <1>4, LogSteppingParts, StreamsAreNumbers
<1>6. server'[h].key = t.key /\ server[h].sent <= server'[h].sent
  BY <1>1, <1>5, LogSteppingParts DEF TurnsGrow
<1>7. server[h].sent \in Nat /\ server'[h].sent \in Nat
  BY LogSteppingParts DEF SideTyped, Turn
<1>8. server'[h].sent + 6 > MaxEvents
  BY <1>1, <1>2, <1>6, <1>7
<1>9. QED
  BY <1>6, <1>8 DEF Overlong

RoomsToEnd == \A i \in DOMAIN disk : RoomToEnd(disk[i])

\* Records that were there before keep their room; one other has it.
LEMMA RoomsToEndStay ==
    ASSUME LogStepping, NEW t, RoomToEnd(t)',
           \A j \in DOMAIN disk' : disk'[j].run \in ActiveRun => KeptAt(j) \/ disk'[j] = t
    PROVE  RoomsToEnd'
<1> SUFFICES ASSUME NEW j \in DOMAIN disk' PROVE RoomToEnd(disk[j])'
  BY DEF RoomsToEnd
<1>1. PICK u : u = disk'[j]
  OBVIOUS
<1>2. RoomToEnd(u)'
  <2>1. CASE u.run \notin ActiveRun
    BY <2>1 DEF RoomToEnd
  <2>2. CASE u = t
    BY <2>2
  <2>3. ASSUME NEW i \in DOMAIN disk, disk[i] = u PROVE RoomToEnd(u)'
    <3>1. RoomToEnd(u)
      BY <2>3, LogSteppingParts DEF LogInv
    <3>2. QED
      BY <3>1, RoomToEndStays
  <2>4. QED
    BY <1>1, <2>1, <2>2, <2>3 DEF KeptAt
<1>3. QED
  BY <1>1, <1>2 DEF RoomToEnd, Overlong

LEMMA LogParts ==
    ASSUME LogsEarly', RoomsToEnd',
           \A h \in Threads : SentGood(h)',
           \A c \in Callers : CommandLog(call[c])', \A k \in Keys : WorkerLog(k, worker[k])'
    PROVE  LogInv'
BY DEF LogInv, LogsEarly, RoomsToEnd

LEMMA SameSent ==
    ASSUME LogStepping, server' = server, nextThread' = nextThread
    PROVE  SentKept /\ \A h \in Threads : SentGood(h)'
<1>1. nextThread <= nextThread'
  BY LogSteppingParts
<1>2. QED
  BY <1>1, LogSteppingParts DEF SentKept, LogInv, SentGood

\* A step that writes no active run.
LEMMA QuietLog ==
    ASSUME LogStepping, NoNewActive, RoomsKept, \A h \in Threads : SentGood(h)',
           \A c \in Callers : CallFollows(c) \/ CommandLog(call[c])',
           \A k \in Keys : WorkerFollows(k) \/ WorkerLog(k, worker[k])'
    PROVE  LogInv'
<1>1. \A k : RecordKept(k)
  BY ActivesKept, LogSteppingParts
<1>2. \A c \in Callers : CommandLog(call[c])'
  BY <1>1, CommandLogStays
<1>3. \A k \in Keys : WorkerLog(k, worker[k])'
  BY <1>1, WorkerLogStays
<1>4. RoomsToEnd'
  <2>1. PICK t : t.run \notin ActiveRun
    <3>1. [run |-> "none"].run \notin ActiveRun
      BY DEF ActiveRun
    <3>2. QED
      BY <3>1
  <2>2. RoomToEnd(t)'
    BY <2>1 DEF RoomToEnd
  <2>3. QED
    BY <2>2, RoomsToEndStay DEF NoNewActive
<1>5. QED
  BY <1>2, <1>3, <1>4, LogParts, LogSteppingParts

-----------------------------------------------------------------------------
(***************************************************************************)
(* The steps of a command, but the beginning of its run.                   *)
(***************************************************************************)
\* A command that neither begins a run nor watches one.
Leaves(c) == SameBut(c) /\ call'[c].pc \notin PreTurn /\ call'[c].pc \notin Reading

LEMMA LeavingMoves ==
    ASSUME RunTyped, NEW c \in Callers,
           \/ Return(c)
           \/ \E o : FinishStart(c, o)
           \/ \E pc \in {"accept", "register", "capacity", "check", "worktree", "begin",
                         "finalize", "cleanup"} : Goto(c, pc)
    PROVE  Leaves(c)
<1>1. CASE Return(c)
  BY <1>1, ReturnMoves DEF Leaves, PreTurn, Reading
<1>2. CASE \E o : FinishStart(c, o)
  BY <1>2, FinishStartMoves DEF Leaves, PreTurn, Reading
<1>3. ASSUME NEW pc \in {"accept", "register", "capacity", "check", "worktree", "begin",
                         "finalize", "cleanup"}, Goto(c, pc)
      PROVE  Leaves(c)
  BY <1>3, GotoMoves DEF Leaves, PreTurn, Reading
<1>4. QED
  BY <1>1, <1>2, <1>3

LEMMA CommandLogStep ==
    ASSUME LogStepping, NEW c \in Callers, SameBut(c), worker' = worker,
           server' = server, nextThread' = nextThread, NoNewActive, RoutesKept, QueuesShrink,
           CallFollows(c) \/ CommandLog(call[c])'
    PROVE  LogInv'
<1>1. SentKept /\ \A h \in Threads : SentGood(h)'
  BY SameSent
<1>2. RoomsKept
  BY <1>1, CalmRooms
<1>3. \A d \in Callers : CallFollows(d) \/ CommandLog(call[d])'
  BY DEF SameBut, CallFollows
<1>4. \A k \in Keys : WorkerFollows(k)
  BY DEF WorkerFollows
<1>5. QED
  BY <1>1, <1>2, <1>3, <1>4, QuietLog

LEMMA StartLogs ==
    ASSUME LogStepping, NEW c \in Callers,
           \/ Create(c) \/ Accept(c) \/ Register(c) \/ Capacity(c) \/ Check(c) \/ Worktree(c)
           \/ CollectStart(c) \/ FinalizeStart(c) \/ CleanupStart(c)
           \/ \E k \in Keys, p \in Projects : StartCommand(c, k, p)
    PROVE  LogInv'
<1>1. PICK k \in Keys, p \in Projects, o \in ReceiptOutcome :
          KeyOf(c) = k /\ call[c].project = p /\ call[c].outcome = o
  BY CallTyped, LogSteppingParts DEF KeyOf, Call
<1>2. UNCHANGED routerVars /\ worker' = worker /\ server' = server /\ nextThread' = nextThread
  BY DEF Create, Accept, Register, Capacity, Check, Worktree, CollectStart, FinalizeStart,
         CleanupStart, StartCommand
<1>3. RoutesKept /\ QueuesShrink
  BY <1>2, RouterSameShrinks, LogSteppingParts
<1>4. Leaves(c)
  <2>1. CASE \E x \in Keys, q \in Projects : StartCommand(c, x, q)
    <3>1. PICK x \in Keys, q \in Projects : StartCommand(c, x, q)
      BY <2>1
    <3> DEFINE r == [Idle EXCEPT !.pc = "create", !.key = x, !.project = q, !.connection = connection]
    <3>2. call' = [call EXCEPT ![c] = r] /\ r.pc = "create"
      BY <3>1 DEF StartCommand, Idle
    <3> HIDE DEF r
    <3>3. QED
      BY <3>2, LogSteppingParts DEF RunTyped, Leaves, SameBut, PreTurn, Reading
  <2>2. CASE Create(c) \/ Accept(c) \/ Register(c) \/ Capacity(c) \/ Check(c) \/ Worktree(c)
    <3>1. \/ Return(c)
          \/ \E pc \in {"accept", "register", "capacity", "check", "worktree", "begin"} : Goto(c, pc)
      BY <2>2 DEF Create, Accept, Register, Capacity, Check, Worktree
    <3>2. QED
      BY <3>1, LeavingMoves, LogSteppingParts
  <2>3. CASE CollectStart(c) \/ FinalizeStart(c) \/ CleanupStart(c)
    <3>1. Return(c) \/ \E pc \in {"finalize", "cleanup"} : Goto(c, pc)
      BY <2>3 DEF CollectStart, FinalizeStart, CleanupStart
    <3>2. QED
      BY <3>1, LeavingMoves, LogSteppingParts
  <2>4. QED
    BY <2>1, <2>2, <2>3
<1>5. NoNewActive
  <2>1. \/ disk' = disk
        \/ CreateTask(k, p) \/ AcceptTask(k, p) \/ RegisterRun(k, p) \/ FinalizeRun(k, o)
    BY <1>1 DEF Create, Accept, Register, Capacity, Check, Worktree, CollectStart, FinalizeStart,
                CleanupStart, StartCommand, serviceVars
  <2>2. QED
    BY <2>1, QuietWrites, LogSteppingParts, SteppingParts
<1>6. QED
  BY <1>2, <1>3, <1>4, <1>5, OutsideLog, CommandLogStep DEF Leaves

\* thread/start makes a thread that has sent nothing.
LEMMA ThreadStartLogs ==
    ASSUME LogStepping, NEW c \in Callers, ThreadStart(c)
    PROVE  LogInv'
<1>1. /\ UNCHANGED routerVars /\ worker' = worker /\ UNCHANGED serviceVars /\ disk' = disk
      /\ call[c].pc = "thread" /\ call[c].pc \in PreTurn
  BY DEF ThreadStart, serviceVars, At, PreTurn
<1>2. RoutesKept /\ QueuesShrink
  BY <1>1, RouterSameShrinks, LogSteppingParts
<1>3. NoNewActive
  BY <1>1, QuietWrites, LogSteppingParts, SteppingParts
<1>4. CASE FinishStart(c, "failed") /\ UNCHANGED <<server, nextThread>>
  <2>1. Leaves(c)
    BY <1>4, LeavingMoves, LogSteppingParts
  <2>2. QED
    BY <1>1, <1>2, <1>3, <1>4, <2>1, OutsideLog, CommandLogStep DEF Leaves
<1>5. CASE /\ nextThread \in Threads
           /\ server' = [server EXCEPT ![nextThread] = [NoThread EXCEPT !.key = KeyOf(c), !.phase = "idle"]]
           /\ call' = [call EXCEPT ![c].pc = "prepare", ![c].thread = nextThread]
           /\ nextThread' = nextThread + 1
  <2> DEFINE t == [NoThread EXCEPT !.key = KeyOf(c), !.phase = "idle"]
             r == [call[c] EXCEPT !.pc = "prepare", !.thread = nextThread]
  <2>1. t.phase = "idle" /\ t.sent = 0
    BY DEF NoThread
  <2>2. r.pc = "prepare" /\ r.key = call[c].key
    BY CallTyped, LogSteppingParts DEF Call
  <2>3. server' = [server EXCEPT ![nextThread] = t] /\ call' = [call EXCEPT ![c] = r]
    BY <1>5
  <2> HIDE DEF t, r
  <2>4. call'[c] = r /\ SameBut(c)
    BY <2>3, LogSteppingParts DEF RunTyped, SameBut
  <2>5. server'[nextThread] = t /\ \A h \in Threads : h # nextThread => server'[h] = server[h]
    BY <1>5, <2>3, LogSteppingParts DEF SideTyped
  <2>6. nextThread <= nextThread'
    BY <1>5, LogSteppingParts
  <2>7. \A h \in Threads : h < nextThread => h # nextThread
    BY LogSteppingParts
  <2>8. SentKept
    BY <2>5, <2>6, <2>7 DEF SentKept
  <2>9. ASSUME NEW h \in Threads PROVE SentGood(h)'
    <3>1. CASE h = nextThread
      BY <2>1, <2>5, <3>1 DEF SentGood
    <3>2. CASE h # nextThread
      BY <2>5, <3>2, LogSteppingParts DEF SentGood, LogInv
    <3>3. QED
      BY <3>1, <3>2
  <2>10. \A d \in Callers : CallFollows(d)
    BY <1>1, <2>2, <2>4 DEF SameBut, CallFollows, PreTurn, Reading
  <2>11. \A k \in Keys : WorkerFollows(k)
    BY <1>1 DEF WorkerFollows
  <2>12. RoomsKept
    BY <1>2, <2>8, CalmRooms
  <2>13. QED
    BY <1>3, <2>9, <2>10, <2>11, <2>12, QuietLog
<1>6. QED
  BY <1>4, <1>5 DEF ThreadStart

-----------------------------------------------------------------------------
\* prepare_run gives a run that has just begun an empty stream.
LEMMA PrepareLogs ==
    ASSUME LogStepping, NEW c \in Callers, Prepare(c)
    PROVE  LogInv'
<1>1. /\ worker' = worker /\ server' = server /\ nextThread' = nextThread /\ disk' = disk
      /\ call[c].pc = "prepare" /\ call[c].pc \in PreTurn
  BY DEF Prepare, serviceVars, At, PreTurn
<1>2. NoNewActive
  BY <1>1, QuietWrites, LogSteppingParts, SteppingParts
<1>3. CASE FinishStart(c, "failed") /\ UNCHANGED routerVars
  <2>1. Leaves(c)
    BY <1>3, LeavingMoves, LogSteppingParts
  <2>2. RoutesKept /\ QueuesShrink
    BY <1>3, RouterSameShrinks, LogSteppingParts
  <2>3. QED
    BY <1>1, <1>2, <2>1, <2>2, OutsideLog, CommandLogStep DEF Leaves
<1>4. CASE /\ PrepareRun(call[c].connection, KeyOf(c), call[c].thread)
           /\ call' = [call EXCEPT ![c].pc = "turn", ![c].stream = nextRoute]
  <2>1. PICK k \in Keys : call[c].key = k /\ KeyOf(c) = k
    BY CallTyped, LogSteppingParts DEF KeyOf
  <2>2. PICK h \in Threads : /\ h = call[c].thread /\ h < nextThread
                             /\ server[h].key = k /\ server[h].phase = "idle"
    BY <1>1, <2>1, LogSteppingParts DEF TurnsInv, CommandKnows
  <2>3. PICK n \in Connections : n = call[c].connection
    BY <1>1, CommandConnected, LogSteppingParts
  <2>4. PrepareRun(n, k, h)
    BY <1>4, <2>1, <2>2, <2>3
  <2>5. RoutesKept /\ QueuesShrink /\ queue'[nextRoute].events = <<>>
    BY <2>4, PrepareShrinks, LogSteppingParts
  <2>6. /\ nextRoute' = nextRoute + 1 /\ nextRoute \in Streams
        /\ \A q \in routes' : q.id = nextRoute => q.thread = h
    BY <2>4, PrepareCalm, LogSteppingParts
  <2> DEFINE r == [call[c] EXCEPT !.pc = "turn", !.stream = nextRoute]
  <2>7. r.pc = "turn" /\ r.key = k /\ r.thread = h /\ r.stream = nextRoute
    BY <2>1, <2>2, CallTyped, LogSteppingParts DEF Call
  <2>8. call' = [call EXCEPT ![c] = r]
    BY <1>4
  <2> HIDE DEF r
  <2>9. call'[c] = r /\ SameBut(c)
    BY <2>8, LogSteppingParts DEF RunTyped, SameBut
  <2>10. PICK b : b = call'[c]
    OBVIOUS
  <2>11. PICK s \in Streams : s = nextRoute
    BY <2>6
  <2>12. b.pc = "turn" /\ b.key = k /\ b.thread = h /\ b.stream = s
    BY <2>7, <2>9, <2>10, <2>11
  <2>13. JustBegun(k) /\ JustBegun(k)'
    <3>1. JustBegun(k)
      BY <1>1, <2>1, LogSteppingParts DEF LogInv, CommandLog
    <3>2. RecordKept(k)
      BY <1>2, ActivesKept, LogSteppingParts
    <3>3. QED
      BY <3>1, <3>2, JustBegunStays
  <2>14. ComesFrom(s, h)'
    <3>1. s < nextRoute'
      BY <2>6, <2>11, StreamsAreNumbers
    <3>2. QED
      BY <1>1, <2>2, <2>6, <2>11, <3>1 DEF ComesFrom
  <2>15. server[h].sent = 0
    BY <2>2, LogSteppingParts DEF LogInv, SentGood
  <2>16. Active(k)' => HasRoom(queue'[s].events, Lookup(disk', k), server'[h].sent)
    <3> SUFFICES ASSUME Active(k)' PROVE HasRoom(queue'[s].events, Lookup(disk', k), server'[h].sent)
      OBVIOUS
    <3>1. Lookup(disk', k).run = "running" /\ Lookup(disk', k).events <= 5 /\ Has(disk', k)
      BY <2>13 DEF JustBegun, Active, Has, Lookup, Position
    <3>2. PICK t : t = Lookup(disk', k)
      OBVIOUS
    <3>3. t.events \in Nat /\ t.run = "running" /\ t.events <= 5
      BY <1>1, <3>1, <3>2, StoredEvents, LogSteppingParts
    <3>4. PICK q : q = queue'[s].events
      OBVIOUS
    <3>5. q = <<>> /\ Changes(q) = 0
      BY <2>5, <2>11, <3>4, NoChanges
    <3>6. Unread(q, t, 0)
      BY <3>3, <3>5 DEF Unread
    <3>7. QED
      BY <1>1, <2>15, <3>2, <3>4, <3>6 DEF HasRoom
  <2>17. LogRoom(s, h, k)'
    BY <1>1, <2>2, <2>14, <2>16 DEF LogRoom, HasRoom, Unread, Changes, ChangesAt, Lookup, Position, Active, Has
  <2>18. CommandLog(b)'
    BY <2>12, <2>13, <2>17 DEF CommandLog
  <2>19. CommandLog(call[c])'
    BY <2>10, <2>18, CommandLogNext
  <2>20. QED
    BY <1>1, <1>2, <2>5, <2>9, <2>19, CommandLogStep
<1>5. QED
  BY <1>3, <1>4 DEF Prepare

\* A command that stays on the way it was watches what it watched.
LEMMA GotoFollows ==
    ASSUME RunTyped, NEW c \in Callers, NEW pc \in {"await", "bind", "spawn"}, Goto(c, pc),
           call[c].pc \in Reading
    PROVE  SameBut(c) /\ CallFollows(c)
<1>1. pc \notin PreTurn
  BY DEF PreTurn
<1>2. QED
  BY <1>1, GotoMoves DEF CallFollows

LEMMA AwaitLogs ==
    ASSUME LogStepping, NEW c \in Callers, Await(c) \/ Bind(c)
    PROVE  LogInv'
<1>1. /\ worker' = worker /\ server' = server /\ nextThread' = nextThread /\ disk' = disk
      /\ call[c].pc \in {"await", "bind"} /\ call[c].pc \in Reading
  BY DEF Await, Bind, serviceVars, At, Reading
<1>2. NoNewActive
  BY <1>1, QuietWrites, LogSteppingParts, SteppingParts
<1>3. call[c].thread \in Turns
  <2>1. PICK a \in Call : a = call[c]
    BY CallTyped, LogSteppingParts
  <2>2. CommandKnows(a)
    BY <2>1, LogSteppingParts DEF TurnsInv
  <2>3. QED
    BY <1>1, <2>1, <2>2, StreamsAreNumbers DEF CommandKnows, Carries
<1>4. RoutesKept /\ QueuesShrink
  <2>1. \/ UNCHANGED routerVars \/ DropStream(call[c].stream)
        \/ BindTurn(call[c].stream, call[c].thread)
    BY DEF Await, Bind
  <2>2. QED
    BY <1>3, <2>1, RouterSameShrinks, DropShrinks, BindShrinks, LogSteppingParts
<1>5. CASE FinishStart(c, "outcomeUnknown")
  <2>1. Leaves(c)
    BY <1>5, LeavingMoves, LogSteppingParts
  <2>2. QED
    BY <1>1, <1>2, <1>4, <2>1, OutsideLog, CommandLogStep DEF Leaves
<1>6. CASE \E pc \in {"bind", "spawn"} : Goto(c, pc)
  <2>1. SameBut(c) /\ CallFollows(c)
    BY <1>1, <1>6, GotoFollows, LogSteppingParts
  <2>2. QED
    BY <1>1, <1>2, <1>4, <2>1, CommandLogStep
<1>7. QED
  BY <1>5, <1>6 DEF Await, Bind

\* turn/start is answered before the turn sends anything.
LEMMA TurnStartLogs ==
    ASSUME LogStepping, NEW c \in Callers, TurnStart(c)
    PROVE  LogInv'
<1>1. PICK k \in Keys : call[c].key = k /\ KeyOf(c) = k
  BY CallTyped, LogSteppingParts DEF KeyOf
<1>2. /\ call[c].pc = "turn" /\ UNCHANGED <<worker, nextThread>> /\ UNCHANGED serviceVars
      /\ \E h \in Threads : /\ h = call[c].thread /\ h < nextThread
                            /\ server[h].key = k /\ server[h].phase = "idle"
  BY <1>1, AtTurn, LogSteppingParts
<1>3. PICK h \in Threads : h = call[c].thread /\ server[h].phase = "idle"
  BY <1>2
<1>4. NoNewActive /\ \A x \in Keys : WorkerFollows(x)
  BY <1>2, QuietWrites, LogSteppingParts, SteppingParts DEF serviceVars, WorkerFollows
<1>5. RoutesKept /\ QueuesShrink
  <2>1. UNCHANGED routerVars \/ DropStream(call[c].stream)
    BY DEF TurnStart
  <2>2. QED
    BY <2>1, RouterSameShrinks, DropShrinks, LogSteppingParts
<1>6. SentKept /\ \A x \in Threads : SentGood(x)'
  <2>1. CASE server' = server
    BY <1>2, <2>1, SameSent
  <2>2. ASSUME NEW phase \in {"accepted", "refused"}, SendTurn(c, phase)
        PROVE  SentKept /\ \A x \in Threads : SentGood(x)'
    <3> DEFINE t == [server[h] EXCEPT !.phase = phase]
    <3>1. server[h] \in Turn /\ server[h].sent = 0
      BY <1>3, LogSteppingParts DEF SideTyped, LogInv, SentGood
    <3>2. t.phase = phase /\ t.sent = 0
      BY <3>1 DEF Turn
    <3>3. server' = [server EXCEPT ![h] = t]
      BY <1>3, <2>2 DEF SendTurn
    <3> HIDE DEF t
    <3>4. server'[h] = t /\ \A x \in Threads : x # h => server'[x] = server[x]
      BY <3>3, LogSteppingParts DEF SideTyped
    <3>5. \A x \in Threads : server'[x].sent = server[x].sent
      BY <3>1, <3>2, <3>4
    <3>6. SentKept
      BY <1>2, <3>5, LogSteppingParts DEF SentKept
    <3>7. ASSUME NEW x \in Threads PROVE SentGood(x)'
      <4>1. CASE x = h
        BY <3>2, <3>4, <4>1 DEF SentGood
      <4>2. CASE x # h
        BY <3>4, <4>2, LogSteppingParts DEF SentGood, LogInv
      <4>3. QED
        BY <4>1, <4>2
    <3>8. QED
      BY <3>6, <3>7
  <2>3. QED
    BY <2>1, <2>2 DEF TurnStart
<1>7. RoomsKept
  BY <1>5, <1>6, CalmRooms
<1>8. \A d \in Callers : CallFollows(d) \/ CommandLog(call[d])'
  <2>1. CASE Goto(c, "await")
    <3>1. SameBut(c) /\ CallFollows(c)
      BY <1>2, <2>1, GotoFollows, LogSteppingParts DEF Reading
    <3>2. QED
      BY <3>1 DEF SameBut, CallFollows
  <2>2. CASE \E o : FinishStart(c, o)
    <3>1. Leaves(c)
      BY <2>2, LeavingMoves, LogSteppingParts
    <3>2. QED
      BY <3>1, OutsideLog DEF Leaves, SameBut, CallFollows
  <2>3. QED
    BY <2>1, <2>2 DEF TurnStart
<1>9. QED
  BY <1>4, <1>6, <1>7, <1>8, QuietLog

\* spawn_active hands the stream and its room to the worker.
LEMMA SpawnLogs ==
    ASSUME LogStepping, NEW c \in Callers, Spawn(c)
    PROVE  LogInv'
<1>1. PICK k \in Keys : call[c].key = k /\ KeyOf(c) = k
  BY CallTyped, LogSteppingParts DEF KeyOf
<1>2. /\ call[c].pc = "spawn" /\ call[c].pc \in Reading /\ server' = server
      /\ nextThread' = nextThread /\ disk' = disk
  BY DEF Spawn, serviceVars, At, Reading
<1>3. NoNewActive
  BY <1>2, QuietWrites, LogSteppingParts, SteppingParts
<1>4. Leaves(c)
  BY LeavingMoves, LogSteppingParts DEF Spawn
<1>5. \A d \in Callers : CallFollows(d) \/ CommandLog(call[d])'
  BY <1>4, OutsideLog DEF Leaves, SameBut, CallFollows
<1>6. SentKept /\ \A x \in Threads : SentGood(x)'
  BY <1>2, SameSent
<1>7. RoutesKept /\ QueuesShrink
  <2>1. UNCHANGED routerVars \/ DropStream(call[c].stream)
    BY DEF Spawn
  <2>2. QED
    BY <2>1, RouterSameShrinks, DropShrinks, LogSteppingParts
<1>8. RoomsKept
  BY <1>6, <1>7, CalmRooms
<1> DEFINE new == [NoWorker EXCEPT !.pc = "loop", !.stream = call[c].stream,
                                   !.connection = call[c].connection]
           lost == [new EXCEPT !.pc = "collect", !.last = TRUE]
<1>9. ASSUME NEW w \in {new, lost}, worker' = [worker EXCEPT ![k] = w]
      PROVE  \A x \in Keys : WorkerFollows(x) \/ WorkerLog(x, worker[x])'
  <2>1. w.stream = call[c].stream
    BY <1>9 DEF NoWorker
  <2> HIDE DEF new, lost
  <2>2. worker'[k] = w /\ \A x \in Keys : x # k => worker'[x] = worker[x]
    BY <1>9, LogSteppingParts DEF RunTyped
  <2>3. PICK a \in Call : a = call[c]
    BY CallTyped, LogSteppingParts
  <2>4. LogRoom(a.stream, a.thread, k)
    BY <1>1, <1>2, <2>3, LogSteppingParts DEF LogInv, CommandLog
  <2>5. RecordKept(k)
    BY <1>3, ActivesKept, LogSteppingParts
  <2>6. LogRoom(a.stream, a.thread, k)' /\ a.thread \in Threads
    BY <1>8, <2>4, <2>5 DEF RoomsKept, LogRoom, ComesFrom
  <2>7. \E h \in Threads : LogRoom(w.stream, h, k)'
    BY <2>1, <2>3, <2>6
  <2>8. WorkerLog(k, w)'
    BY <2>7 DEF WorkerLog
  <2>9. WorkerLog(k, worker[k])'
    BY <2>2, <2>8, WorkerLogNext
  <2>10. QED
    BY <2>2, <2>9 DEF WorkerFollows
<1>10. \A x \in Keys : WorkerFollows(x) \/ WorkerLog(x, worker[x])'
  <2>1. CASE UNCHANGED worker
    BY <2>1 DEF WorkerFollows
  <2>2. QED
    BY <1>1, <1>9, <2>1 DEF Spawn
<1>11. QED
  BY <1>3, <1>5, <1>6, <1>8, <1>10, QuietLog

-----------------------------------------------------------------------------
(***************************************************************************)
(* The writes of an active run: begin_run, and the transitions of a poll.  *)
(***************************************************************************)
LEMMA WriteLog ==
    ASSUME LogStepping, NEW k \in Keys, NEW t, OnlyWrites(k, t), t.key = k, RoomToEnd(t)',
           RoomsKept, server' = server, nextThread' = nextThread,
           \A c \in Callers : (CallFollows(c) /\ call[c].key # k) \/ CommandLog(call[c])',
           \A x \in Keys : (WorkerFollows(x) /\ x # k) \/ WorkerLog(x, worker[x])'
    PROVE  LogInv'
<1>1. \A x : x # k => RecordKept(x)
  BY OthersKept, LogSteppingParts
<1>2. \A c \in Callers : CommandLog(call[c])'
  BY <1>1, CommandLogStays
<1>3. \A x \in Keys : WorkerLog(x, worker[x])'
  BY <1>1, WorkerLogStays
<1>4. RoomsToEnd'
  BY RoomsToEndStay DEF OnlyWrites
<1>5. QED
  BY <1>2, <1>3, <1>4, SameSent, LogParts, LogSteppingParts

LEMMA BeginLogs ==
    ASSUME LogStepping, NEW c \in Callers, BeginRunStep(c)
    PROVE  LogInv'
<1>1. PICK k \in Keys : call[c].key = k /\ KeyOf(c) = k
  BY CallTyped, LogSteppingParts DEF KeyOf
<1>2. /\ call[c].pc = "begin" /\ Holding(c, k) /\ worker' = worker /\ server' = server
      /\ nextThread' = nextThread /\ UNCHANGED routerVars
  BY <1>1 DEF BeginRunStep, At, Holding, HoldPc
<1>3. RoutesKept /\ QueuesShrink
  BY <1>2, RouterSameShrinks, LogSteppingParts
<1>4. CASE Return(c) /\ UNCHANGED serviceVars
  <2>1. NoNewActive
    BY <1>4, QuietWrites, LogSteppingParts, SteppingParts DEF serviceVars
  <2>2. Leaves(c)
    BY <1>4, LeavingMoves, LogSteppingParts
  <2>3. QED
    BY <1>2, <1>3, <2>1, <2>2, OutsideLog, CommandLogStep DEF Leaves
<1>5. CASE BeginRun(k) /\ Goto(c, "thread")
  <2>1. SameBut(c) /\ call'[c].pc = "thread" /\ call'[c].key = k
    BY <1>1, <1>5, GotoMoves, LogSteppingParts
  <2>2. /\ Stored(k) /\ loaded /\ TaskOf(k).run = "queued" /\ Update(k, Begun(TaskOf(k)))
        /\ ~IsRefused(Begun(TaskOf(k)))
    BY <1>5 DEF BeginRun, Update
  <2>3. PICK a : a = TaskOf(k)
    OBVIOUS
  <2>4. TaskOK(a) /\ a = Lookup(disk, k) /\ Has(disk, k) /\ a.key = k
    BY <2>2, <2>3, StoredOK, LogSteppingParts, StoredEvents
  <2>5. EarlyLog(a)
    <3>1. PICK i \in DOMAIN disk : disk[i] = Lookup(disk, k)
      BY <2>4, PositionFound
    <3>2. QED
      BY <2>4, <3>1, LogSteppingParts DEF LogInv
  <2>6. PICK t : t = Begun(a)
    OBVIOUS
  <2>7. t.events \in Nat /\ t.events <= 5
    BY <2>2, <2>3, <2>4, <2>5, <2>6, BegunCounts
  <2>8. Advances(a, t) /\ t.run = "running"
    BY <2>2, <2>3, <2>4, <2>6, BegunAdvances
  <2>9. OnlyWrites(k, t)
    BY <2>2, <2>3, <2>6, <2>8, UpdateWrites, LogSteppingParts, SteppingParts
  <2>10. t.key = k
    BY <2>4, <2>8 DEF Advances, Continues
  <2>11. RoomToEnd(t)'
    BY <2>7, MaxEventsAssumption, TaskRunAssumption DEF RoomToEnd
  <2>12. RoomsKept
    BY <1>2, <1>3, SameSent, CalmRooms
  <2>13. JustBegun(k)'
    <3>1. Lookup(disk', k).run = "running" /\ Lookup(disk', k).events <= 5
      BY <2>7, <2>8, <2>9 DEF OnlyWrites
    <3>2. QED
      BY <3>1 DEF JustBegun, Active, Has, Lookup, Position
  <2>14. CommandLog(call[c])'
    <3>1. PICK b : b = call'[c]
      OBVIOUS
    <3>2. b.pc = "thread" /\ b.key = k
      BY <2>1, <3>1
    <3>3. CommandLog(b)'
      BY <2>13, <3>2 DEF CommandLog, Reading
    <3>4. QED
      BY <3>1, <3>3, CommandLogNext
  <2>15. ASSUME NEW d \in Callers PROVE (CallFollows(d) /\ call[d].key # k) \/ CommandLog(call[d])'
    <3>1. CASE d = c
      BY <2>14, <3>1
    <3>2. CASE d # c /\ call[d].key # k
      BY <2>1, <3>2 DEF SameBut, CallFollows
    <3>3. CASE d # c /\ call[d].key = k
      <4>1. ~Holding(d, k)
        BY <1>2, <3>3, LogSteppingParts DEF HoldersGood
      <4>2. call'[d].pc \notin PreTurn /\ call'[d].pc \notin Reading
        BY <2>1, <3>3, <4>1 DEF SameBut, Holding, HoldPc, Owning, PreTurn, Reading
      <4>3. QED
        BY <4>2, OutsideLog
    <3>4. QED
      BY <3>1, <3>2, <3>3
  <2>16. ASSUME NEW x \in Keys PROVE (WorkerFollows(x) /\ x # k) \/ WorkerLog(x, worker[x])'
    <3>1. CASE x # k
      BY <1>2, <3>1 DEF WorkerFollows
    <3>2. CASE x = k
      <4>1. ~WorkerHolds(k)
        BY <1>2, LogSteppingParts DEF HoldersGood
      <4>2. worker'[k].pc \notin {"loop", "check"}
        BY <1>2, <4>1 DEF WorkerHolds, WorkerHoldPc, WorkerPc
      <4>3. QED
        BY <3>2, <4>2, OutsideWorkerLog
    <3>3. QED
      BY <3>1, <3>2
  <2>17. QED
    BY <1>2, <2>9, <2>10, <2>11, <2>12, <2>15, <2>16, WriteLog
<1>6. QED
  BY <1>1, <1>4, <1>5 DEF BeginRunStep

LEMMA StartStepLogs ==
    ASSUME LogStepping, NEW c \in Callers,
           StartStep(c) \/ \E k \in Keys, p \in Projects : StartCommand(c, k, p)
    PROVE  LogInv'
BY StartLogs, BeginLogs, ThreadStartLogs, PrepareLogs, TurnStartLogs, AwaitLogs, SpawnLogs
   DEF StartStep

-----------------------------------------------------------------------------
(***************************************************************************)
(* The steps of a worker.                                                  *)
(***************************************************************************)
LEMMA WorkerLogStep ==
    ASSUME LogStepping, NEW k \in Keys, WorkerQuiet, WorkerOthers(k), NoNewActive,
           RoutesKept, QueuesShrink, WorkerFollows(k)
    PROVE  LogInv'
<1>1. server' = server /\ nextThread' = nextThread /\ call' = call
  BY DEF WorkerQuiet
<1>2. SentKept /\ \A h \in Threads : SentGood(h)'
  BY <1>1, SameSent
<1>3. RoomsKept
  BY <1>2, CalmRooms
<1>4. \A d \in Callers : CallFollows(d)
  BY <1>1 DEF CallFollows
<1>5. \A x \in Keys : WorkerFollows(x)
  BY DEF WorkerFollows, WorkerOthers
<1>6. QED
  BY <1>2, <1>3, <1>4, <1>5, QuietLog

\* How a worker moves that begins no watch.
LEMMA WorkerGoesOn ==
    ASSUME RunTyped, NEW k \in Keys,
           \/ \E pc \in {"finalize", "cleanup", "remove", "abandon"} : WorkerGoto(k, pc)
           \/ worker[k].pc \in {"loop", "check"} /\ \E pc \in {"loop", "check"} : WorkerGoto(k, pc)
           \/ \E o : Finish(k, o)
           \/ FinishUnknown(k) \/ GiveUp(k)
           \/ worker' = [worker EXCEPT ![k] = NoWorker]
    PROVE  WorkerOthers(k) /\ WorkerFollows(k)
<1>1. ASSUME NEW pc, WorkerGoto(k, pc), pc \notin {"loop", "check"} \/ worker[k].pc \in {"loop", "check"}
      PROVE  WorkerOthers(k) /\ WorkerFollows(k)
  BY <1>1, WorkerGotoMoves DEF WorkerOthers, WorkerFollows
<1>2. ASSUME NEW o, Finish(k, o) PROVE WorkerOthers(k) /\ WorkerFollows(k)
  BY <1>2, FinishMoves DEF WorkerOthers, WorkerFollows
<1>3. CASE FinishUnknown(k)
  BY <1>3, FinishUnknownMoves DEF WorkerOthers, WorkerFollows
<1>4. CASE worker' = [worker EXCEPT ![k] = NoWorker]
  BY <1>4 DEF RunTyped, WorkerOthers, WorkerFollows, NoWorker
<1>5. CASE GiveUp(k)
  BY <1>1, <1>3, <1>5 DEF GiveUp
<1>6. QED
  BY <1>1, <1>2, <1>3, <1>4, <1>5

LEMMA WorkerLogs ==
    ASSUME LogStepping, NEW k \in Keys,
           \/ Stop(k) \/ Interrupt(k) \/ CheckActive(k) \/ Collect(k) \/ Finalize(k)
           \/ CleanupRun(k) \/ Abandon(k) \/ Remove(k)
    PROVE  LogInv'
<1>1. WorkerQuiet
  BY DEF Stop, Interrupt, CheckActive, Collect, Finalize, CleanupRun, Abandon, Remove, WorkerQuiet
<1>2. PICK o \in ReceiptOutcome : worker[k].outcome = o
  BY LogSteppingParts DEF RunTyped, Worker
<1>3. NoNewActive
  <2>1. disk' = disk \/ FinalizeRun(k, o) \/ AbandonRun(k)
    BY <1>2 DEF Stop, Interrupt, CheckActive, Collect, Finalize, CleanupRun, Abandon, Remove,
                serviceVars
  <2>2. QED
    BY <2>1, QuietWrites, LogSteppingParts, SteppingParts
<1>4. RoutesKept /\ QueuesShrink
  <2>1. UNCHANGED routerVars \/ DropStream(worker[k].stream)
    BY DEF Stop, Interrupt, CheckActive, Collect, Finalize, CleanupRun, Abandon, Remove
  <2>2. QED
    BY <2>1, RouterSameShrinks, DropShrinks, LogSteppingParts
<1>5. WorkerOthers(k) /\ WorkerFollows(k)
  <2>1. CASE \/ worker' = [worker EXCEPT ![k].stop = TRUE]
             \/ worker' = [worker EXCEPT ![k].interrupted = TRUE]
    <3>1. worker[k] \in Worker
      BY LogSteppingParts DEF RunTyped
    <3>2. QED
      BY <2>1, <3>1, LogSteppingParts DEF RunTyped, Worker, WorkerOthers, WorkerFollows
  <2>2. CASE CheckActive(k)
    BY <2>2, WorkerGoesOn, LogSteppingParts DEF CheckActive, WorkerAt
  <2>3. CASE Collect(k) \/ Finalize(k) \/ CleanupRun(k) \/ Abandon(k) \/ Remove(k)
    BY <2>3, WorkerGoesOn, LogSteppingParts DEF Collect, Finalize, CleanupRun, Abandon, Remove
  <2>4. CASE FinishUnknown(k)
    BY <2>4, WorkerGoesOn, LogSteppingParts
  <2>5. QED
    BY <2>1, <2>2, <2>3, <2>4 DEF Stop, Interrupt
<1>6. QED
  BY <1>1, <1>3, <1>4, <1>5, WorkerLogStep

-----------------------------------------------------------------------------
\* poll writes a change it has read: the log takes one event more, and the
\* queue holds one change less.
LEMMA PollWrites ==
    ASSUME LogStepping, NEW k \in Keys, NEW s, NEW event \in Change, worker[k].pc = "loop",
           s = worker[k].stream, event = queue[s].events[1], TryRecv(s), WorkerQuiet,
           PollTransition(k, event), WorkerGoto(k, "loop")
    PROVE  LogInv'
<1>1. PICK h \in Threads : LogRoom(s, h, k)
  BY LogSteppingParts DEF LogInv, WorkerLog
<1>2. ComesFrom(s, h) /\ s \in Streams
  BY <1>1 DEF LogRoom, ComesFrom
<1>3. PICK q : q = queue[s].events
  OBVIOUS
<1>4. PICK n : n = server[h].sent
  OBVIOUS
<1>5. q \in Seq(RunEvent) /\ n \in Nat /\ SentGood(h)
  BY <1>2, <1>3, <1>4, LogSteppingParts DEF SideTyped, RouterTypeOK, EventQueue, Turn, LogInv
<1>6. RoutesKept /\ QueuesShrink /\ q # <<>> /\ queue'[s].events = Tail(q)
  BY <1>2, <1>3, TryRecvShrinks, LogSteppingParts
<1>7. /\ server' = server /\ nextThread' = nextThread /\ call' = call
      /\ WorkerOthers(k) /\ worker'[k].pc = "loop" /\ worker'[k].stream = s
  BY WorkerGotoMoves, LogSteppingParts DEF WorkerQuiet, WorkerOthers
<1>8. PICK a : a = TaskOf(k)
  OBVIOUS
<1>9. PICK u : u = MoveRun(a, event)
  OBVIOUS
<1>10. Stored(k) /\ loaded /\ Update(k, u) /\ ~IsRefused(u) /\ (event = "running" => a.run = "waitingApproval")
  BY <1>8, <1>9 DEF PollTransition, TransitionRun, Update
<1>11. TaskOK(a) /\ a = Lookup(disk, k) /\ Has(disk, k) /\ a.key = k /\ a.events \in Nat
  BY <1>8, <1>10, StoredOK, LogSteppingParts, StoredEvents
<1>12. a \in StoredTask /\ event \in RunStatus /\ event \in ActiveRun
  BY <1>11 DEF TaskOK, Change, RunStatus, ActiveRun
<1>13. valid_run_transition(a.run, event) /\ u.key = k /\ u.events = a.events + 1
  BY <1>9, <1>10, <1>11, <1>12, MoveRunCases, RefusedIsRefused
<1>14. a.run \in ActiveRun
  <2>1. event \in {"running", "waitingApproval"}
    BY DEF Change
  <2>2. CASE event = "running"
    BY <1>10, <2>2 DEF ActiveRun
  <2>3. CASE event = "waitingApproval"
    BY <1>13, <2>3 DEF valid_run_transition, ActiveRun, TerminalRun
  <2>4. QED
    BY <2>1, <2>2, <2>3
<1>15. HasRoom(q, a, n)
  BY <1>1, <1>3, <1>4, <1>11, <1>14 DEF LogRoom, Active
<1>16. HasRoom(Tail(q), u, n) /\ Tail(q) \in Seq(RunEvent) /\ u.events \in Nat
  <2>1. HasRoom(Tail(q), u, n)
    BY <1>3, <1>5, <1>6, <1>10, <1>11, <1>13, <1>15, RoomWritten
  <2>2. QED
    BY <1>5, <1>6, <1>11, <1>13, <2>1, HeadTailProperties
<1>17. RoomToEnd(u)'
  <2>1. u.events + 2 <= MaxEvents \/ n + 6 > MaxEvents
    BY <1>5, <1>16, RoomSuffices
  <2>2. server'[h].key = u.key /\ server'[h].sent = n
    BY <1>1, <1>4, <1>7, <1>13 DEF LogRoom
  <2>3. QED
    BY <2>1, <2>2 DEF RoomToEnd, Overlong
<1>18. OnlyWrites(k, u)
  <2>1. Advances(a, u)
    BY <1>9, <1>10, <1>11, <1>12, <1>14, MoveRunAdvances DEF ActiveRun
  <2>2. QED
    BY <1>8, <1>10, <2>1, UpdateWrites, LogSteppingParts, SteppingParts
<1>19. RoomsKept
  BY <1>6, <1>7, SameSent, CalmRooms
<1>20. LogRoom(s, h, k)'
  <2>1. ComesFrom(s, h)'
    BY <1>2, <1>6, <1>7, SameSent, ComesFromStays, LogSteppingParts DEF SentKept
  <2>2. HasRoom(queue'[s].events, Lookup(disk', k), server'[h].sent)
    BY <1>4, <1>6, <1>7, <1>16, <1>18 DEF OnlyWrites
  <2>3. server'[h].key = k
    BY <1>1, <1>7 DEF LogRoom
  <2>4. QED
    BY <2>1, <2>2, <2>3 DEF LogRoom, HasRoom, Unread, Changes, ChangesAt, Lookup, Position, Active, Has
<1>21. WorkerLog(k, worker[k])'
  <2>1. PICK w : w = worker'[k]
    OBVIOUS
  <2>2. w.stream = s
    BY <1>7, <2>1
  <2>3. WorkerLog(k, w)'
    BY <1>20, <2>2 DEF WorkerLog
  <2>4. QED
    BY <2>1, <2>3, WorkerLogNext
<1>22. ASSUME NEW d \in Callers PROVE (CallFollows(d) /\ call[d].key # k) \/ CommandLog(call[d])'
  <2>1. CASE call[d].key # k
    BY <1>7, <2>1 DEF CallFollows
  <2>2. CASE call[d].key = k
    <3>1. ~Holding(d, k)
      BY LogSteppingParts DEF HoldersGood, WorkerHolds, WorkerHoldPc, WorkerPc
    <3>2. call'[d].pc \notin PreTurn /\ call'[d].pc \notin Reading
      BY <1>7, <2>2, <3>1 DEF Holding, HoldPc, Owning, PreTurn, Reading
    <3>3. QED
      BY <3>2, OutsideLog
  <2>3. QED
    BY <2>1, <2>2
<1>23. \A x \in Keys : (WorkerFollows(x) /\ x # k) \/ WorkerLog(x, worker[x])'
  BY <1>7, <1>21 DEF WorkerOthers, WorkerFollows
<1>24. QED
  BY <1>7, <1>13, <1>17, <1>18, <1>19, <1>22, <1>23, WriteLog

LEMMA PollLogs ==
    ASSUME LogStepping, NEW k \in Keys, Poll(k)
    PROVE  LogInv'
<1>1. PICK s, event : s = worker[k].stream /\ event = queue[s].events[1]
  OBVIOUS
<1>2. WorkerQuiet /\ worker[k].pc = "loop"
  BY DEF Poll, WorkerAt, WorkerQuiet
<1>3. CASE TryRecv(s) /\ PollTransition(k, event) /\ WorkerGoto(k, "loop") /\ event \in Change
  BY <1>1, <1>2, <1>3, PollWrites
<1>4. CASE /\ TryRecv(s) \/ UNCHANGED routerVars
           /\ UNCHANGED serviceVars
           /\ \/ \E pc \in {"loop", "check"} : WorkerGoto(k, pc)
              \/ FinishUnknown(k) \/ Finish(k, OutcomeOf(event))
  <2>1. WorkerOthers(k) /\ WorkerFollows(k)
    BY <1>2, <1>4, WorkerGoesOn, LogSteppingParts
  <2>2. s \in Streams
    <3>1. PICK h \in Threads : LogRoom(s, h, k)
      BY <1>1, <1>2, LogSteppingParts DEF LogInv, WorkerLog
    <3>2. QED
      BY <3>1 DEF LogRoom, ComesFrom
  <2>3. RoutesKept /\ QueuesShrink
    BY <1>4, <2>2, TryRecvShrinks, RouterSameShrinks, LogSteppingParts
  <2>4. NoNewActive
    BY <1>4, QuietWrites, LogSteppingParts, SteppingParts DEF serviceVars
  <2>5. QED
    BY <1>2, <2>1, <2>3, <2>4, WorkerLogStep
<1>5. QED
  <2>1. CASE /\ queue[s].events = <<>> /\ WorkerGoto(k, "check")
             /\ UNCHANGED serviceVars /\ UNCHANGED routerVars
    BY <1>4, <2>1
  <2>2. CASE TryRecv(s) /\ event \in Change /\ Observe(k, event)
    BY <1>3, <1>4, <2>2 DEF Observe
  <2>3. CASE TryRecv(s) /\ Finish(k, OutcomeOf(event)) /\ UNCHANGED serviceVars
    BY <1>4, <2>3
  <2>4. QED
    BY <1>1, <2>1, <2>2, <2>3 DEF Poll, Change

LEMMA WorkerStepLogs ==
    ASSUME LogStepping, NEW k \in Keys, Stop(k) \/ WorkerStep(k)
    PROVE  LogInv'
BY WorkerLogs, PollLogs DEF WorkerStep

-----------------------------------------------------------------------------
(***************************************************************************)
(* Deliveries.                                                             *)
(***************************************************************************)
LEMMA DeliveredQueue ==
    ASSUME RouterGood, NEW h \in Threads, NEW kind \in Notification, Deliver(h, kind), NEW s \in Streams
    PROVE  \/ queue'[s].events = queue[s].events
           \/ /\ \E r \in routes : r.id = s /\ r.thread = h
              /\ \E e \in {kind, "gap"} : queue'[s].events = QueuePush(queue[s].events, e)
<1>1. CASE UNCHANGED routerVars
  BY <1>1 DEF routerVars
<1>2. CASE RouteEvent(connection, h, h, kind)
  <2>1. PICK r \in routes :
            /\ Accepts(r, connection, h, h, kind)
            /\ queue' = [queue EXCEPT ![r.id] =
                            [@ EXCEPT !.events = QueueAfter(r, kind), !.active = kind \notin TerminalEvent]]
    BY <1>2 DEF RouteEvent
  <2> DEFINE q == [queue[r.id] EXCEPT !.events = QueueAfter(r, kind), !.active = kind \notin TerminalEvent]
  <2>2. r.id \in Streams /\ r.thread = h
    BY <2>1 DEF RouterGood, RouterTypeOK, Route, Accepts
  <2>3. q.events = QueueAfter(r, kind)
    BY <2>2 DEF RouterGood, RouterTypeOK, EventQueue
  <2>4. queue' = [queue EXCEPT ![r.id] = q]
    BY <2>1
  <2> HIDE DEF q
  <2>5. queue'[s] = IF s = r.id THEN q ELSE queue[s]
    BY <2>2, <2>4 DEF RouterGood, RouterTypeOK
  <2>6. CASE s # r.id
    BY <2>5, <2>6
  <2>7. CASE s = r.id
    <3>1. queue'[s].events = QueueAfter(r, kind)
      BY <2>3, <2>5, <2>7
    <3>2. \/ QueueAfter(r, kind) = queue[s].events
          \/ \E e \in {kind, "gap"} : QueueAfter(r, kind) = QueuePush(queue[s].events, e)
      BY <2>7 DEF QueueAfter
    <3>3. QED
      BY <2>2, <2>7, <3>1, <3>2
  <2>8. QED
    BY <2>6, <2>7
<1>3. QED
  BY <1>1, <1>2 DEF Deliver

LEMMA DeliverRooms ==
    ASSUME LogStepping, disk' = disk, nextThread' = nextThread, RoutesKept,
           NEW h \in Threads, NEW kind \in Notification, Deliver(h, kind),
           \A x \in Threads : x # h => server'[x].sent = server[x].sent,
           \/ /\ server'[h].sent = server[h].sent + 1 /\ kind \in Change
              /\ server[h].sent = 0 => kind = "running"
           \/ /\ server'[h].sent = server[h].sent /\ kind \notin Change /\ server[h].sent >= 1
    PROVE  RoomsKept
<1> SUFFICES ASSUME NEW s, NEW x, NEW k, LogRoom(s, x, k) PROVE LogRoom(s, x, k)'
  BY DEF RoomsKept
<1>1. ComesFrom(s, x) /\ s \in Streams /\ x \in Threads
  BY DEF LogRoom, ComesFrom
<1>2. nextThread <= nextThread'
  BY LogSteppingParts
<1>3. ComesFrom(s, x)' /\ server'[x].key = k
  BY <1>1, <1>2, ComesFromStays, LogSteppingParts DEF TurnsGrow, LogRoom, ComesFrom
<1>4. ASSUME Active(k) PROVE HasRoom(queue'[s].events, Lookup(disk, k), server'[x].sent)
  <2>1. PICK t : t = Lookup(disk, k)
    OBVIOUS
  <2>2. PICK q : q = queue[s].events
    OBVIOUS
  <2>3. PICK n : n = server[x].sent
    OBVIOUS
  <2>4. HasRoom(q, t, n)
    BY <1>4, <2>1, <2>2, <2>3 DEF LogRoom
  <2>5. q \in Seq(RunEvent) /\ n \in Nat
    BY <1>1, <2>2, <2>3, LogSteppingParts DEF SideTyped, RouterTypeOK, EventQueue, Turn
  <2>6. t.events \in Nat
    BY <1>4, <2>1, StoredEvents, LogSteppingParts DEF Active
  <2>7. \/ queue'[s].events = q
        \/ x = h /\ \E e \in {kind, "gap"} : queue'[s].events = QueuePush(q, e)
    BY <1>1, <2>2, DeliveredQueue, LogSteppingParts DEF ComesFrom
  <2>8. CASE x # h
    BY <1>1, <2>1, <2>3, <2>4, <2>7, <2>8
  <2>9. CASE x = h /\ server'[h].sent = n
    <3>1. CASE queue'[s].events = q
      BY <2>1, <2>4, <2>9, <3>1
    <3>2. CASE \E e \in {kind, "gap"} : queue'[s].events = QueuePush(q, e)
      <4>1. PICK e \in {kind, "gap"} : queue'[s].events = QueuePush(q, e)
        BY <3>2
      <4>2. n >= 1 /\ kind \notin Change
        BY <2>3, <2>5, <2>9
      <4>3. e \in RunEvent /\ e \notin Change
        BY <4>1, <4>2 DEF RunEvent, Change
      <4>4. HasRoom(QueuePush(q, e), t, n)
        BY <2>4, <2>5, <2>6, <4>2, <4>3, RoomEnds
      <4>5. QED
        BY <2>1, <2>9, <4>1, <4>4
    <3>3. QED
      BY <2>7, <3>1, <3>2
  <2>10. CASE x = h /\ server'[h].sent = n + 1 /\ kind \in Change /\ (n = 0 => kind = "running")
    <3>1. CASE queue'[s].events = q
      BY <2>1, <2>4, <2>5, <2>6, <2>10, <3>1, RoomSent
    <3>2. CASE \E e \in {kind, "gap"} : queue'[s].events = QueuePush(q, e)
      <4>1. PICK e \in {kind, "gap"} : queue'[s].events = QueuePush(q, e)
        BY <3>2
      <4>2. e \in {"running", "waitingApproval", "gap"} /\ (n = 0 => e \in {"running", "gap"})
        BY <2>10, <4>1 DEF Change
      <4>3. HasRoom(QueuePush(q, e), t, n + 1)
        BY <2>4, <2>5, <2>6, <4>2, RoomPushed
      <4>4. QED
        BY <2>1, <2>10, <4>1, <4>3
    <3>3. QED
      BY <2>7, <3>1, <3>2
  <2>11. QED
    BY <2>3, <2>8, <2>9, <2>10
<1>5. QED
  BY <1>3, <1>4 DEF LogRoom, HasRoom, Unread, Changes, ChangesAt, Lookup, Position, Active, Has

LEMMA TurnStepLogs ==
    ASSUME LogStepping, NEW h \in Threads,
           \/ TurnStarts(h)
           \/ \E kind \in {"running", "waitingApproval"} : TurnNotifies(h, kind)
           \/ \E kind \in TerminalEvent : TurnEnds(h, kind)
    PROVE  LogInv'
<1>1. disk' = disk /\ UNCHANGED <<call, worker, nextThread>>
  BY DEF TurnStarts, TurnNotifies, TurnEnds, serviceVars
<1>2. NoNewActive /\ (\A c \in Callers : CallFollows(c)) /\ \A k \in Keys : WorkerFollows(k)
  BY <1>1, QuietWrites, LogSteppingParts, SteppingParts DEF CallFollows, WorkerFollows
<1>3. server[h] \in Turn /\ server[h].sent \in Nat /\ SentGood(h)
  BY LogSteppingParts DEF SideTyped, Turn, LogInv
<1>4. PICK n : n = server[h].sent
  OBVIOUS
<1>5. ASSUME NEW kind \in Notification, Deliver(h, kind),
             NEW t, server' = [server EXCEPT ![h] = t],
             \/ t.sent = n + 1 /\ kind \in Change /\ (n = 0 => kind = "running")
             \/ t.sent = n /\ kind \notin Change /\ n >= 1,
             kind \in TerminalEvent => t.phase = "over" /\ t.end = kind,
             t.sent <= 1 \/ t.sent <= MaxNotifications, t.phase \in {"running", "over"}, t.sent >= 1
      PROVE  LogInv'
  <2>1. server'[h] = t /\ \A x \in Threads : x # h => server'[x] = server[x]
    BY <1>5, LogSteppingParts DEF SideTyped
  <2>2. RoutesKept
    BY <1>5, <2>1, DeliverCalm, LogSteppingParts DEF RouterCalm, RoutesKept
  <2>3. RoomsKept
    BY <1>1, <1>4, <1>5, <2>1, <2>2, DeliverRooms
  <2>4. ASSUME NEW x \in Threads PROVE SentGood(x)'
    <3>1. CASE x = h
      BY <1>5, <2>1, <3>1 DEF SentGood
    <3>2. CASE x # h
      BY <2>1, <3>2, LogSteppingParts DEF SentGood, LogInv
    <3>3. QED
      BY <3>1, <3>2
  <2>5. QED
    BY <1>2, <2>3, <2>4, QuietLog
<1>6. CASE TurnStarts(h)
  <2> DEFINE m == n + 1
             t == [server[h] EXCEPT !.phase = "running", !.sent = m]
  <2>1. server' = [server EXCEPT ![h] = t] /\ Deliver(h, "running") /\ server[h].phase = "accepted"
    BY <1>4, <1>6 DEF TurnStarts
  <2>2. n = 0
    BY <1>3, <1>4, <2>1 DEF SentGood
  <2>3. t.phase = "running" /\ t.sent = m
    BY <1>3 DEF Turn
  <2>4. m = n + 1 /\ m <= 1 /\ m >= 1
    BY <2>2
  <2>5. "running" \in Notification /\ "running" \notin TerminalEvent /\ "running" \in Change
    BY DEF Notification, TerminalEvent, Change
  <2> HIDE DEF t, m
  <2>6. QED
    BY <1>5, <2>1, <2>2, <2>3, <2>4, <2>5
<1>7. ASSUME NEW kind \in {"running", "waitingApproval"}, TurnNotifies(h, kind) PROVE LogInv'
  <2> DEFINE m == n + 1
             t == [server[h] EXCEPT !.sent = m]
  <2>1. /\ server' = [server EXCEPT ![h] = t] /\ Deliver(h, kind) /\ server[h].phase = "running"
        /\ n < MaxNotifications
    BY <1>4, <1>7 DEF TurnNotifies
  <2>2. n >= 1 /\ n \in Nat
    BY <1>3, <1>4, <2>1 DEF SentGood
  <2>3. t.phase = "running" /\ t.sent = m
    BY <1>3, <2>1 DEF Turn
  <2>4. m = n + 1 /\ m <= MaxNotifications /\ m >= 1 /\ n # 0
    BY <2>1, <2>2, TaskRunAssumption
  <2>5. kind \in Notification /\ kind \notin TerminalEvent /\ kind \in Change
    BY DEF Notification, TerminalEvent, Change
  <2> HIDE DEF t, m
  <2>6. QED
    BY <1>5, <2>1, <2>3, <2>4, <2>5
<1>8. ASSUME NEW kind \in TerminalEvent, TurnEnds(h, kind) PROVE LogInv'
  <2> DEFINE t == [server[h] EXCEPT !.phase = "over", !.end = kind]
  <2>1. server' = [server EXCEPT ![h] = t] /\ Deliver(h, kind) /\ server[h].phase = "running"
    BY <1>8 DEF TurnEnds
  <2>2. n >= 1 /\ (n <= 1 \/ n <= MaxNotifications)
    BY <1>3, <1>4, <2>1 DEF SentGood
  <2>3. t.phase = "over" /\ t.sent = n /\ t.end = kind
    BY <1>3, <1>4 DEF Turn
  <2>4. kind \in Notification /\ kind \notin Change
    BY DEF Notification, TerminalEvent, Change
  <2> HIDE DEF t
  <2>5. QED
    BY <1>5, <2>1, <2>2, <2>3, <2>4
<1>9. QED
  BY <1>6, <1>7, <1>8

-----------------------------------------------------------------------------
(***************************************************************************)
(* The connection, the life of the process, and the theorem.               *)
(***************************************************************************)
LEMMA GoneSent ==
    ASSUME LogStepping, ServerGone, nextThread' = nextThread
    PROVE  SentKept /\ \A h \in Threads : SentGood(h)'
<1>1. \A x \in Threads : /\ [server[x] EXCEPT !.phase = "lost"].phase = "lost"
                         /\ [server[x] EXCEPT !.phase = "lost"].sent = server[x].sent
  BY LogSteppingParts DEF SideTyped, Turn
<1>2. \A x \in Threads : /\ server'[x].sent = server[x].sent
                         /\ server'[x].phase \in {server[x].phase, "lost"}
  BY <1>1 DEF ServerGone
<1>3. nextThread <= nextThread'
  BY LogSteppingParts
<1>4. QED
  BY <1>2, <1>3, LogSteppingParts DEF SentKept, SentGood, LogInv

LEMMA ConnectionLogs ==
    ASSUME LogStepping, Disconnect \/ Connect \/ Startup \/ UNCHANGED vars
    PROVE  LogInv'
<1>1. UNCHANGED <<call, worker, nextThread>>
  BY DEF Disconnect, Connect, Startup, vars, runVars
<1>2. (\A c \in Callers : CallFollows(c)) /\ \A k \in Keys : WorkerFollows(k)
  BY <1>1 DEF CallFollows, WorkerFollows
<1>3. NoNewActive
  <2>1. disk' = disk \/ Open
    BY DEF Disconnect, Connect, Startup, vars, serviceVars
  <2>2. QED
    BY <2>1, QuietWrites, LogSteppingParts, SteppingParts
<1>4. RoutesKept /\ QueuesShrink
  <2>1. UNCHANGED routerVars \/ DeactivateAll
    BY DEF Disconnect, Connect, Startup, vars
  <2>2. QED
    BY <2>1, RouterSameShrinks, DeactivateShrinks, LogSteppingParts
<1>5. SentKept /\ \A h \in Threads : SentGood(h)'
  <2>1. server' = server \/ ServerGone
    BY DEF Disconnect, Connect, Startup, vars, runVars
  <2>2. QED
    BY <1>1, <2>1, SameSent, GoneSent
<1>6. QED
  BY <1>2, <1>3, <1>4, <1>5, CalmRooms, QuietLog

LEMMA CrashLogs == ASSUME LogStepping, Crash PROVE LogInv'
<1>1. disk' = disk /\ nextThread' = nextThread
  BY DEF Crash, Close
<1>2. (\A c \in Callers : call'[c].pc = "idle") /\ \A k \in Keys : worker'[k].pc = "none"
  BY DEF Crash, Idle, NoWorker
<1>3. \A c \in Callers : CommandLog(call[c])'
  BY <1>2, OutsideLog DEF PreTurn, Reading
<1>4. \A k \in Keys : WorkerLog(k, worker[k])'
  BY <1>2, OutsideWorkerLog
<1>5. \A h \in Threads : SentGood(h)'
  BY <1>1, GoneSent DEF Crash
<1>6. RoomsToEnd'
  <2>1. NoNewActive
    BY <1>1, FileKept DEF NoNewActive
  <2>2. PICK t : t.run \notin ActiveRun /\ RoomToEnd(t)'
    <3>1. [run |-> "none"].run \notin ActiveRun
      BY DEF ActiveRun
    <3>2. QED
      BY <3>1 DEF RoomToEnd
  <2>3. QED
    BY <2>1, <2>2, RoomsToEndStay DEF NoNewActive
<1>7. QED
  BY <1>3, <1>4, <1>5, <1>6, LogParts, LogSteppingParts

LEMMA LogInit == Init => LogInv
<1> SUFFICES ASSUME Init PROVE LogInv
  OBVIOUS
<1>1. \A h \in Threads : server[h] = NoThread /\ server[h].sent = 0 /\ server[h].phase = "none"
  BY DEF Init, NoThread
<1>2. (\A c \in Callers : call[c].pc = "idle") /\ \A k \in Keys : worker[k].pc = "none"
  BY DEF Init, Idle, NoWorker
<1>3. DOMAIN disk = {}
  BY EmptyDomain DEF Init, ServiceInit
<1>4. \A h \in Threads : SentGood(h)
  BY <1>1 DEF SentGood
<1>5. (\A c \in Callers : CommandLog(call[c])) /\ \A k \in Keys : WorkerLog(k, worker[k])
  BY <1>2 DEF CommandLog, WorkerLog, PreTurn, Reading
<1>6. QED
  BY <1>3, <1>4, <1>5 DEF LogInv

\* Only thread/start makes a thread, and it makes one that did not exist.
LEMMA TurnsOnlyGrow == ASSUME Stepping, [Next]_vars PROVE TurnsGrow
<1> SUFFICES ASSUME NEW h \in Threads, h < nextThread
             PROVE  server'[h].key = server[h].key /\ server[h].sent <= server'[h].sent
  BY DEF TurnsGrow
<1>1. server \in [Threads -> Turn] /\ server[h].sent \in Nat /\ h # nextThread
  BY SteppingParts, StreamsAreNumbers DEF SideTyped, Turn
<1>2. CASE server' = server
  BY <1>1, <1>2
<1>3. ASSUME NEW x, NEW r \in Turn, server' = [server EXCEPT ![x] = r],
             r.key = server[x].key, server[x].sent <= r.sent
      PROVE  server'[h].key = server[h].key /\ server[h].sent <= server'[h].sent
  BY <1>1, <1>3
<1>4. CASE \E c \in Callers : ThreadStart(c)
  BY <1>1, <1>4 DEF ThreadStart
<1>5. ASSUME NEW c \in Callers, TurnStart(c)
      PROVE  server'[h].key = server[h].key /\ server[h].sent <= server'[h].sent
  BY <1>1, <1>5 DEF TurnStart, SendTurn, Turn
<1>6. ASSUME NEW x \in Threads,
             \/ TurnStarts(x)
             \/ \E kind \in {"running", "waitingApproval"} : TurnNotifies(x, kind)
             \/ \E kind \in TerminalEvent : TurnEnds(x, kind)
      PROVE  server'[h].key = server[h].key /\ server[h].sent <= server'[h].sent
  BY <1>1, <1>6 DEF TurnStarts, TurnNotifies, TurnEnds, Turn
<1>7. CASE ServerGone
  BY <1>1, <1>7 DEF ServerGone, Turn
<1>8. ASSUME NEW c \in Callers, NEW k \in Keys, NEW p \in Projects, StartCommand(c, k, p)
      PROVE  server' = server
  BY <1>8 DEF StartCommand
<1>9. ASSUME NEW c \in Callers, StartStep(c), ~ThreadStart(c), ~TurnStart(c)
      PROVE  server' = server
  BY <1>9 DEF StartStep, Create, Accept, Register, Capacity, Check, Worktree, BeginRunStep, Prepare,
              Await, Bind, Spawn, CollectStart, FinalizeStart, CleanupStart
<1>10. ASSUME NEW k \in Keys, Stop(k) \/ WorkerStep(k)
       PROVE  server' = server
  BY <1>10 DEF Stop, WorkerStep, Interrupt, Poll, CheckActive, Collect, Finalize, CleanupRun, Abandon, Remove
<1>11. CASE Startup \/ Connect \/ UNCHANGED vars
  BY <1>2, <1>11 DEF Startup, Connect, vars, runVars
<1>12. CASE Crash \/ Disconnect
  BY <1>7, <1>12 DEF Crash, Disconnect
<1>13. QED
  BY <1>2, <1>4, <1>5, <1>6, <1>8, <1>9, <1>10, <1>11, <1>12 DEF Next

LEMMA LogSteppingHolds ==
    ASSUME HoldInv, LogInv, [Next]_vars
    PROVE  LogStepping
<1>1. Stepping /\ HoldInv'
  BY RunStep, HoldStep DEF Stepping, HoldInv
<1>2. LogsEarly'
  <2>1. ServiceInv /\ [ServiceNext]_serviceVars /\ LogsEarly
    BY <1>1, SteppingParts DEF ServiceQuiet, LogInv, LogsEarly
  <2>2. GoodStep
    BY <2>1, NextStep
  <2>3. QED
    BY <2>1, <2>2, LogsStayEarly
<1>3. QED
  BY <1>1, <1>2, TurnsOnlyGrow DEF LogStepping

LEMMA LogStep == HoldInv /\ LogInv /\ [Next]_vars => LogInv'
<1> SUFFICES ASSUME HoldInv, LogInv, [Next]_vars PROVE LogInv'
  OBVIOUS
<1>3. LogStepping
  BY LogSteppingHolds
<1>4. ASSUME NEW c \in Callers,
             StartStep(c) \/ \E k \in Keys, p \in Projects : StartCommand(c, k, p)
      PROVE  LogInv'
  BY <1>3, <1>4, StartStepLogs
<1>5. ASSUME NEW k \in Keys, Stop(k) \/ WorkerStep(k) PROVE LogInv'
  BY <1>3, <1>5, WorkerStepLogs
<1>6. ASSUME NEW h \in Threads,
             \/ TurnStarts(h)
             \/ \E kind \in {"running", "waitingApproval"} : TurnNotifies(h, kind)
             \/ \E kind \in TerminalEvent : TurnEnds(h, kind)
      PROVE  LogInv'
  BY <1>3, <1>6, TurnStepLogs
<1>7. CASE Startup \/ Crash \/ Connect \/ Disconnect \/ UNCHANGED vars
  BY <1>3, <1>7, CrashLogs, ConnectionLogs
<1>8. QED
  BY <1>4, <1>5, <1>6, <1>7 DEF Next

(***************************************************************************)
(* The records a crash leaves can be reconciled.  Whatever the commands,   *)
(* the workers and earlier crashes did, and however small the event log    *)
(* (from seven events on), the log of an interrupted run has room for the  *)
(* two events of its end unless the App Server itself sent more than       *)
(* MaxEvents - 6 notifications of a turn of it.                            *)
(***************************************************************************)
THEOREM AlwaysRestartable == Spec => []Restartable
<1>1. HoldInv /\ LogInv => Restartable
  <2> SUFFICES ASSUME HoldInv, LogInv PROVE Restartable
    OBVIOUS
  <2>1. TypeOK /\ ServiceInv
    BY DEF HoldInv, RunInv, RunTyped, ServiceInv, SideTyped, TypeOK
  <2>2. ASSUME NEW i \in DOMAIN disk, IsRefused(Reconciled(disk[i])) PROVE Overlong(disk[i].key)
    <3>1. TaskOK(disk[i])
      BY <2>1 DEF ServiceInv
    <3>2. CASE disk[i].run \in ActiveRun
      BY <2>2, <3>1, <3>2, ReconciledOrFull DEF LogInv, RoomToEnd
    <3>3. CASE disk[i].run \notin ActiveRun
      <4>1. disk[i].status # "running" /\ disk[i] \in StoredTask
        BY <3>1, <3>3 DEF TaskOK, StatusesAgree, StoredTask, RunStatus, ActiveRun
      <4>2. QED
        BY <2>2, <4>1 DEF Reconciled, IsRefused, StoredTask, TaskStatus
    <3>4. QED
      BY <3>2, <3>3
  <2>3. QED
    BY <2>1, <2>2 DEF Restartable, StartupPossible
<1>2. HoldInv /\ LogInv /\ [Next]_vars => HoldInv' /\ LogInv'
  BY HoldStep, LogStep
<1>3. QED
  BY <1>1, <1>2, HoldInit, LogInit, PTL DEF Spec

-----------------------------------------------------------------------------
(***************************************************************************)
(* Who answers for an active run.  A run that a command owns or a worker   *)
(* has in its hands has begun, so begin_run claims only what nobody has;   *)
(* a worker that only cleans up has ended its run; and an active run of a  *)
(* key that was never dropped has an owner.  This needs a disk that works  *)
(* (finish_start_failure gives the run up when git fails, and an update    *)
(* that cannot be saved is lost), a file that stays below its limit, and   *)
(* an event log with room for the end.                                     *)
(***************************************************************************)
DiskWorks == "save" \notin Faults /\ "git" \notin Faults /\ \A list \in TaskList : Fits(list)

\* The log has room for a run with every change that the notifications cause.
LogIsLarge == MaxEvents >= 6 + MaxNotifications

Owns(c, k) == call[c].key = k /\ call[c].pc \in Owning

Leaving == {"cleanup", "remove"}

OwnGood(k) ==
    /\ \A c \in Callers : Owns(c, k) => HasBegun(k)
    /\ worker[k].pc # "none" => HasBegun(k)
    /\ loaded /\ worker[k].pc \in Leaving => ~Active(k)
    /\ loaded /\ Active(k) => Owned(k)

OwnInv == \A k \in Keys \ evicted : OwnGood(k)

OwnStepping == DiskWorks /\ LogIsLarge /\ LogStepping /\ OwnInv

LEMMA OwnSteppingParts ==
    ASSUME OwnStepping
    PROVE  /\ LogStepping /\ Stepping /\ ServiceInv /\ ServiceInv' /\ ServiceQuiet
           /\ RunTyped /\ HoldersGood /\ LogInv /\ ~SaveFails /\ ~GitFails
           /\ \A k \in Keys \ evicted' : k \in Keys \ evicted /\ OwnGood(k)
<1>1. LogStepping /\ ~SaveFails /\ ~GitFails
  BY DEF OwnStepping, DiskWorks, SaveFails, GitFails
<1>2. Stepping /\ LogInv
  BY <1>1, LogSteppingParts
<1>3. evicted \subseteq evicted'
  BY <1>2, SteppingParts
<1>4. \A k \in Keys \ evicted' : k \in Keys \ evicted /\ OwnGood(k)
  BY <1>3 DEF OwnStepping, OwnInv
<1>5. QED
  BY <1>1, <1>2, <1>4, SteppingParts

\* A run that has ended is not active again.
LEMMA EndedForGood ==
    ASSUME Stepping, NEW k \in Keys \ evicted', HasBegun(k), ~Active(k)
    PROVE  ~Active(k)'
<1>1. Has(disk, k) /\ TaskOK(Lookup(disk, k))
  BY StoredEvents, SteppingParts DEF HasBegun
<1>2. Lookup(disk, k).run \in TerminalRun
  BY <1>1 DEF HasBegun, Active, TaskOK, StoredTask, RunStatus, ActiveRun, TerminalRun
<1>3. Lookup(disk', k) = Lookup(disk, k)
  BY <1>1, <1>2, TerminalStays, SteppingParts
<1>4. QED
  BY <1>2, <1>3, ActiveNext DEF TerminalRun, ActiveRun

LEMMA WasActive ==
    ASSUME NEW k, RecordKept(k), Active(k)'
    PROVE  Active(k)
BY ActiveNext DEF RecordKept, Active

\* What a step has to show of a key.
LEMMA OwnStays ==
    ASSUME Stepping, NEW k \in Keys \ evicted', OwnGood(k),
           \A c \in Callers : Owns(c, k)' => HasBegun(k) \/ HasBegun(k)',
           worker'[k].pc # "none" => HasBegun(k) \/ HasBegun(k)',
           loaded' /\ worker'[k].pc \in Leaving => (loaded /\ worker[k].pc \in Leaving) \/ ~Active(k)',
           loaded' /\ Active(k)' => Owned(k)'
    PROVE  OwnGood(k)'
<1>1. HasBegun(k) => HasBegun(k)'
  BY BegunStays, SteppingParts
<1>2. loaded /\ worker[k].pc \in Leaving => ~Active(k)'
  <2> SUFFICES ASSUME loaded, worker[k].pc \in Leaving PROVE ~Active(k)'
    OBVIOUS
  <2>1. HasBegun(k) /\ ~Active(k)
    BY DEF OwnGood, Leaving
  <2>2. QED
    BY <2>1, EndedForGood
<1>3. QED
  BY <1>1, <1>2 DEF OwnGood

\* A command moves; who owns a run that stays active goes on owning it.
LEMMA OwnCommand ==
    ASSUME OwnStepping, NEW c \in Callers, SameBut(c), worker' = worker, loaded' = loaded,
           NoNewActive, NEW x, x = call[c].key,
           call'[c].pc \in Owning => call[c].pc \in Owning /\ call'[c].key = call[c].key,
           loaded /\ call[c].pc \in Owning /\ x \notin evicted' /\ Active(x) /\ Active(x)' =>
               call'[c].pc \in Owning
    PROVE  OwnInv'
<1> SUFFICES ASSUME NEW k \in Keys \ evicted' PROVE OwnGood(k)'
  BY DEF OwnInv
<1>1. OwnGood(k) /\ Stepping
  BY OwnSteppingParts
<1>2. \A d \in Callers : Owns(d, k)' => Owns(d, k)
  BY DEF SameBut, Owns
<1>3. \A d \in Callers : Owns(d, k)' => HasBegun(k)
  BY <1>1, <1>2 DEF OwnGood
<1>4. worker'[k].pc # "none" => HasBegun(k)
  BY <1>1 DEF OwnGood
<1>5. ASSUME loaded', Active(k)' PROVE Owned(k)'
  <2>1. RecordKept(k)
    BY ActivesKept, OwnSteppingParts
  <2>2. Active(k) /\ loaded
    BY <1>5, <2>1, WasActive
  <2>3. Owned(k)
    BY <1>1, <2>2 DEF OwnGood
  <2>4. CASE worker[k].pc \in {"loop", "check", "collect", "finalize", "abandon"}
    BY <2>4 DEF Owned
  <2>5. ASSUME NEW d \in Callers, Owns(d, k) PROVE Owned(k)'
    <3>1. call'[d].key = k /\ call'[d].pc \in Owning
      <4>1. CASE d # c
        BY <2>5, <4>1 DEF SameBut, Owns
      <4>2. CASE d = c
        <5>1. x = k /\ call[c].pc \in Owning
          BY <2>5, <4>2 DEF Owns
        <5>2. Active(x) /\ Active(x)'
          BY <1>5, <2>2, <5>1
        <5>3. call'[c].pc \in Owning /\ call'[c].key = x
          BY <2>2, <5>1, <5>2
        <5>4. QED
          BY <4>2, <5>1, <5>3
      <4>3. QED
        BY <4>1, <4>2
    <3>2. QED
      BY <3>1 DEF Owned
  <2>6. QED
    BY <2>3, <2>4, <2>5 DEF Owned, Owns
<1>6. QED
  BY <1>1, <1>3, <1>4, <1>5, OwnStays

\* A worker moves; nobody else does.
LEMMA OwnWorker ==
    ASSUME OwnStepping, NEW k \in Keys, call' = call, WorkerOthers(k), loaded' = loaded,
           \A x \in Keys : x # k => RecordKept(x),
           worker'[k].pc # "none" => worker[k].pc # "none",
           loaded /\ k \notin evicted' /\ worker'[k].pc \in Leaving =>
               worker[k].pc \in Leaving \/ ~Active(k)',
           /\ loaded /\ k \notin evicted' /\ Active(k)'
           => \/ worker'[k].pc \in {"loop", "check", "collect", "finalize", "abandon"}
              \/ RecordKept(k) /\ worker[k].pc \in Leaving
    PROVE  OwnInv'
<1> SUFFICES ASSUME NEW x \in Keys \ evicted' PROVE OwnGood(x)'
  BY DEF OwnInv
<1>1. OwnGood(x) /\ Stepping
  BY OwnSteppingParts
<1>2. \A d \in Callers : Owns(d, x)' => HasBegun(x)
  BY <1>1 DEF Owns, OwnGood
<1>3. worker'[x].pc # "none" => HasBegun(x)
  BY <1>1 DEF OwnGood, WorkerOthers
<1>4. CASE x # k
  <2>1. worker'[x] = worker[x]
    BY <1>4 DEF WorkerOthers
  <2>2. loaded' /\ Active(x)' => Owned(x)
    BY <1>1, <1>4, WasActive DEF OwnGood
  <2>3. Owned(x) => Owned(x)'
    BY <2>1 DEF Owned
  <2>4. QED
    BY <1>1, <1>2, <1>3, <2>1, <2>2, <2>3, OwnStays
<1>5. CASE x = k
  <2>1. k \in Keys \ evicted' /\ OwnGood(k)
    BY <1>1, <1>5
  <2>2. (\A d \in Callers : Owns(d, k)' => HasBegun(k)) /\ (worker'[k].pc # "none" => HasBegun(k))
    BY <1>2, <1>3, <1>5
  <2>3. ASSUME loaded', Active(k)' PROVE Owned(k)'
    <3>1. CASE RecordKept(k) /\ worker[k].pc \in Leaving
      BY <2>1, <2>3, <3>1, WasActive DEF OwnGood
    <3>2. CASE worker'[k].pc \in {"loop", "check", "collect", "finalize", "abandon"}
      BY <3>2 DEF Owned
    <3>3. QED
      BY <2>1, <2>3, <3>1, <3>2
  <2>4. OwnGood(k)'
    BY <1>1, <2>1, <2>2, <2>3, OwnStays
  <2>5. QED
    BY <1>5, <2>4
<1>6. QED
  BY <1>4, <1>5

-----------------------------------------------------------------------------
(***************************************************************************)
(* An active run with room in its log can be ended.                        *)
(***************************************************************************)
LEMMA FinalizedOrFull ==
    ASSUME NEW t, TaskOK(t), t.run \in ActiveRun, t.events + 2 <= MaxEvents,
           NEW outcome \in ReceiptOutcome
    PROVE  ~IsRefused(Finalized(t, outcome))
<1> DEFINE r == RunStatusFor(outcome)
           u == MoveRun(t, r)
           v == AttachReceipt(u, outcome)
<1>1. /\ t \in StoredTask /\ t.status = "running" /\ t.receipt = "none"
      /\ t.events \in Nat /\ t.events < MaxEvents /\ t.events + 1 < MaxEvents
  BY MaxEventsAssumption, OutcomeTables
     DEF TaskOK, StatusesAgree, ReceiptAgrees, StoredTask, ActiveRun, TerminalRun
<1>2. r \in TerminalRun /\ valid_task_transition("running", TaskStatusFor(outcome))
  BY DEF RunStatusFor, TaskStatusFor, ReceiptOutcome, TerminalRun, valid_task_transition
<1>3. u = [t EXCEPT !.run = r, !.events = @ + 1]
  BY <1>1, <1>2 DEF MoveRun, valid_run_transition, HasEventCapacity, ActiveRun
<1>4. u.run = r /\ u.receipt = "none" /\ u.status = "running" /\ u.events = t.events + 1
  BY <1>1, <1>3 DEF StoredTask
<1>4a. u = [key |-> t.key, project |-> t.project, status |-> t.status, run |-> r,
            receipt |-> t.receipt, events |-> t.events + 1]
  BY <1>1, <1>3 DEF StoredTask
<1>5. v = [u EXCEPT !.receipt = outcome]
  BY <1>4 DEF AttachReceipt
<1>6. v.status = "running" /\ v.events = t.events + 1
      /\ v = [key |-> t.key, project |-> t.project, status |-> t.status, run |-> r,
            receipt |-> outcome, events |-> t.events + 1]
  BY <1>1, <1>4, <1>4a, <1>5
<1>7. Finalized(t, outcome) = Transition(v, TaskStatusFor(outcome))
  BY DEF Finalized
<1> HIDE DEF v
<1>8. Transition(v, TaskStatusFor(outcome)) = [v EXCEPT !.status = TaskStatusFor(outcome), !.events = @ + 1]
  BY <1>1, <1>2, <1>6 DEF Transition, HasEventCapacity
<1>9. Transition(v, TaskStatusFor(outcome)).status = TaskStatusFor(outcome)
  BY <1>6, <1>8
<1>10. TaskStatusFor(outcome) # "refused"
  BY DEF TaskStatusFor, ReceiptOutcome
<1>11. QED
  BY <1>7, <1>9, <1>10 DEF IsRefused

LEMMA AbandonedOrFull ==
    ASSUME NEW t, TaskOK(t), t.run \in ActiveRun, t.events + 2 <= MaxEvents
    PROVE  ~IsRefused(Abandoned(t))
<1>1. t.status = "running"
  BY DEF TaskOK, StatusesAgree
<1>2. QED
  BY <1>1, ReconciledOrFull DEF Reconciled

\* The record of an active run, as the store reads it.
LEMMA ActiveRecord ==
    ASSUME OwnStepping, loaded, NEW k, Active(k)
    PROVE  /\ Stored(k) /\ TaskOK(TaskOf(k)) /\ TaskOf(k).run \in ActiveRun
           /\ TaskOf(k).events + 2 <= MaxEvents /\ TaskOf(k).receipt = "none"
<1>1. cache = disk /\ Has(disk, k)
  BY OwnSteppingParts DEF ServiceInv, Active
<1>2. Stored(k) /\ TaskOf(k) = Lookup(disk, k)
  BY <1>1 DEF Stored, TaskOf
<1>3. PICK i \in DOMAIN disk : disk[i] = Lookup(disk, k)
  BY <1>1, LookupStored, OwnSteppingParts
<1>4. TaskOK(disk[i]) /\ RoomToEnd(disk[i]) /\ disk[i].run \in ActiveRun
  BY <1>3, OwnSteppingParts DEF ServiceInv, LogInv, Active
<1>5. disk[i].events + 2 <= MaxEvents
  <2>1. ASSUME NEW h \in Threads PROVE ~(server[h].sent + 6 > MaxEvents)
    <3>1. SentGood(h) /\ server[h].sent \in Nat /\ LogIsLarge
      BY OwnSteppingParts, LogSteppingParts DEF LogInv, SideTyped, Turn, OwnStepping
    <3>2. MaxEvents \in Nat /\ MaxEvents >= 7 /\ MaxNotifications \in Nat
      BY MaxEventsAssumption, TaskRunAssumption
    <3>3. QED
      BY <3>1, <3>2 DEF SentGood, LogIsLarge
  <2>2. QED
    BY <1>4, <2>1 DEF RoomToEnd, Overlong
<1>6. disk[i].receipt = "none"
  BY <1>4, OutcomeTables DEF TaskOK, ReceiptAgrees, StoredTask, ActiveRun, TerminalRun
<1>7. QED
  BY <1>2, <1>3, <1>4, <1>5, <1>6

\* With a file below its limit only the state machine refuses an update.
LEMMA UpdateSucceeds ==
    ASSUME OwnStepping, loaded, NEW k, Stored(k), NEW t, ~IsRefused(t), Advances(TaskOf(k), t)
    PROVE  ~UpdateFails(k, t)
<1> DEFINE p == Position(cache, k)
<1>1. cache \in Seq(StoredTask) /\ Len(cache) <= MaxStoredTasks
  BY OwnSteppingParts DEF ServiceInv, ServiceTypeOK, TaskList
<1>2. DOMAIN cache = 1..Len(cache) /\ Len(cache) \in Nat
  BY <1>1, LenProperties
<1>3. p \in 1..Len(cache)
  BY <1>2, PositionFound DEF Stored
<1>4. t \in StoredTask
  BY DEF Advances, TaskOK
<1> HIDE DEF p
<1>5. /\ [cache EXCEPT ![p] = t] \in Seq(StoredTask)
      /\ Len([cache EXCEPT ![p] = t]) = Len(cache)
  BY <1>1, <1>3, <1>4, ExceptSeq
<1>6. Replaced(k, t) \in TaskList
  BY <1>1, <1>5 DEF Replaced, TaskList, p
<1>7. QED
  BY <1>6, OwnSteppingParts DEF UpdateFails, OwnStepping, DiskWorks

\* finalize_run ends the run, or finds it ended.
LEMMA FinalizeEnds ==
    ASSUME OwnStepping, NEW k \in Keys, NEW outcome \in ReceiptOutcome, FinalizeRun(k, outcome)
    PROVE  ~Active(k)'
<1>1. Lookup(disk', k).run = RunStatusFor(outcome)
  BY FinalizeWrites, OwnSteppingParts
<1>2. QED
  BY <1>1, ActiveNext, OutcomeTables DEF TerminalRun, ActiveRun

LEMMA ReceiptEnds ==
    ASSUME OwnStepping, NEW k \in Keys, NEW outcome \in ReceiptOutcome, SameReceipt(k, outcome)
    PROVE  ~Active(k)
<1>1. Has(disk, k) /\ Lookup(disk, k).receipt # "none"
  BY SameReceiptIsThere, OwnSteppingParts DEF ReceiptOutcome
<1>2. Lookup(disk, k).run \in TerminalRun
  BY <1>1, ReceiptMeansEnded, OwnSteppingParts
<1>3. QED
  BY <1>2 DEF Active, TerminalRun, ActiveRun

LEMMA FinalizeFailsOnEnded ==
    ASSUME OwnStepping, loaded, NEW k \in Keys, NEW outcome \in ReceiptOutcome,
           FinalizeFails(k, outcome)
    PROVE  ~Active(k)
<1> SUFFICES ASSUME Active(k) PROVE FALSE
  OBVIOUS
<1>1. Stored(k) /\ TaskOf(k).receipt = "none" /\ ~IsRefused(Finalized(TaskOf(k), outcome))
  BY ActiveRecord, FinalizedOrFull
<1>2. Advances(TaskOf(k), Finalized(TaskOf(k), outcome))
  BY <1>1, ActiveRecord, FinalizedAdvances
<1>3. QED
  BY <1>1, <1>2, UpdateSucceeds DEF FinalizeFails

\* abandon_run does so too.
LEMMA AbandonEnds ==
    ASSUME OwnStepping, loaded, NEW k \in Keys,
           \/ AbandonRun(k)
           \/ (Stored(k) => UpdateFails(k, Abandoned(TaskOf(k)))) /\ UNCHANGED serviceVars
    PROVE  ~Active(k)'
<1>1. CASE AbandonRun(k)
  <2>1. Stored(k) /\ Update(k, Abandoned(TaskOf(k))) /\ ~IsRefused(Abandoned(TaskOf(k)))
    BY <1>1 DEF AbandonRun, Update
  <2>2. Advances(TaskOf(k), Abandoned(TaskOf(k))) /\ Abandoned(TaskOf(k)).run = "outcomeUnknown"
    BY <2>1, StoredOK, AbandonedAdvances, OwnSteppingParts
  <2>3. Lookup(disk', k).run = "outcomeUnknown"
    BY <2>1, <2>2, UpdateWrites, OwnSteppingParts DEF OnlyWrites
  <2>4. QED
    BY <2>3, ActiveNext DEF ActiveRun
<1>2. CASE (Stored(k) => UpdateFails(k, Abandoned(TaskOf(k)))) /\ UNCHANGED serviceVars
  <2>1. ~Active(k)
    <3> SUFFICES ASSUME Active(k) PROVE FALSE
      OBVIOUS
    <3>1. Stored(k) /\ ~IsRefused(Abandoned(TaskOf(k)))
      BY ActiveRecord, AbandonedOrFull
    <3>2. Advances(TaskOf(k), Abandoned(TaskOf(k)))
      BY <3>1, ActiveRecord, AbandonedAdvances
    <3>3. QED
      BY <1>2, <3>1, <3>2, UpdateSucceeds
  <2>2. disk' = disk
    BY <1>2 DEF serviceVars
  <2>3. QED
    BY <2>1, <2>2 DEF Active, Has, Lookup, Position
<1>3. QED
  BY <1>1, <1>2

-----------------------------------------------------------------------------
(***************************************************************************)
(* The steps of a command.                                                 *)
(***************************************************************************)
LEMMA KeptQuiet ==
    ASSUME OwnStepping, UNCHANGED serviceVars
    PROVE  NoNewActive /\ loaded' = loaded /\ disk' = disk
BY QuietWrites, OwnSteppingParts DEF serviceVars

\* Up to begin_run a command owns nothing.
LEMMA StartOwns ==
    ASSUME OwnStepping, NEW c \in Callers,
           \/ Create(c) \/ Accept(c) \/ Register(c) \/ Capacity(c) \/ Check(c) \/ Worktree(c)
           \/ CleanupStart(c)
           \/ \E k \in Keys, p \in Projects : StartCommand(c, k, p)
    PROVE  OwnInv'
<1>1. PICK k \in Keys, p \in Projects : KeyOf(c) = k /\ call[c].key = k /\ call[c].project = p
  BY CallTyped, OwnSteppingParts DEF KeyOf, Call
<1>2. worker' = worker /\ call[c].pc \notin Owning
  BY DEF Create, Accept, Register, Capacity, Check, Worktree, CleanupStart, StartCommand, At, Owning
<1>3. SameBut(c) /\ call'[c].pc \notin Owning
  <2>1. CASE \E x \in Keys, q \in Projects : StartCommand(c, x, q)
    <3>1. PICK x \in Keys, q \in Projects : StartCommand(c, x, q)
      BY <2>1
    <3> DEFINE r == [Idle EXCEPT !.pc = "create", !.key = x, !.project = q, !.connection = connection]
    <3>2. call' = [call EXCEPT ![c] = r] /\ r.pc = "create"
      BY <3>1 DEF StartCommand, Idle
    <3> HIDE DEF r
    <3>3. QED
      BY <3>2, OwnSteppingParts DEF RunTyped, SameBut, Owning
  <2>2. CASE \/ Return(c)
             \/ \E pc \in {"accept", "register", "capacity", "check", "worktree", "begin"} : Goto(c, pc)
    BY <2>2, GotoMoves, ReturnMoves, OwnSteppingParts DEF Owning
  <2>3. QED
    BY <2>1, <2>2 DEF Create, Accept, Register, Capacity, Check, Worktree, CleanupStart
<1>4. CASE UNCHANGED serviceVars
  BY <1>1, <1>2, <1>3, <1>4, KeptQuiet, OwnCommand
<1>5. CASE CreateTask(k, p) \/ AcceptTask(k, p) \/ RegisterRun(k, p)
  <2>1. NoNewActive
    BY <1>5, QuietWrites, OwnSteppingParts
  <2>2. loaded' = loaded
    BY <1>5 DEF CreateTask, AcceptTask, RegisterRun, Update, Save
  <2>3. QED
    BY <1>1, <1>2, <1>3, <2>1, <2>2, OwnCommand
<1>6. QED
  BY <1>1, <1>4, <1>5
     DEF Create, Accept, Register, Capacity, Check, Worktree, CleanupStart, StartCommand

\* From begin_run to spawn_active the command goes on owning its run.
LEMMA OwnerGoesOn ==
    ASSUME OwnStepping, NEW c \in Callers,
           \/ ThreadStart(c) \/ Prepare(c) \/ TurnStart(c) \/ Await(c) \/ Bind(c) \/ CollectStart(c)
    PROVE  OwnInv'
<1>1. /\ worker' = worker /\ UNCHANGED serviceVars /\ call[c].pc \in Owning
  BY DEF ThreadStart, Prepare, TurnStart, Await, Bind, CollectStart, At, Owning
<1>2. call[c] \in Call
  BY CallTyped, OwnSteppingParts
<1>3. SameBut(c) /\ call'[c].pc \in Owning /\ call'[c].key = call[c].key
  <2>1. ASSUME NEW pc \in {"await", "bind", "spawn", "finalize"}, Goto(c, pc)
        PROVE  SameBut(c) /\ call'[c].pc \in Owning /\ call'[c].key = call[c].key
    BY <2>1, GotoMoves, OwnSteppingParts DEF Owning
  <2>2. ASSUME NEW o, FinishStart(c, o)
        PROVE  SameBut(c) /\ call'[c].pc \in Owning /\ call'[c].key = call[c].key
    BY <2>2, FinishStartMoves, OwnSteppingParts DEF Owning
  <2>3. CASE call' = [call EXCEPT ![c].pc = "prepare", ![c].thread = nextThread]
    <3> DEFINE r == [call[c] EXCEPT !.pc = "prepare", !.thread = nextThread]
    <3>1. r.pc = "prepare" /\ r.key = call[c].key /\ call' = [call EXCEPT ![c] = r]
      BY <1>2, <2>3 DEF Call
    <3> HIDE DEF r
    <3>2. QED
      BY <3>1, OwnSteppingParts DEF RunTyped, SameBut, Owning
  <2>4. CASE call' = [call EXCEPT ![c].pc = "turn", ![c].stream = nextRoute]
    <3> DEFINE r == [call[c] EXCEPT !.pc = "turn", !.stream = nextRoute]
    <3>1. r.pc = "turn" /\ r.key = call[c].key /\ call' = [call EXCEPT ![c] = r]
      BY <1>2, <2>4 DEF Call
    <3> HIDE DEF r
    <3>2. QED
      BY <3>1, OwnSteppingParts DEF RunTyped, SameBut, Owning
  <2>5. CASE ThreadStart(c)
    BY <2>2, <2>3, <2>5 DEF ThreadStart
  <2>6. CASE Prepare(c)
    BY <2>2, <2>4, <2>6 DEF Prepare
  <2>7. CASE TurnStart(c) \/ Await(c) \/ Bind(c) \/ CollectStart(c)
    <3>1. (\E pc \in {"await", "bind", "spawn", "finalize"} : Goto(c, pc)) \/ \E o : FinishStart(c, o)
      BY <2>7, OwnSteppingParts DEF TurnStart, Await, Bind, CollectStart
    <3>2. QED
      BY <2>1, <2>2, <3>1
  <2>8. QED
    BY <2>5, <2>6, <2>7
<1>4. QED
  BY <1>1, <1>3, KeptQuiet, OwnCommand

\* finish_start_failure leaves an ended run behind.
LEMMA FinalizeStartOwns ==
    ASSUME OwnStepping, NEW c \in Callers, FinalizeStart(c)
    PROVE  OwnInv'
<1>1. PICK k \in Keys, o \in ReceiptOutcome : KeyOf(c) = k /\ call[c].key = k /\ call[c].outcome = o
  BY CallTyped, OwnSteppingParts DEF KeyOf, Call
<1>2. worker' = worker
  BY DEF FinalizeStart
<1>3. SameBut(c) /\ call'[c].pc \notin Owning
  <2>1. Return(c) \/ Goto(c, "cleanup")
    BY DEF FinalizeStart
  <2>2. QED
    BY <2>1, GotoMoves, ReturnMoves, OwnSteppingParts DEF Owning
<1>4. NoNewActive /\ loaded' = loaded
  <2>1. FinalizeRun(k, o) \/ UNCHANGED serviceVars
    BY <1>1 DEF FinalizeStart
  <2>2. FinalizeRun(k, o) => loaded' = loaded
    BY DEF FinalizeRun, Update, Save
  <2>3. QED
    BY <2>1, <2>2, KeptQuiet, QuietWrites, OwnSteppingParts
<1>5. loaded /\ Active(k) => ~Active(k)'
  <2>1. CASE FinalizeRun(k, o)
    BY <2>1, FinalizeEnds
  <2>2. CASE SameReceipt(k, o)
    BY <2>2, ReceiptEnds
  <2>3. CASE FinalizeFails(k, o)
    BY <2>3, FinalizeFailsOnEnded
  <2>4. QED
    BY <1>1, <2>1, <2>2, <2>3 DEF FinalizeStart
<1>6. QED
  BY <1>1, <1>2, <1>3, <1>4, <1>5, OwnCommand

\* begin_run: the command owns what it has begun.
LEMMA BeginOwns ==
    ASSUME OwnStepping, NEW c \in Callers, BeginRunStep(c)
    PROVE  OwnInv'
<1>1. PICK k \in Keys : KeyOf(c) = k /\ call[c].key = k
  BY CallTyped, OwnSteppingParts DEF KeyOf, Call
<1>2. worker' = worker /\ call[c].pc = "begin" /\ evicted' = evicted
  BY DEF BeginRunStep, At
<1>3. CASE Return(c) /\ UNCHANGED serviceVars
  <2>1. SameBut(c) /\ call'[c].pc \notin Owning
    BY <1>3, ReturnMoves, OwnSteppingParts DEF Owning
  <2>2. call[c].pc \notin Owning
    BY <1>2 DEF Owning
  <2>3. QED
    BY <1>1, <1>2, <1>3, <2>1, <2>2, KeptQuiet, OwnCommand
<1>4. CASE BeginRun(k) /\ Goto(c, "thread")
  <2>1. SameBut(c) /\ call'[c].pc = "thread" /\ call'[c].key = k
    BY <1>1, <1>4, GotoMoves, OwnSteppingParts
  <2>2. ~HasBegun(k) /\ HasBegun(k)' /\ loaded /\ loaded' = loaded
    BY <1>4, BeginClaims, OwnSteppingParts DEF BeginRun, Update, Save
  <2>3. \A x : x # k => RecordKept(x)
    <3>1. Stored(k) /\ Update(k, Begun(TaskOf(k))) /\ ~IsRefused(Begun(TaskOf(k))) /\ TaskOf(k).run = "queued"
      BY <1>4 DEF BeginRun, Update
    <3>2. Advances(TaskOf(k), Begun(TaskOf(k)))
      BY <2>2, <3>1, StoredOK, BegunAdvances, OwnSteppingParts
    <3>3. OnlyWrites(k, Begun(TaskOf(k)))
      BY <2>2, <3>1, <3>2, UpdateWrites, OwnSteppingParts
    <3>4. TaskOf(k).key = k
      BY <2>2, <3>1, StoredOK, StoredEvents, OwnSteppingParts
    <3>5. Begun(TaskOf(k)).key = k
      BY <3>2, <3>4 DEF Advances, Continues
    <3>6. QED
      BY <3>3, <3>5, OthersKept, OwnSteppingParts
  <2> SUFFICES ASSUME NEW x \in Keys \ evicted' PROVE OwnGood(x)'
    BY DEF OwnInv
  <2>4. OwnGood(x) /\ Stepping
    BY OwnSteppingParts
  <2>5. CASE x = k
    <3>1. worker'[x].pc = "none"
      BY <1>2, <2>2, <2>4, <2>5 DEF OwnGood
    <3>2. Owned(x)'
      BY <2>1, <2>5 DEF Owned, Owning
    <3>3. HasBegun(x)'
      BY <2>2, <2>5
    <3>4. QED
      BY <2>4, <3>1, <3>2, <3>3, OwnStays DEF Leaving
  <2>6. CASE x # k
    <3>1. \A d \in Callers : Owns(d, x)' => Owns(d, x)
      BY <2>1, <2>6 DEF SameBut, Owns
    <3>2. \A d \in Callers : Owns(d, x)' => HasBegun(x)
      BY <2>4, <3>1 DEF OwnGood
    <3>3. worker'[x].pc # "none" => HasBegun(x)
      BY <1>2, <2>4 DEF OwnGood
    <3>4. ASSUME loaded', Active(x)' PROVE Owned(x)'
      <4>1. Owned(x)
        BY <2>2, <2>3, <2>4, <2>6, <3>4, WasActive DEF OwnGood
      <4>2. \A d \in Callers : Owns(d, x) => Owns(d, x)'
        BY <1>1, <2>1, <2>6 DEF SameBut, Owns
      <4>3. QED
        BY <1>2, <4>1, <4>2 DEF Owned, Owns
    <3>5. QED
      BY <1>2, <2>2, <2>4, <3>2, <3>3, <3>4, OwnStays
  <2>7. QED
    BY <2>5, <2>6
<1>5. QED
  BY <1>1, <1>3, <1>4 DEF BeginRunStep

\* spawn_active: the worker takes the run over.
LEMMA SpawnOwns ==
    ASSUME OwnStepping, NEW c \in Callers, Spawn(c)
    PROVE  OwnInv'
<1>1. PICK k \in Keys : KeyOf(c) = k /\ call[c].key = k
  BY CallTyped, OwnSteppingParts DEF KeyOf, Call
<1>2. call[c].pc = "spawn" /\ evicted' = evicted /\ UNCHANGED serviceVars
  BY DEF Spawn, At
<1>3. SameBut(c) /\ call'[c].pc = "idle"
  BY ReturnMoves, OwnSteppingParts DEF Spawn
<1>4. NoNewActive /\ loaded' = loaded
  BY <1>2, KeptQuiet
<1>5. Holding(c, k) /\ Owns(c, k)
  BY <1>1, <1>2 DEF Holding, HoldPc, Owns, Owning
<1>6. \/ worker' = worker /\ worker[k].pc # "none"
      \/ WorkerOthers(k) /\ worker'[k].pc \in {"loop", "collect"}
  <2> DEFINE new == [NoWorker EXCEPT !.pc = "loop", !.stream = call[c].stream,
                                     !.connection = call[c].connection]
             last == [new EXCEPT !.pc = "collect", !.last = TRUE]
  <2>1. new.pc = "loop" /\ last.pc = "collect"
    BY DEF NoWorker
  <2>2. \/ worker' = worker /\ k \in ActiveRuns
        \/ worker' = [worker EXCEPT ![k] = new]
        \/ worker' = [worker EXCEPT ![k] = last]
    BY <1>1 DEF Spawn
  <2> HIDE DEF new, last
  <2>3. QED
    BY <2>1, <2>2, OwnSteppingParts DEF ActiveRuns, RunTyped, WorkerOthers
<1> SUFFICES ASSUME NEW x \in Keys \ evicted' PROVE OwnGood(x)'
  BY DEF OwnInv
<1>7. OwnGood(x) /\ Stepping /\ RecordKept(x)
  BY <1>4, ActivesKept, OwnSteppingParts
<1>8. \A d \in Callers : Owns(d, x)' => Owns(d, x)
  BY <1>3 DEF SameBut, Owns, Owning
<1>9. \A d \in Callers : Owns(d, x)' => HasBegun(x)
  BY <1>7, <1>8 DEF OwnGood
<1>10. CASE x = k
  <2>1. HasBegun(x)
    BY <1>5, <1>7, <1>10 DEF OwnGood
  <2>2. CASE worker' = worker /\ worker[k].pc # "none"
    <3>1. worker[k].pc = "remove"
      <4>1. ~WorkerHolds(k) /\ worker[k] \in Worker
        BY <1>5, OwnSteppingParts DEF HoldersGood, RunTyped
      <4>2. QED
        BY <2>2, <4>1 DEF WorkerHolds, WorkerHoldPc, Worker
    <3>2. loaded => ~Active(x)
      BY <1>7, <1>10, <3>1 DEF OwnGood, Leaving
    <3>3. loaded' => ~Active(x)'
      BY <1>4, <1>7, <3>2, WasActive
    <3>4. QED
      BY <1>4, <1>7, <1>9, <2>1, <3>3, OwnStays
  <2>3. CASE WorkerOthers(k) /\ worker'[k].pc \in {"loop", "collect"}
    <3>1. Owned(x)' /\ worker'[x].pc \notin Leaving
      BY <1>10, <2>3 DEF Owned, Leaving
    <3>2. QED
      BY <1>7, <1>9, <2>1, <3>1, OwnStays
  <2>4. QED
    BY <1>6, <2>2, <2>3
<1>11. CASE x # k
  <2>1. worker'[x] = worker[x]
    BY <1>6, <1>11 DEF WorkerOthers
  <2>2. ASSUME loaded', Active(x)' PROVE Owned(x)'
    <3>1. Owned(x)
      BY <1>4, <1>7, <2>2, WasActive DEF OwnGood
    <3>2. \A d \in Callers : Owns(d, x) => Owns(d, x)'
      BY <1>1, <1>3, <1>11 DEF SameBut, Owns
    <3>3. QED
      BY <2>1, <3>1, <3>2 DEF Owned, Owns
  <2>3. worker'[x].pc # "none" => HasBegun(x)
    BY <1>7, <2>1 DEF OwnGood
  <2>4. QED
    BY <1>4, <1>7, <1>9, <2>1, <2>2, <2>3, OwnStays
<1>12. QED
  BY <1>10, <1>11

LEMMA StartStepOwns ==
    ASSUME OwnStepping, NEW c \in Callers,
           StartStep(c) \/ \E k \in Keys, p \in Projects : StartCommand(c, k, p)
    PROVE  OwnInv'
BY StartOwns, OwnerGoesOn, FinalizeStartOwns, BeginOwns, SpawnOwns DEF StartStep

-----------------------------------------------------------------------------
(***************************************************************************)
(* The steps of a worker, and of everything else.                          *)
(***************************************************************************)
LEMMA ActiveSame == ASSUME disk' = disk, NEW k PROVE Active(k)' <=> Active(k)
BY DEF Active, Has, Lookup, Position

\* A worker that goes on with its run, whatever it writes of it.
LEMMA WatchOwns ==
    ASSUME OwnStepping, NEW k \in Keys, call' = call, WorkerOthers(k), loaded' = loaded,
           \A x \in Keys : x # k => RecordKept(x),
           worker[k].pc # "none",
           worker'[k].pc \in {"loop", "check", "collect", "finalize", "abandon"}
    PROVE  OwnInv'
<1>1. worker'[k].pc \notin Leaving
  BY DEF Leaving
<1>2. QED
  BY <1>1, OwnWorker

LEMMA StopOwns == ASSUME OwnStepping, NEW k \in Keys, Stop(k) PROVE OwnInv'
<1> DEFINE r == [worker[k] EXCEPT !.stop = TRUE]
<1>1. UNCHANGED serviceVars /\ call' = call /\ worker' = [worker EXCEPT ![k] = r] /\ worker[k].pc # "none"
  BY DEF Stop, ActiveRuns
<1>2. worker[k] \in Worker
  BY OwnSteppingParts DEF RunTyped
<1>3. r.pc = worker[k].pc
  BY <1>2 DEF Worker
<1> HIDE DEF r
<1>4. WorkerOthers(k) /\ worker'[k].pc = worker[k].pc
  BY <1>1, <1>3, OwnSteppingParts DEF RunTyped, WorkerOthers
<1>5. NoNewActive /\ loaded' = loaded /\ \A x : RecordKept(x)
  BY <1>1, KeptQuiet, ActivesKept, OwnSteppingParts
<1>6. worker[k].pc \in {"loop", "check", "collect", "finalize", "abandon"} \cup Leaving
  BY <1>1, <1>2 DEF Worker, WorkerPc, Leaving
<1>7. QED
  BY <1>1, <1>4, <1>5, <1>6, OwnWorker

LEMMA PollOwns == ASSUME OwnStepping, NEW k \in Keys, Poll(k) PROVE OwnInv'
<1>1. call' = call /\ worker[k].pc = "loop"
  BY DEF Poll, WorkerAt
<1>2. WorkerOthers(k) /\ worker'[k].pc \in {"loop", "check", "collect"}
  <2>1. \/ \E pc \in {"loop", "check"} : WorkerGoto(k, pc)
        \/ \E o : Finish(k, o)
        \/ FinishUnknown(k)
    BY DEF Poll, Observe
  <2>2. QED
    BY <2>1, WorkerGotoMoves, FinishMoves, FinishUnknownMoves, OwnSteppingParts DEF WorkerOthers
<1>3. CASE UNCHANGED serviceVars
  <2>1. loaded' = loaded /\ \A x : RecordKept(x)
    BY <1>3, KeptQuiet, ActivesKept, OwnSteppingParts
  <2>2. QED
    BY <1>1, <1>2, <2>1, WatchOwns
<1>4. ASSUME NEW to \in ActiveRun, PollTransition(k, to) PROVE OwnInv'
  <2>1. /\ Stored(k) /\ loaded /\ Update(k, MoveRun(TaskOf(k), to)) /\ ~IsRefused(MoveRun(TaskOf(k), to))
        /\ loaded' = loaded
    BY <1>4 DEF PollTransition, TransitionRun, Update, Save
  <2>2. TaskOK(TaskOf(k)) /\ TaskOf(k).key = k
    BY <2>1, StoredOK, StoredEvents, OwnSteppingParts
  <2>3. TaskOf(k).run # "queued"
    <3>1. TaskOf(k) \in StoredTask /\ to \in RunStatus
      BY <2>2 DEF TaskOK, ActiveRun, RunStatus
    <3>2. valid_run_transition(TaskOf(k).run, to)
      BY <2>1, <3>1, MoveRunCases, RefusedIsRefused
    <3>3. to = "running" => TaskOf(k).run = "waitingApproval"
      BY <1>4 DEF PollTransition
    <3>4. QED
      BY <3>2, <3>3 DEF valid_run_transition, TerminalRun, ActiveRun
  <2>4. Advances(TaskOf(k), MoveRun(TaskOf(k), to))
    BY <2>1, <2>2, <2>3, MoveRunAdvances
  <2>5. OnlyWrites(k, MoveRun(TaskOf(k), to))
    BY <2>1, <2>4, UpdateWrites, OwnSteppingParts
  <2>6. MoveRun(TaskOf(k), to).key = k
    BY <2>2, <2>4 DEF Advances, Continues
  <2>7. \A x \in Keys : x # k => RecordKept(x)
    BY <2>5, <2>6, OthersKept, OwnSteppingParts
  <2>8. QED
    BY <1>1, <1>2, <2>1, <2>7, WatchOwns
<1>5. QED
  <2>1. UNCHANGED serviceVars \/ \E to \in ActiveRun : PollTransition(k, to)
    BY DEF Poll, Observe, ActiveRun
  <2>2. QED
    BY <1>3, <1>4, <2>1

LEMMA ObserverOwns ==
    ASSUME OwnStepping, NEW k \in Keys, Interrupt(k) \/ CheckActive(k) \/ Collect(k)
    PROVE  OwnInv'
<1>1. UNCHANGED serviceVars /\ call' = call /\ worker[k].pc \in {"loop", "check", "collect"}
  BY DEF Interrupt, CheckActive, Collect, WorkerAt
<1>2. loaded' = loaded /\ \A x : RecordKept(x)
  BY <1>1, KeptQuiet, ActivesKept, OwnSteppingParts
<1>3. WorkerOthers(k) /\ worker'[k].pc \in {"loop", "check", "collect", "finalize", "abandon"}
  <2>1. CASE worker' = [worker EXCEPT ![k].interrupted = TRUE]
    <3> DEFINE r == [worker[k] EXCEPT !.interrupted = TRUE]
    <3>1. r.pc = worker[k].pc /\ worker' = [worker EXCEPT ![k] = r]
      BY <2>1, OwnSteppingParts DEF RunTyped, Worker
    <3> HIDE DEF r
    <3>2. QED
      BY <1>1, <3>1, OwnSteppingParts DEF RunTyped, WorkerOthers
  <2>2. CASE \/ \E pc \in {"loop", "finalize"} : WorkerGoto(k, pc)
             \/ \E o : Finish(k, o)
             \/ FinishUnknown(k)
    BY <2>2, WorkerGotoMoves, FinishMoves, FinishUnknownMoves, OwnSteppingParts DEF WorkerOthers
  <2>3. QED
    BY <2>1, <2>2, OwnSteppingParts DEF Interrupt, CheckActive, Collect
<1>4. QED
  BY <1>1, <1>2, <1>3, WatchOwns

LEMMA FinalizeOwns == ASSUME OwnStepping, NEW k \in Keys, Finalize(k) PROVE OwnInv'
<1>1. PICK o \in ReceiptOutcome : worker[k].outcome = o
  BY OwnSteppingParts DEF RunTyped, Worker
<1>2. call' = call /\ worker[k].pc = "finalize"
  BY DEF Finalize, WorkerAt
<1>3. loaded' = loaded /\ \A x : RecordKept(x)
  <2>1. FinalizeRun(k, o) \/ UNCHANGED serviceVars
    BY <1>1 DEF Finalize
  <2>2. FinalizeRun(k, o) => loaded' = loaded
    BY DEF FinalizeRun, Update, Save
  <2>3. NoNewActive
    BY <2>1, KeptQuiet, QuietWrites, OwnSteppingParts
  <2>4. QED
    BY <2>1, <2>2, <2>3, KeptQuiet, ActivesKept, OwnSteppingParts
<1>4. CASE WorkerGoto(k, "cleanup") /\ (FinalizeRun(k, o) \/ (SameReceipt(k, o) /\ UNCHANGED serviceVars))
  <2>1. WorkerOthers(k) /\ worker'[k].pc = "cleanup"
    BY <1>4, WorkerGotoMoves, OwnSteppingParts DEF WorkerOthers
  <2>2. ~Active(k)'
    BY <1>4, FinalizeEnds, ReceiptEnds, ActiveSame, KeptQuiet
  <2>3. QED
    BY <1>2, <1>3, <2>1, <2>2, OwnWorker
<1>5. CASE GiveUp(k)
  BY <1>2, <1>3, <1>5, GiveUpMoves, WatchOwns, OwnSteppingParts DEF WorkerOthers
<1>6. QED
  BY <1>1, <1>4, <1>5 DEF Finalize

LEMMA LeaverOwns ==
    ASSUME OwnStepping, NEW k \in Keys, CleanupRun(k) \/ Abandon(k) \/ Remove(k)
    PROVE  OwnInv'
<1>1. call' = call /\ worker[k].pc \in {"cleanup", "abandon", "remove"}
  BY DEF CleanupRun, Abandon, Remove, WorkerAt
<1>2. loaded' = loaded /\ \A x : RecordKept(x)
  <2>1. AbandonRun(k) \/ UNCHANGED serviceVars
    BY DEF CleanupRun, Abandon, Remove
  <2>2. AbandonRun(k) => loaded' = loaded
    BY DEF AbandonRun, Update, Save
  <2>3. NoNewActive
    BY <2>1, KeptQuiet, QuietWrites, OwnSteppingParts
  <2>4. QED
    BY <2>1, <2>2, <2>3, KeptQuiet, ActivesKept, OwnSteppingParts
<1>3. WorkerOthers(k) /\ worker'[k].pc \in {"remove", "none"}
  <2>1. WorkerGoto(k, "remove") \/ worker' = [worker EXCEPT ![k] = NoWorker]
    BY DEF CleanupRun, Abandon, Remove
  <2>2. QED
    BY <2>1, WorkerGotoMoves, OwnSteppingParts DEF WorkerOthers, RunTyped, NoWorker
<1>4. CASE Abandon(k)
  <2>1. loaded => ~Active(k)'
    BY <1>4, AbandonEnds DEF Abandon
  <2>2. QED
    BY <1>1, <1>2, <1>3, <2>1, OwnWorker
<1>5. CASE CleanupRun(k) \/ Remove(k)
  <2>1. worker[k].pc \in Leaving
    BY <1>5 DEF CleanupRun, Remove, WorkerAt, Leaving
  <2>2. QED
    BY <1>1, <1>2, <1>3, <2>1, OwnWorker
<1>6. QED
  BY <1>4, <1>5

LEMMA WorkerStepOwns == ASSUME OwnStepping, NEW k \in Keys, Stop(k) \/ WorkerStep(k) PROVE OwnInv'
BY StopOwns, PollOwns, ObserverOwns, FinalizeOwns, LeaverOwns DEF WorkerStep

\* Nobody moves.
LEMMA OthersOwn ==
    ASSUME OwnStepping, call' = call, worker' = worker, loaded' = loaded, disk' = disk
    PROVE  OwnInv'
<1> SUFFICES ASSUME NEW k \in Keys \ evicted' PROVE OwnGood(k)'
  BY DEF OwnInv
<1>1. OwnGood(k) /\ Stepping
  BY OwnSteppingParts
<1>2. (Active(k)' <=> Active(k)) /\ (HasBegun(k)' <=> HasBegun(k))
  BY ActiveSame DEF HasBegun, Has, Lookup, Position
<1>3. Owned(k)' <=> Owned(k)
  BY DEF Owned
<1>4. \A c \in Callers : Owns(c, k)' <=> Owns(c, k)
  BY DEF Owns
<1>5. QED
  BY <1>1, <1>2, <1>3, <1>4 DEF OwnGood

\* After a start no run is active.
LEMMA StartupOwns == ASSUME OwnStepping, Startup PROVE OwnInv'
<1> SUFFICES ASSUME NEW k \in Keys \ evicted' PROVE OwnGood(k)'
  BY DEF OwnInv
<1>1. OwnGood(k) /\ Stepping
  BY OwnSteppingParts
<1>2. Open /\ call' = call /\ worker' = worker
  BY DEF Startup, runVars
<1>3. ~Active(k)'
  <2> SUFFICES ASSUME Has(disk', k), Lookup(disk', k).run \in ActiveRun PROVE FALSE
    BY ActiveNext
  <2>1. PICK j \in DOMAIN disk' : disk'[j] = Lookup(disk', k)
    BY PositionFound
  <2>2. QED
    BY <1>2, <2>1, OpenRecords, OwnSteppingParts
<1>4. \A c \in Callers : Owns(c, k)' => HasBegun(k)
  BY <1>1, <1>2 DEF OwnGood, Owns
<1>5. worker'[k].pc # "none" => HasBegun(k)
  BY <1>1, <1>2 DEF OwnGood
<1>6. QED
  BY <1>1, <1>3, <1>4, <1>5, OwnStays

LEMMA CrashOwns == ASSUME OwnStepping, Crash PROVE OwnInv'
<1> SUFFICES ASSUME NEW k \in Keys \ evicted' PROVE OwnGood(k)'
  BY DEF OwnInv
<1>1. OwnGood(k) /\ Stepping
  BY OwnSteppingParts
<1>2. (\A c \in Callers : call'[c].pc = "idle") /\ worker'[k].pc = "none" /\ ~loaded'
  BY DEF Crash, Close, Idle, NoWorker
<1>3. \A c \in Callers : ~Owns(c, k)'
  BY <1>2 DEF Owns, Owning
<1>4. QED
  BY <1>1, <1>2, <1>3, OwnStays

LEMMA OwnStep == DiskWorks /\ LogIsLarge /\ HoldInv /\ LogInv /\ OwnInv /\ [Next]_vars => OwnInv'
<1> SUFFICES ASSUME DiskWorks, LogIsLarge, HoldInv, LogInv, OwnInv, [Next]_vars PROVE OwnInv'
  OBVIOUS
<1>1. OwnStepping
  BY LogSteppingHolds DEF OwnStepping
<1>2. ASSUME NEW c \in Callers,
             StartStep(c) \/ \E k \in Keys, p \in Projects : StartCommand(c, k, p)
      PROVE  OwnInv'
  BY <1>1, <1>2, StartStepOwns
<1>3. ASSUME NEW k \in Keys, Stop(k) \/ WorkerStep(k) PROVE OwnInv'
  BY <1>1, <1>3, WorkerStepOwns
<1>4. CASE \E h \in Threads :
             \/ TurnStarts(h)
             \/ \E kind \in {"running", "waitingApproval"} : TurnNotifies(h, kind)
             \/ \E kind \in TerminalEvent : TurnEnds(h, kind)
  <2>1. call' = call /\ worker' = worker /\ loaded' = loaded /\ disk' = disk
    BY <1>4 DEF TurnStarts, TurnNotifies, TurnEnds, serviceVars
  <2>2. QED
    BY <1>1, <2>1, OthersOwn
<1>5. CASE Connect \/ Disconnect \/ UNCHANGED vars
  <2>1. call' = call /\ worker' = worker /\ loaded' = loaded /\ disk' = disk
    BY <1>5 DEF Connect, Disconnect, vars, runVars, serviceVars
  <2>2. QED
    BY <1>1, <2>1, OthersOwn
<1>6. CASE Startup \/ Crash
  BY <1>1, <1>6, StartupOwns, CrashOwns
<1>7. QED
  BY <1>2, <1>3, <1>4, <1>5, <1>6 DEF Next

LEMMA OwnInit == Init => OwnInv
<1> SUFFICES ASSUME Init, NEW k \in Keys PROVE OwnGood(k)
  BY DEF OwnInv
<1>1. (\A c \in Callers : call[c].pc = "idle") /\ worker[k].pc = "none" /\ ~loaded
  BY DEF Init, ServiceInit, Idle, NoWorker
<1>2. QED
  BY <1>1 DEF OwnGood, Owns, Owning

(***************************************************************************)
(* A run that the store calls active has an owner, a command or a worker,  *)
(* through every race, crash, lost connection and failed thread creation:  *)
(* with a disk that works, a file below its limit and a large enough event *)
(* log, every way out of start_local_task and of run_worker records the    *)
(* end of the run first.  This holds as long as no task was dropped from   *)
(* the list.                                                               *)
(***************************************************************************)
THEOREM ActiveRunsHaveOwners ==
    ASSUME LogIsLarge, DiskWorks
    PROVE  Spec => [](evicted = {} => ActiveRunsOwned)
<1>1. HoldInv /\ OwnInv => (evicted = {} => ActiveRunsOwned)
  <2> SUFFICES ASSUME HoldInv, OwnInv, evicted = {}, NEW k \in Keys,
                      loaded, Stored(k), TaskOf(k).run \in ActiveRun
               PROVE  Owned(k)
    BY DEF ActiveRunsOwned
  <2>1. Has(disk, k) /\ TaskOf(k) = Lookup(disk, k)
    BY StoredOK DEF HoldInv, RunInv
  <2>2. Active(k)
    BY <2>1 DEF Active
  <2>3. QED
    BY <2>2 DEF OwnInv, OwnGood
<1>2. HoldInv /\ LogInv /\ OwnInv /\ [Next]_vars => HoldInv' /\ LogInv' /\ OwnInv'
  BY HoldStep, LogStep, OwnStep
<1>3. QED
  BY <1>1, <1>2, HoldInit, LogInit, OwnInit, PTL DEF Spec

-----------------------------------------------------------------------------
(***************************************************************************)
(* How a command moves, seen from the points where it counts as about to   *)
(* start its run: registered, and past the capacity check.                 *)
(***************************************************************************)
Registered == {"capacity", "check", "worktree", "begin"}

PastPc == {"worktree", "begin", "thread", "prepare", "turn", "await", "bind", "spawn"}

CommandMoved(c) ==
    /\ SameBut(c)
    /\ call'[c].pc \in Registered \cup PastPc => call'[c].key = call[c].key
    /\ call'[c].pc \in Registered => call[c].pc \in Registered \/ Register(c)
    /\ call'[c].pc \in PastPc => call[c].pc \in PastPc \/ Check(c)
    /\ call'[c].pc = "check" => Capacity(c) \/ Register(c)

LEMMA OutsideMoves ==
    ASSUME NEW c, SameBut(c), call'[c].pc \notin Registered, call'[c].pc \notin PastPc
    PROVE  CommandMoved(c)
BY DEF CommandMoved, Registered

LEMMA BackMoves ==
    ASSUME RunTyped, NEW c \in Callers,
           \/ Return(c)
           \/ \E o : FinishStart(c, o)
           \/ \E pc \in {"accept", "register", "finalize", "cleanup"} : Goto(c, pc)
    PROVE  CommandMoved(c)
<1>1. CASE Return(c)
  BY <1>1, ReturnMoves, OutsideMoves DEF Registered, PastPc
<1>2. ASSUME NEW o, FinishStart(c, o) PROVE CommandMoved(c)
  BY <1>2, FinishStartMoves, OutsideMoves DEF Registered, PastPc
<1>3. ASSUME NEW pc \in {"accept", "register", "finalize", "cleanup"}, Goto(c, pc)
      PROVE  CommandMoved(c)
  BY <1>3, GotoMoves, OutsideMoves DEF Registered, PastPc
<1>4. QED
  BY <1>1, <1>2, <1>3

LEMMA CommandMoves ==
    ASSUME RunTyped, NEW c \in Callers,
           StartStep(c) \/ \E k \in Keys, p \in Projects : StartCommand(c, k, p)
    PROVE  CommandMoved(c)
<1>1. ASSUME NEW k \in Keys, NEW p \in Projects, StartCommand(c, k, p) PROVE CommandMoved(c)
  <2> DEFINE r == [Idle EXCEPT !.pc = "create", !.key = k, !.project = p, !.connection = connection]
  <2>1. call' = [call EXCEPT ![c] = r] /\ r.pc = "create"
    BY <1>1 DEF StartCommand, Idle
  <2> HIDE DEF r
  <2>2. QED
    BY <2>1, OutsideMoves DEF RunTyped, SameBut, Registered, PastPc
<1>2. CASE \/ Create(c) \/ Accept(c) \/ Spawn(c) \/ CollectStart(c) \/ FinalizeStart(c) \/ CleanupStart(c)
  <2>1. Return(c) \/ \E pc \in {"accept", "register", "finalize", "cleanup"} : Goto(c, pc)
    BY <1>2 DEF Create, Accept, Spawn, CollectStart, FinalizeStart, CleanupStart
  <2>2. QED
    BY <2>1, BackMoves
<1>3. CASE Register(c)
  <2>1. Return(c) \/ \E pc \in {"capacity", "check"} : Goto(c, pc)
    BY <1>3 DEF Register
  <2>2. ASSUME NEW pc \in {"capacity", "check"}, Goto(c, pc) PROVE CommandMoved(c)
    BY <1>3, <2>2, GotoMoves DEF CommandMoved, PastPc
  <2>3. QED
    BY <2>1, <2>2, BackMoves
<1>4. CASE Capacity(c)
  <2>1. call[c].pc = "capacity" /\ (Return(c) \/ Goto(c, "check"))
    BY <1>4 DEF Capacity, At
  <2>2. ASSUME Goto(c, "check") PROVE CommandMoved(c)
    BY <1>4, <2>1, <2>2, GotoMoves DEF CommandMoved, PastPc, Registered
  <2>3. QED
    BY <2>1, <2>2, BackMoves
<1>5. CASE Check(c) \/ Worktree(c)
  <2>1. /\ call[c].pc \in Registered /\ (Check(c) \/ call[c].pc \in PastPc)
        /\ Return(c) \/ \E pc \in {"worktree", "begin"} : Goto(c, pc)
    BY <1>5 DEF Check, Worktree, At, Registered, PastPc
  <2>2. ASSUME NEW pc \in {"worktree", "begin"}, Goto(c, pc) PROVE CommandMoved(c)
    BY <2>1, <2>2, GotoMoves DEF CommandMoved
  <2>3. QED
    BY <2>1, <2>2, BackMoves
<1>6. CASE BeginRunStep(c) \/ ThreadStart(c) \/ Prepare(c) \/ TurnStart(c) \/ Await(c) \/ Bind(c)
  <2>1. call[c].pc \in PastPc /\ call[c] \in Call
    BY <1>6, CallTyped DEF BeginRunStep, ThreadStart, Prepare, TurnStart, Await, Bind, At, PastPc
  <2>2. ASSUME SameBut(c), call'[c].key = call[c].key,
               call'[c].pc \in {"thread", "prepare", "turn", "await", "bind", "spawn"}
        PROVE  CommandMoved(c)
    BY <2>1, <2>2 DEF CommandMoved, Registered
  <2>3. ASSUME NEW pc \in {"thread", "await", "bind", "spawn"}, Goto(c, pc) PROVE CommandMoved(c)
    BY <2>2, <2>3, GotoMoves
  <2>4. CASE call' = [call EXCEPT ![c].pc = "prepare", ![c].thread = nextThread]
    <3> DEFINE r == [call[c] EXCEPT !.pc = "prepare", !.thread = nextThread]
    <3>1. r.pc = "prepare" /\ r.key = call[c].key /\ call' = [call EXCEPT ![c] = r]
      BY <2>1, <2>4 DEF Call
    <3> HIDE DEF r
    <3>2. QED
      BY <2>2, <3>1 DEF RunTyped, SameBut
  <2>5. CASE call' = [call EXCEPT ![c].pc = "turn", ![c].stream = nextRoute]
    <3> DEFINE r == [call[c] EXCEPT !.pc = "turn", !.stream = nextRoute]
    <3>1. r.pc = "turn" /\ r.key = call[c].key /\ call' = [call EXCEPT ![c] = r]
      BY <2>1, <2>5 DEF Call
    <3> HIDE DEF r
    <3>2. QED
      BY <2>2, <3>1 DEF RunTyped, SameBut
  <2>6. CASE ThreadStart(c)
    BY <2>4, <2>6, BackMoves DEF ThreadStart
  <2>7. CASE Prepare(c)
    BY <2>5, <2>7, BackMoves DEF Prepare
  <2>8. CASE BeginRunStep(c) \/ TurnStart(c) \/ Await(c) \/ Bind(c)
    <3>1. \/ Return(c)
          \/ \E pc \in {"thread", "await", "bind", "spawn"} : Goto(c, pc)
          \/ \E o : FinishStart(c, o)
      BY <2>8 DEF BeginRunStep, TurnStart, Await, Bind
    <3>2. QED
      BY <2>3, <3>1, BackMoves
  <2>9. QED
    BY <1>6, <2>6, <2>7, <2>8
<1>7. QED
  BY <1>1, <1>2, <1>3, <1>4, <1>5, <1>6 DEF StartStep

-----------------------------------------------------------------------------
(***************************************************************************)
(* A run is registered once: its record is queued only as it was, or       *)
(* because a task without a run has just got one.                          *)
(***************************************************************************)
NotBegunKept ==
    \A j \in DOMAIN disk' :
        disk'[j].run \in {"none", "queued"} =>
            \/ KeptAt(j)
            \/ ~Has(disk, disk'[j].key)
            \/ Lookup(disk, disk'[j].key).run = "none"

LEMMA NotBegunStep ==
    ASSUME ServiceInv, [ServiceNext]_serviceVars, GoodStep
    PROVE  NotBegunKept
<1>0. ServiceInv'
  BY DEF GoodStep
<1>1. CASE Open
  BY <1>1, OpenRecords DEF NotBegunKept
<1>2. CASE Close \/ UNCHANGED serviceVars
  BY <1>2, FileKept DEF NotBegunKept, Close, serviceVars
<1>3. ASSUME NEW k \in Keys, NEW p \in Projects, CreateTask(k, p) PROVE NotBegunKept
  <2>1. NewTask(k, p).key = k
    BY DEF NewTask
  <2>2. ~Has(disk, k)
    BY <1>3 DEF CreateTask, Stored, ServiceInv
  <2>3. QED
    BY <1>3, <2>1, <2>2, InsertRecords DEF NotBegunKept
<1>4. ASSUME NEW k \in Keys, Stored(k), loaded, NEW t, Update(k, t), Advances(TaskOf(k), t),
             t.run \in {"none", "queued"} => TaskOf(k).run = "none"
      PROVE  NotBegunKept
  <2>1. OnlyWrites(k, t)
    BY <1>0, <1>4, UpdateWrites
  <2>2. TaskOf(k) = Lookup(disk, k) /\ TaskOf(k).key = k
    BY <1>4, StoredOK, StoredEvents
  <2>3. t.key = k
    BY <1>4, <2>2 DEF Advances, Continues
  <2>4. QED
    BY <1>4, <2>1, <2>2, <2>3 DEF OnlyWrites, NotBegunKept
<1>5. ASSUME NEW k, Stored(k), loaded PROVE TaskOK(TaskOf(k))
  BY <1>5, StoredOK
<1>6. ASSUME NEW k \in Keys, NEW p \in Projects, AcceptTask(k, p) PROVE NotBegunKept
  <2>1. /\ Stored(k) /\ loaded /\ Update(k, Accepted(TaskOf(k))) /\ ~IsRefused(Accepted(TaskOf(k)))
        /\ TaskOf(k).status \in {"draft", "offered"}
    BY <1>6 DEF AcceptTask, StoredFor, Update
  <2>2. Advances(TaskOf(k), Accepted(TaskOf(k)))
    BY <1>5, <2>1, AcceptedAdvances
  <2>3. TaskOf(k).run = "none"
    BY <1>5, <2>1 DEF TaskOK, StatusesAgree, StoredTask, RunStatus, ActiveRun
  <2>4. QED
    BY <1>4, <2>1, <2>2, <2>3
<1>7. ASSUME NEW k \in Keys, NEW p \in Projects, RegisterRun(k, p) PROVE NotBegunKept
  <2>1. /\ Stored(k) /\ loaded /\ Update(k, AddRun(TaskOf(k))) /\ ~IsRefused(AddRun(TaskOf(k)))
        /\ TaskOf(k).run = "none"
    BY <1>7 DEF RegisterRun, StoredFor, Update
  <2>2. Advances(TaskOf(k), AddRun(TaskOf(k)))
    BY <1>5, <2>1, AddRunAdvances
  <2>3. QED
    BY <1>4, <2>1, <2>2
<1>8. ASSUME NEW k \in Keys, BeginRun(k) PROVE NotBegunKept
  <2>1. /\ Stored(k) /\ loaded /\ Update(k, Begun(TaskOf(k))) /\ ~IsRefused(Begun(TaskOf(k)))
        /\ TaskOf(k).run = "queued"
    BY <1>8 DEF BeginRun, Update
  <2>2. Advances(TaskOf(k), Begun(TaskOf(k))) /\ Begun(TaskOf(k)).run = "running"
    BY <1>5, <2>1, BegunAdvances
  <2>3. QED
    BY <1>4, <2>1, <2>2
<1>9. ASSUME NEW k \in Keys, AbandonRun(k) PROVE NotBegunKept
  <2>1. Stored(k) /\ loaded /\ Update(k, Abandoned(TaskOf(k))) /\ ~IsRefused(Abandoned(TaskOf(k)))
    BY <1>9 DEF AbandonRun, Update
  <2>2. Advances(TaskOf(k), Abandoned(TaskOf(k))) /\ Abandoned(TaskOf(k)).run = "outcomeUnknown"
    BY <1>5, <2>1, AbandonedAdvances
  <2>3. QED
    BY <1>4, <2>1, <2>2
<1>10. ASSUME NEW k \in Keys, NEW o \in ReceiptOutcome, FinalizeRun(k, o) PROVE NotBegunKept
  <2>1. /\ Stored(k) /\ loaded /\ Update(k, Finalized(TaskOf(k), o))
        /\ ~IsRefused(Finalized(TaskOf(k), o))
    BY <1>10 DEF FinalizeRun, Update
  <2>2. Advances(TaskOf(k), Finalized(TaskOf(k), o)) /\ Finalized(TaskOf(k), o).run = RunStatusFor(o)
    BY <1>5, <2>1, FinalizedAdvances
  <2>3. RunStatusFor(o) \notin {"none", "queued"}
    BY OutcomeTables DEF TerminalRun
  <2>4. QED
    BY <1>4, <2>1, <2>2, <2>3
<1>11. ASSUME NEW k \in Keys, NEW to \in ActiveRun, PollTransition(k, to) PROVE NotBegunKept
  <2>1. /\ Stored(k) /\ loaded /\ Update(k, MoveRun(TaskOf(k), to)) /\ ~IsRefused(MoveRun(TaskOf(k), to))
    BY <1>11 DEF PollTransition, TransitionRun, Update
  <2>2. TaskOf(k).run # "queued"
    <3>1. TaskOf(k) \in StoredTask /\ to \in RunStatus
      BY <1>5, <2>1 DEF TaskOK, ActiveRun, RunStatus
    <3>2. valid_run_transition(TaskOf(k).run, to)
      BY <2>1, <3>1, MoveRunCases, RefusedIsRefused
    <3>3. to = "running" => TaskOf(k).run = "waitingApproval"
      BY <1>11 DEF PollTransition
    <3>4. QED
      BY <3>2, <3>3 DEF valid_run_transition, TerminalRun, ActiveRun
  <2>3. Advances(TaskOf(k), MoveRun(TaskOf(k), to)) /\ MoveRun(TaskOf(k), to).run = to
    BY <1>5, <2>1, <2>2, MoveRunAdvances
  <2>4. QED
    BY <1>4, <2>1, <2>3 DEF ActiveRun
<1>12. QED
  BY <1>1, <1>2, <1>3, <1>6, <1>7, <1>8, <1>9, <1>10, <1>11 DEF ServiceNext, Operation

\* The task of k has a run.
Made(k) == Has(disk, k) /\ Lookup(disk, k).run # "none"

LEMMA MadeQueued ==
    ASSUME Stepping, NEW k, Made(k), Has(disk', k), Lookup(disk', k).run \in {"none", "queued"}
    PROVE  Lookup(disk', k) = Lookup(disk, k)
<1>1. PICK j \in DOMAIN disk' : disk'[j] = Lookup(disk', k) /\ disk'[j].key = k
  BY PositionFound
<1>2. NotBegunKept
  BY NotBegunStep, SteppingParts DEF ServiceQuiet
<1>3. KeptAt(j)
  BY <1>1, <1>2 DEF NotBegunKept, Made
<1>4. QED
  BY <1>1, <1>3, KeptIsRecord, SteppingParts

LEMMA MadeStays ==
    ASSUME Stepping, NEW k \in Keys \ evicted', Made(k)
    PROVE  Made(k)'
<1>1. Has(disk', k)
  BY SteppingParts DEF ServiceQuiet, Made, Has
<1>2. Lookup(disk', k).run # "none"
  BY <1>1, MadeQueued DEF Made
<1>3. QED
  BY <1>1, <1>2 DEF Made, Has, Lookup, Position

-----------------------------------------------------------------------------
(***************************************************************************)
(* Only a registered run has a worktree, and only a command that has seen  *)
(* it registered is about to make one.                                     *)
(***************************************************************************)
MadeGood(k) ==
    /\ \A c \in Callers : call[c].key = k /\ call[c].pc \in Registered => Made(k)
    /\ k \in worktrees => Made(k)

MadeInv == \A k \in Keys \ evicted : MadeGood(k)

LEMMA MadeKeeps ==
    ASSUME Stepping, MadeInv, NEW k \in Keys \ evicted',
           \A c \in Callers : call'[c].key = k /\ call'[c].pc \in Registered =>
               (call[c].key = k /\ call[c].pc \in Registered) \/ Made(k)',
           k \in worktrees' =>
               k \in worktrees \/ \E c \in Callers : call[c].key = k /\ call[c].pc \in Registered
    PROVE  MadeGood(k)'
<1>1. MadeGood(k)
  BY SteppingParts DEF MadeInv
<1>2. Made(k) => Made(k)'
  BY MadeStays
<1>3. QED
  BY <1>1, <1>2 DEF MadeGood

\* What a stored task says is in the file.
LEMMA StoredIsRecord ==
    ASSUME ServiceInv, NEW k, Stored(k)
    PROVE  Has(disk, k) /\ TaskOf(k) = Lookup(disk, k)
<1>1. cache # <<>>
  BY EmptyDomain DEF Stored, Has
<1>2. cache = disk
  BY <1>1 DEF ServiceInv
<1>3. QED
  BY <1>2 DEF Stored, TaskOf

\* register_run leaves a task with a run, or the command returns.
LEMMA RegisterMakes ==
    ASSUME Stepping, NEW c \in Callers, Register(c), NEW k, call[c].key = k, k \in Keys,
           call'[c].pc # "idle"
    PROVE  Made(k)'
<1>1. PICK p \in Projects : call[c].project = p /\ KeyOf(c) = k
  BY CallTyped, SteppingParts DEF KeyOf, Call
<1>2. ~Return(c)
  BY ReturnMoves, SteppingParts
<1>3. CASE RegisterRun(k, p)
  <2>1. Stored(k) /\ loaded /\ Update(k, AddRun(TaskOf(k))) /\ ~IsRefused(AddRun(TaskOf(k)))
    BY <1>3 DEF RegisterRun, StoredFor, Update
  <2>2. Advances(TaskOf(k), AddRun(TaskOf(k))) /\ AddRun(TaskOf(k)).run = "queued"
    BY <2>1, StoredOK, AddRunAdvances, SteppingParts
  <2>3. Has(disk', k) /\ Lookup(disk', k).run = "queued"
    BY <2>1, <2>2, UpdateWrites, SteppingParts DEF OnlyWrites
  <2>4. QED
    BY <2>3 DEF Made, Has, Lookup, Position
<1>4. CASE Stored(k) /\ TaskOf(k).run # "none" /\ UNCHANGED serviceVars
  <2>1. Made(k) /\ disk' = disk
    BY <1>4, StoredIsRecord, SteppingParts DEF Made, serviceVars
  <2>2. QED
    BY <2>1 DEF Made, Has, Lookup, Position
<1>5. QED
  BY <1>1, <1>2, <1>3, <1>4 DEF Register, StoredFor

\* A command that makes no worktree adds none.
LEMMA StartKeepsTrees ==
    ASSUME NEW c \in Callers, ~Worktree(c),
           StartStep(c) \/ \E k \in Keys, p \in Projects : StartCommand(c, k, p)
    PROVE  worktrees' \subseteq worktrees
<1>1. CASE \/ Create(c) \/ Accept(c) \/ Register(c) \/ Capacity(c) \/ Check(c)
           \/ ThreadStart(c) \/ Prepare(c) \/ TurnStart(c) \/ Await(c) \/ Bind(c) \/ Spawn(c)
           \/ CollectStart(c) \/ FinalizeStart(c)
           \/ \E k \in Keys, p \in Projects : StartCommand(c, k, p)
  BY <1>1 DEF Create, Accept, Register, Capacity, Check, ThreadStart, Prepare, TurnStart, Await,
              Bind, Spawn, CollectStart, FinalizeStart, StartCommand
<1>2. CASE BeginRunStep(c)
  BY <1>2 DEF BeginRunStep, Cleanup
<1>3. CASE CleanupStart(c)
  BY <1>3 DEF CleanupStart, CleanupAfter
<1>4. QED
  BY <1>1, <1>2, <1>3 DEF StartStep

\* Nor does anybody but a command, and only a crash takes a command away.
LEMMA WorldKeepsTrees ==
    ASSUME [Next]_vars,
           ~\E c \in Callers :
                StartStep(c) \/ \E k \in Keys, p \in Projects : StartCommand(c, k, p)
    PROVE  /\ worktrees' \subseteq worktrees
           /\ call' = call \/ (Crash /\ \A c \in Callers : call'[c].pc = "idle")
<1>1. CASE Startup \/ Connect \/ Disconnect \/ UNCHANGED vars
  BY <1>1 DEF Startup, Connect, Disconnect, vars, runVars
<1>2. CASE Crash
  BY <1>2 DEF Crash, Idle
<1>3. ASSUME NEW k \in Keys, Stop(k) \/ WorkerStep(k)
      PROVE  worktrees' \subseteq worktrees /\ call' = call
  <2>1. CASE \/ Stop(k) \/ Interrupt(k) \/ Poll(k) \/ CheckActive(k) \/ Collect(k) \/ Finalize(k)
             \/ Abandon(k) \/ Remove(k)
    BY <2>1 DEF Stop, Interrupt, Poll, CheckActive, Collect, Finalize, Abandon, Remove
  <2>2. CASE CleanupRun(k)
    BY <2>2 DEF CleanupRun, CleanupAfter
  <2>3. QED
    BY <1>3, <2>1, <2>2 DEF WorkerStep
<1>4. CASE \E h \in Threads :
             \/ TurnStarts(h)
             \/ \E kind \in {"running", "waitingApproval"} : TurnNotifies(h, kind)
             \/ \E kind \in TerminalEvent : TurnEnds(h, kind)
  BY <1>4 DEF TurnStarts, TurnNotifies, TurnEnds
<1>5. QED
  BY <1>1, <1>2, <1>3, <1>4 DEF Next

LEMMA StartMade ==
    ASSUME Stepping, MadeInv, NEW c \in Callers,
           StartStep(c) \/ \E k \in Keys, p \in Projects : StartCommand(c, k, p)
    PROVE  MadeInv'
<1> SUFFICES ASSUME NEW k \in Keys \ evicted' PROVE MadeGood(k)'
  BY DEF MadeInv
<1>1. CommandMoved(c)
  BY CommandMoves, SteppingParts
<1>2. ASSUME NEW d \in Callers, call'[d].key = k, call'[d].pc \in Registered
      PROVE  (call[d].key = k /\ call[d].pc \in Registered) \/ Made(k)'
  <2>1. CASE d # c
    BY <1>1, <1>2, <2>1 DEF CommandMoved, SameBut
  <2>2. CASE d = c /\ Register(c)
    <3>1. call[c].key = k /\ call'[c].pc # "idle"
      BY <1>1, <1>2, <2>2 DEF CommandMoved, Registered
    <3>2. QED
      BY <2>2, <3>1, RegisterMakes
  <2>3. CASE d = c /\ ~Register(c)
    BY <1>1, <1>2, <2>3 DEF CommandMoved
  <2>4. QED
    BY <2>1, <2>2, <2>3
<1>3. ASSUME k \in worktrees', k \notin worktrees
      PROVE  \E d \in Callers : call[d].key = k /\ call[d].pc \in Registered
  <2>1. CASE Worktree(c)
    <3>1. call[c].pc = "worktree" /\ call[c].key = k
      BY <1>3, <2>1 DEF Worktree, At, KeyOf
    <3>2. QED
      BY <3>1 DEF Registered
  <2>2. CASE ~Worktree(c)
    <3>1. worktrees' \subseteq worktrees
      BY <2>2, StartKeepsTrees
    <3>2. QED
      BY <1>3, <3>1
  <2>3. QED
    BY <2>1, <2>2
<1>4. QED
  BY <1>2, <1>3, MadeKeeps

\* Nobody else registers a run or makes a worktree.
LEMMA OthersMade ==
    ASSUME Stepping, MadeInv, worktrees' \subseteq worktrees,
           call' = call \/ \A c \in Callers : call'[c].pc = "idle"
    PROVE  MadeInv'
<1> SUFFICES ASSUME NEW k \in Keys \ evicted' PROVE MadeGood(k)'
  BY DEF MadeInv
<1>1. ASSUME NEW d \in Callers, call'[d].key = k, call'[d].pc \in Registered
      PROVE  call[d].key = k /\ call[d].pc \in Registered
  BY <1>1 DEF Registered
<1>2. QED
  BY <1>1, MadeKeeps

LEMMA MadeInit == Init => MadeInv
<1> SUFFICES ASSUME Init, NEW k \in Keys PROVE MadeGood(k)
  BY DEF MadeInv
<1>1. \A c \in Callers : call[c].pc = "idle"
  BY DEF Init, Idle
<1>2. QED
  BY <1>1 DEF MadeGood, Registered, Init

LEMMA MadeStep == HoldInv /\ MadeInv /\ [Next]_vars => MadeInv'
<1> SUFFICES ASSUME HoldInv, MadeInv, [Next]_vars PROVE MadeInv'
  OBVIOUS
<1>1. Stepping
  BY RunStep DEF Stepping, HoldInv
<1>2. ASSUME NEW c \in Callers,
             StartStep(c) \/ \E k \in Keys, p \in Projects : StartCommand(c, k, p)
      PROVE  MadeInv'
  BY <1>1, <1>2, StartMade
<1>3. CASE ~\E c \in Callers :
             StartStep(c) \/ \E k \in Keys, p \in Projects : StartCommand(c, k, p)
  BY <1>1, <1>3, WorldKeepsTrees, OthersMade
<1>4. QED
  BY <1>2, <1>3

-----------------------------------------------------------------------------
(***************************************************************************)
(* The worktree of a queued run.                                           *)
(***************************************************************************)
LEMMA QueuedBegins ==
    ASSUME NEW t, TaskOK(t), EarlyLog(t), t.run = "queued"
    PROVE  ~IsRefused(Begun(t))
<1> DEFINE v == Transition(t, "running")
<1>1. /\ t \in StoredTask /\ t.status = "accepted" /\ t.events \in Nat
      /\ t.events < MaxEvents /\ t.events + 1 < MaxEvents
  BY MaxEventsAssumption, TaskRunAssumption DEF TaskOK, StatusesAgree, EarlyLog, StoredTask
<1>2. v = [t EXCEPT !.status = "running", !.events = @ + 1]
  BY <1>1 DEF Transition, valid_task_transition, HasEventCapacity
<1>3. v = [key |-> t.key, project |-> t.project, status |-> "running", run |-> "queued",
           receipt |-> t.receipt, events |-> t.events + 1]
  BY <1>1, <1>2 DEF StoredTask
<1>4. v.run = "queued" /\ v.status = "running" /\ v.events = t.events + 1
  BY <1>3
<1>5. Begun(t) = MoveRun(v, "running")
  BY DEF Begun
<1> HIDE DEF v
<1>6. MoveRun(v, "running") = [v EXCEPT !.run = "running", !.events = @ + 1]
  BY <1>1, <1>4 DEF MoveRun, valid_run_transition, HasEventCapacity
<1>7. MoveRun(v, "running").status = "running"
  BY <1>3, <1>6
<1>8. QED
  BY <1>5, <1>7 DEF IsRefused

\* A command at begin_run does not leave a queued run behind.
LEMMA BeginLeavesNoQueued ==
    ASSUME OwnStepping, NEW c \in Callers, BeginRunStep(c), NEW k \in Keys, call[c].key = k,
           loaded, Has(disk, k), Lookup(disk, k).run = "queued",
           Has(disk', k), Lookup(disk', k).run = "queued"
    PROVE  FALSE
<1>1. KeyOf(c) = k
  BY DEF KeyOf
<1>2. Stored(k) /\ TaskOf(k) = Lookup(disk, k) /\ TaskOK(TaskOf(k))
  <2>1. cache = disk
    BY OwnSteppingParts DEF ServiceInv
  <2>2. QED
    BY <2>1, StoredEvents, OwnSteppingParts DEF Stored, TaskOf
<1>3. EarlyLog(TaskOf(k))
  <2>1. PICK i \in DOMAIN disk : disk[i] = Lookup(disk, k)
    BY PositionFound
  <2>2. QED
    BY <1>2, <2>1, OwnSteppingParts DEF LogInv
<1>4. ~UpdateFails(k, Begun(TaskOf(k)))
  <2>1. ~IsRefused(Begun(TaskOf(k)))
    BY <1>2, <1>3, QueuedBegins
  <2>2. QED
    BY <1>2, <2>1, BegunAdvances, UpdateSucceeds
<1>5. BeginRun(k)
  BY <1>1, <1>2, <1>4 DEF BeginRunStep
<1>6. HasBegun(k)'
  BY <1>5, BeginClaims, OwnSteppingParts
<1>7. QED
  BY <1>6 DEF HasBegun, Has, Lookup, Position

LEMMA StrandedStep ==
    ASSUME OwnStepping, MadeInv, evicted' = {}, [Next]_vars,
           NEW k \in Keys, loaded, loaded', Stranded(k)'
    PROVE  Stranded(k)
<1>1. cache = disk /\ cache' = disk'
  BY OwnSteppingParts DEF ServiceInv
<1>2. /\ k \in worktrees' /\ Has(disk', k) /\ Lookup(disk', k).run = "queued"
      /\ ~\E c \in Callers : call'[c].pc = "begin" /\ call'[c].key = k
  BY <1>1 DEF Stranded, Stored, TaskOf, At, KeyOf, Has, Lookup, Position
<1>3. k \in worktrees
  <2> SUFFICES ASSUME k \notin worktrees PROVE FALSE
    OBVIOUS
  <2>1. PICK c \in Callers : Worktree(c)
    BY <1>2, StartKeepsTrees, WorldKeepsTrees
  <2>2. call[c].key = k /\ Goto(c, "begin")
    BY <1>2, <2>1, OwnSteppingParts DEF Worktree, KeyOf
  <2>3. call'[c].pc = "begin" /\ call'[c].key = k
    BY <2>2, GotoMoves, OwnSteppingParts
  <2>4. QED
    BY <1>2, <2>3
<1>4. Made(k)
  BY <1>3, OwnSteppingParts DEF MadeInv, MadeGood
<1>5. Has(disk, k) /\ Lookup(disk, k).run = "queued"
  BY <1>2, <1>4, MadeQueued, OwnSteppingParts DEF Made
<1>6. ASSUME NEW c \in Callers, call[c].pc = "begin", call[c].key = k PROVE FALSE
  <2>1. call'[c] # call[c]
    BY <1>2, <1>6
  <2>2. ~Crash
    BY DEF Crash, Close
  <2>3. PICK d \in Callers :
            StartStep(d) \/ \E x \in Keys, p \in Projects : StartCommand(d, x, p)
    BY <2>1, <2>2, WorldKeepsTrees
  <2>4. SameBut(d)
    BY <2>3, CommandMoves, OwnSteppingParts DEF CommandMoved
  <2>5. d = c
    BY <2>1, <2>4 DEF SameBut
  <2>6. BeginRunStep(c)
    BY <1>6, <2>3, <2>5
       DEF StartStep, StartCommand, Create, Accept, Register, Capacity, Check, Worktree, ThreadStart,
           Prepare, TurnStart, Await, Bind, Spawn, CollectStart, FinalizeStart, CleanupStart, At
  <2>7. QED
    BY <1>2, <1>5, <1>6, <2>6, BeginLeavesNoQueued
<1>7. QED
  BY <1>1, <1>3, <1>5, <1>6 DEF Stranded, Stored, TaskOf, At, KeyOf

(***************************************************************************)
(* Only a crash strands a queued run: with a disk that works, a file below *)
(* its limit and no task dropped from the list, the worktree of a queued   *)
(* run always has a command behind it that is about to begin the run, and  *)
(* begin_run is then never refused.                                        *)
(***************************************************************************)
THEOREM OnlyCrashesStrand ==
    ASSUME LogIsLarge, DiskWorks
    PROVE  Spec /\ [](evicted = {}) => StrandedOnlyByCrash
<1>1. HoldInv /\ LogInv /\ OwnInv /\ MadeInv /\ evicted = {} /\ (evicted = {})' /\ [Next]_vars =>
          [\A k \in Keys : loaded /\ loaded' /\ Stranded(k)' => Stranded(k)]_vars
  BY LogSteppingHolds, StrandedStep DEF OwnStepping
<1>2. HoldInv /\ LogInv /\ OwnInv /\ MadeInv /\ [Next]_vars => HoldInv' /\ LogInv' /\ OwnInv' /\ MadeInv'
  BY HoldStep, LogStep, OwnStep, MadeStep
<1>3. QED
  BY <1>1, <1>2, HoldInit, LogInit, OwnInit, MadeInit, PTL DEF Spec, StrandedOnlyByCrash

-----------------------------------------------------------------------------
(***************************************************************************)
(* The limit on active runs.  The capacity check counts the runs in the    *)
(* active map, and the runs that other commands are about to add are not   *)
(* there yet.  So the runs in the map and the commands past the check      *)
(* together stay below the limit plus the number of commands.              *)
(***************************************************************************)
Past == {c \in Callers : \/ call[c].pc \in PastPc
                         \/ call[c].pc = "check" /\ ~HasBegun(call[c].key)}

BoundInv ==
    /\ IsFiniteSet(ActiveRuns)
    /\ evicted = {} =>
          Cardinality(ActiveRuns) + Cardinality(Past) < MaxActiveRuns + Cardinality(Callers)

LEMMA InPast == ASSUME NEW c PROVE
    c \in Past' <=> /\ c \in Callers
                    /\ \/ call'[c].pc \in PastPc
                       \/ call'[c].pc = "check" /\ ~HasBegun(call[c].key)'
BY DEF Past

LEMMA PastFinite ==
    ASSUME IsFiniteSet(Callers)
    PROVE  /\ IsFiniteSet(Past) /\ Cardinality(Past) \in Nat
           /\ IsFiniteSet(Past') /\ Cardinality(Past') \in Nat
           /\ Cardinality(Past') <= Cardinality(Callers) /\ Cardinality(Callers) \in Nat
<1>1. Past \subseteq Callers /\ Past' \subseteq Callers
  BY DEF Past
<1>2. QED
  BY <1>1, FS_Subset, FS_CardinalityType

\* Neither the map nor the commands past the check grow.
LEMMA BoundShrinks ==
    ASSUME IsFiniteSet(Callers), BoundInv, evicted \subseteq evicted', ActiveRuns' \subseteq ActiveRuns,
           evicted' = {} => Past' \subseteq Past
    PROVE  BoundInv'
<1>1. /\ IsFiniteSet(ActiveRuns') /\ Cardinality(ActiveRuns') <= Cardinality(ActiveRuns)
      /\ Cardinality(ActiveRuns) \in Nat /\ Cardinality(ActiveRuns') \in Nat
  BY FS_Subset, FS_CardinalityType DEF BoundInv
<1>2. ASSUME evicted' = {}
      PROVE  Cardinality(ActiveRuns') + Cardinality(Past') < MaxActiveRuns + Cardinality(Callers)
  <2>1. evicted = {}
    BY <1>2
  <2>2. Cardinality(Past') <= Cardinality(Past)
    BY <1>2, PastFinite, FS_Subset
  <2>3. Cardinality(ActiveRuns) + Cardinality(Past) < MaxActiveRuns + Cardinality(Callers)
    BY <2>1 DEF BoundInv
  <2>4. MaxActiveRuns \in Nat
    BY TaskRunAssumption
  <2>5. QED
    BY <1>1, <2>2, <2>3, <2>4, PastFinite
<1>3. QED
  BY <1>1, <1>2 DEF BoundInv

\* A command that passes the check.
LEMMA BoundChecks ==
    ASSUME IsFiniteSet(Callers), BoundInv, ActiveRuns' = ActiveRuns,
           Cardinality(ActiveRuns) < MaxActiveRuns
    PROVE  BoundInv'
<1>1. IsFiniteSet(ActiveRuns) /\ Cardinality(ActiveRuns) \in Nat /\ MaxActiveRuns \in Nat
  BY FS_CardinalityType, TaskRunAssumption DEF BoundInv
<1>2. Cardinality(ActiveRuns') + Cardinality(Past') < MaxActiveRuns + Cardinality(Callers)
  BY <1>1, PastFinite
<1>3. QED
  BY <1>1, <1>2 DEF BoundInv

\* A command that hands its run to a worker.
LEMMA BoundSpawns ==
    ASSUME IsFiniteSet(Callers), BoundInv, evicted \subseteq evicted', NEW k, NEW c \in Past,
           ActiveRuns' \subseteq ActiveRuns \cup {k},
           evicted' = {} => Past' \subseteq Past \ {c}
    PROVE  BoundInv'
<1>1. /\ IsFiniteSet(ActiveRuns \cup {k}) /\ Cardinality(ActiveRuns) \in Nat
      /\ Cardinality(ActiveRuns \cup {k}) <= Cardinality(ActiveRuns) + 1
      /\ Cardinality(ActiveRuns \cup {k}) \in Nat
  <2>1. IsFiniteSet(ActiveRuns)
    BY DEF BoundInv
  <2>2. Cardinality(ActiveRuns) \in Nat
    BY <2>1, FS_CardinalityType
  <2>3. /\ IsFiniteSet(ActiveRuns \cup {k})
        /\ \/ Cardinality(ActiveRuns \cup {k}) = Cardinality(ActiveRuns)
           \/ Cardinality(ActiveRuns \cup {k}) = Cardinality(ActiveRuns) + 1
    BY <2>1, FS_AddElement, Zenon
  <2>4. QED
    BY <2>2, <2>3
<1>2. /\ IsFiniteSet(ActiveRuns') /\ Cardinality(ActiveRuns') <= Cardinality(ActiveRuns) + 1
      /\ Cardinality(ActiveRuns') \in Nat
  <2>1. IsFiniteSet(ActiveRuns') /\ Cardinality(ActiveRuns') <= Cardinality(ActiveRuns \cup {k})
    BY <1>1, FS_Subset
  <2>2. Cardinality(ActiveRuns') \in Nat
    BY <2>1, FS_CardinalityType
  <2>3. QED
    BY <1>1, <2>1, <2>2
<1>3. ASSUME evicted' = {}
      PROVE  Cardinality(ActiveRuns') + Cardinality(Past') < MaxActiveRuns + Cardinality(Callers)
  <2>1. evicted = {}
    BY <1>3
  <2>2. /\ IsFiniteSet(Past \ {c}) /\ Cardinality(Past \ {c}) = Cardinality(Past) - 1
    BY PastFinite, FS_RemoveElement
  <2>3. Cardinality(Past') <= Cardinality(Past) - 1
    BY <1>3, <2>2, FS_Subset
  <2>4. Cardinality(ActiveRuns) + Cardinality(Past) < MaxActiveRuns + Cardinality(Callers)
    BY <2>1 DEF BoundInv
  <2>5. MaxActiveRuns \in Nat
    BY TaskRunAssumption
  <2>6. QED
    BY <1>1, <1>2, <2>3, <2>4, <2>5, PastFinite
<1>4. QED
  BY <1>2, <1>3 DEF BoundInv

\* Who is past the check in the next state.
LEMMA PastBefore ==
    ASSUME Stepping, evicted' = {}, NEW d \in Callers, call'[d] = call[d], d \in Past'
    PROVE  d \in Past
<1>1. PICK k \in Keys : call[d].key = k /\ call'[d].key = k
  BY CallTyped, SteppingParts DEF KeyOf
<1>2. CASE call'[d].pc \in PastPc
  BY <1>2 DEF Past
<1>3. CASE call'[d].pc = "check" /\ ~HasBegun(k)'
  <2>1. ~HasBegun(k)
    BY <1>3, BegunStays, SteppingParts
  <2>2. QED
    BY <1>1, <1>3, <2>1 DEF Past
<1>4. HasBegun(k)' => HasBegun(call[d].key)'
  BY <1>1 DEF HasBegun
<1>5. QED
  BY <1>2, <1>3, <1>4, InPast

LEMMA CommandPast ==
    ASSUME Stepping, evicted' = {}, NEW c \in Callers, ~Capacity(c),
           StartStep(c) \/ \E k \in Keys, p \in Projects : StartCommand(c, k, p)
    PROVE  Past' \subseteq Past
<1> SUFFICES ASSUME NEW d \in Past' PROVE d \in Past
  OBVIOUS
<1>1. CommandMoved(c) /\ d \in Callers
  BY CommandMoves, SteppingParts, InPast
<1>2. CASE d # c
  BY <1>1, <1>2, PastBefore DEF CommandMoved, SameBut
<1>3. CASE d = c /\ call'[c].pc \in PastPc
  <2>1. CASE call[c].pc \in PastPc
    BY <1>3, <2>1 DEF Past
  <2>2. CASE Check(c)
    <3>1. PICK k : call[c].key = k /\ KeyOf(c) = k
      BY DEF KeyOf
    <3>2. ~Return(c)
      BY <1>3, ReturnMoves, SteppingParts DEF PastPc
    <3>3. call[c].pc = "check" /\ Stored(k) /\ TaskOf(k).run = "queued"
      BY <2>2, <3>1, <3>2 DEF Check, At, StoredFor
    <3>4. ~HasBegun(k)
      BY <3>3, StoredIsRecord, SteppingParts DEF HasBegun
    <3>5. QED
      BY <1>3, <3>1, <3>3, <3>4 DEF Past
  <2>3. QED
    BY <1>1, <1>3, <2>1, <2>2 DEF CommandMoved
<1>4. CASE d = c /\ call'[c].pc = "check" /\ ~HasBegun(call[c].key)'
  <2>1. Register(c)
    BY <1>1, <1>4 DEF CommandMoved
  <2>2. PICK k \in Keys, p \in Projects : call[c].key = k /\ KeyOf(c) = k /\ call[c].project = p
    BY CallTyped, SteppingParts DEF KeyOf
  <2>3. call'[c].key = k
    BY <1>1, <1>4, <2>2 DEF CommandMoved, Registered
  <2>4. ~Return(c) /\ ~Goto(c, "capacity")
    BY <1>4, ReturnMoves, GotoMoves, SteppingParts
  <2>5. Stored(k) /\ TaskOf(k).run \notin {"none", "queued"}
    BY <2>1, <2>2, <2>4 DEF Register, StoredFor
  <2>6. HasBegun(k)
    BY <2>5, StoredIsRecord, SteppingParts DEF HasBegun
  <2>7. HasBegun(k)'
    BY <2>2, <2>6, BegunStays, SteppingParts
  <2>8. HasBegun(call[c].key)'
    BY <2>3, <2>7 DEF HasBegun
  <2>9. QED
    BY <1>4, <2>8
<1>5. QED
  BY <1>2, <1>3, <1>4, InPast

LEMMA StartBounds ==
    ASSUME IsFiniteSet(Callers), Stepping, BoundInv, NEW c \in Callers,
           StartStep(c) \/ \E k \in Keys, p \in Projects : StartCommand(c, k, p)
    PROVE  BoundInv'
<1>1. evicted \subseteq evicted'
  BY SteppingParts
<1>2. CASE Capacity(c)
  <2>1. worker' = worker /\ evicted' = evicted
    BY <1>2 DEF Capacity
  <2>2. ActiveRuns' = ActiveRuns
    BY <2>1 DEF ActiveRuns
  <2>3. CASE Cardinality(ActiveRuns) >= MaxActiveRuns
    <3>1. SameBut(c) /\ call'[c].pc = "idle"
      BY <1>2, <2>3, ReturnMoves, SteppingParts DEF Capacity
    <3>2. ASSUME evicted' = {}, NEW d \in Past' PROVE d \in Past
      BY <3>1, <3>2, PastBefore, InPast DEF SameBut, PastPc
    <3>3. QED
      BY <1>1, <2>2, <3>2, BoundShrinks
  <2>4. CASE ~(Cardinality(ActiveRuns) >= MaxActiveRuns)
    <3>1. Cardinality(ActiveRuns) \in Nat /\ MaxActiveRuns \in Nat
      BY FS_CardinalityType, TaskRunAssumption DEF BoundInv
    <3>2. QED
      BY <2>2, <2>4, <3>1, BoundChecks
  <2>5. QED
    BY <2>3, <2>4
<1>3. CASE Spawn(c)
  <2>1. c \in Past
    BY <1>3 DEF Spawn, At, Past, PastPc
  <2>2. PICK k \in Keys : KeyOf(c) = k
    BY CallTyped, SteppingParts DEF KeyOf
  <2>3. ActiveRuns' \subseteq ActiveRuns \cup {k}
    <3>1. worker' = worker \/ \E w : worker' = [worker EXCEPT ![k] = w]
      BY <1>3, <2>2 DEF Spawn
    <3>2. \A x \in Keys : x # k => worker'[x] = worker[x]
      BY <3>1, SteppingParts DEF RunTyped
    <3>3. QED
      BY <3>2 DEF ActiveRuns
  <2>4. SameBut(c) /\ call'[c].pc = "idle" /\ ~Capacity(c)
    BY <1>3, ReturnMoves, SteppingParts DEF Spawn, Capacity, At
  <2>5. c \notin Past'
    BY <2>4, InPast DEF PastPc
  <2>6. evicted' = {} => Past' \subseteq Past \ {c}
    BY <1>3, <2>4, <2>5, CommandPast DEF StartStep
  <2>7. QED
    BY <1>1, <2>1, <2>3, <2>6, BoundSpawns
<1>4. CASE ~Capacity(c) /\ ~Spawn(c)
  <2>1. worker' = worker
    BY <1>4 DEF StartStep, StartCommand, Create, Accept, Register, Check, Worktree, BeginRunStep,
                ThreadStart, Prepare, TurnStart, Await, Bind, CollectStart, FinalizeStart, CleanupStart
  <2>2. ActiveRuns' \subseteq ActiveRuns
    BY <2>1 DEF ActiveRuns
  <2>3. QED
    BY <1>1, <1>4, <2>2, CommandPast, BoundShrinks
<1>5. QED
  BY <1>2, <1>3, <1>4

\* A worker leaves the map, and nobody else enters it.
LEMMA WorldBounds ==
    ASSUME [Next]_vars, RunTyped,
           ~\E c \in Callers :
                StartStep(c) \/ \E k \in Keys, p \in Projects : StartCommand(c, k, p)
    PROVE  ActiveRuns' \subseteq ActiveRuns
<1>1. ASSUME NEW k \in Keys, Stop(k) \/ WorkerStep(k) PROVE ActiveRuns' \subseteq ActiveRuns
  <2>1. worker[k].pc # "none"
    BY <1>1 DEF Stop, ActiveRuns, WorkerStep, Interrupt, Poll, CheckActive, Collect, Finalize,
                CleanupRun, Abandon, Remove, WorkerAt
  <2>2. \A x \in Keys : x # k => worker'[x] = worker[x]
    <3>1. ASSUME NEW pc, WorkerGoto(k, pc) PROVE \A x \in Keys : x # k => worker'[x] = worker[x]
      BY <3>1, WorkerGotoMoves
    <3>2. ASSUME NEW o, Finish(k, o) PROVE \A x \in Keys : x # k => worker'[x] = worker[x]
      BY <3>2, FinishMoves
    <3>3. CASE FinishUnknown(k)
      BY <3>3, FinishUnknownMoves
    <3>4. CASE GiveUp(k)
      BY <3>4, GiveUpMoves
    <3>5. CASE \/ worker' = [worker EXCEPT ![k].stop = TRUE]
               \/ worker' = [worker EXCEPT ![k].interrupted = TRUE]
               \/ worker' = [worker EXCEPT ![k] = NoWorker]
      BY <3>5 DEF RunTyped
    <3>6. CASE Stop(k) \/ Interrupt(k) \/ Remove(k)
      BY <3>3, <3>5, <3>6 DEF Stop, Interrupt, Remove
    <3>7. CASE Poll(k)
      BY <3>1, <3>2, <3>3, <3>7 DEF Poll, Observe
    <3>8. CASE CheckActive(k) \/ Collect(k) \/ Finalize(k) \/ CleanupRun(k) \/ Abandon(k)
      BY <3>1, <3>2, <3>3, <3>4, <3>8 DEF CheckActive, Collect, Finalize, CleanupRun, Abandon
    <3>9. QED
      BY <1>1, <3>6, <3>7, <3>8 DEF WorkerStep
  <2>3. QED
    BY <2>1, <2>2 DEF ActiveRuns
<1>2. CASE Startup \/ Connect \/ Disconnect \/ UNCHANGED vars
  BY <1>2 DEF Startup, Connect, Disconnect, vars, runVars, ActiveRuns
<1>3. CASE Crash
  BY <1>3 DEF Crash, NoWorker, ActiveRuns
<1>4. CASE \E h \in Threads :
             \/ TurnStarts(h)
             \/ \E kind \in {"running", "waitingApproval"} : TurnNotifies(h, kind)
             \/ \E kind \in TerminalEvent : TurnEnds(h, kind)
  BY <1>4 DEF TurnStarts, TurnNotifies, TurnEnds, ActiveRuns
<1>5. QED
  BY <1>1, <1>2, <1>3, <1>4 DEF Next

LEMMA BoundStep == ASSUME IsFiniteSet(Callers) PROVE HoldInv /\ BoundInv /\ [Next]_vars => BoundInv'
<1> SUFFICES ASSUME HoldInv, BoundInv, [Next]_vars PROVE BoundInv'
  OBVIOUS
<1>1. Stepping
  BY RunStep DEF Stepping, HoldInv
<1>2. ASSUME NEW c \in Callers,
             StartStep(c) \/ \E k \in Keys, p \in Projects : StartCommand(c, k, p)
      PROVE  BoundInv'
  BY <1>1, <1>2, StartBounds
<1>3. CASE ~\E c \in Callers :
             StartStep(c) \/ \E k \in Keys, p \in Projects : StartCommand(c, k, p)
  <2>1. ActiveRuns' \subseteq ActiveRuns /\ evicted \subseteq evicted'
    BY <1>1, <1>3, WorldBounds, SteppingParts
  <2>2. call' = call \/ \A c \in Callers : call'[c].pc = "idle"
    BY <1>3, WorldKeepsTrees
  <2>3. ASSUME evicted' = {}, NEW d \in Past' PROVE d \in Past
    BY <1>1, <2>2, <2>3, PastBefore, InPast DEF PastPc
  <2>4. QED
    BY <2>1, <2>3, BoundShrinks
<1>4. QED
  BY <1>2, <1>3

LEMMA BoundInit == ASSUME IsFiniteSet(Callers), Callers # {} PROVE Init => BoundInv
<1> SUFFICES ASSUME Init PROVE BoundInv
  OBVIOUS
<1>1. ActiveRuns = {} /\ Past = {}
  BY DEF Init, ActiveRuns, Past, NoWorker, Idle, PastPc
<1>2. Cardinality(Callers) \in Nat /\ Cardinality(Callers) # 0 /\ MaxActiveRuns \in Nat
  BY FS_CardinalityType, FS_EmptySet, TaskRunAssumption
<1>3. QED
  BY <1>1, <1>2, FS_EmptySet DEF BoundInv

(***************************************************************************)
(* However many start commands race past the capacity check, the runs in   *)
(* the active map overshoot MAX_ACTIVE_RUNS by less than the number of     *)
(* commands, as long as no task was dropped from the list.  A task that is *)
(* dropped and created again can be queued although a command has read it  *)
(* as begun and, for that reason, skipped the check.                       *)
(***************************************************************************)
THEOREM RacesOvershootLittle ==
    ASSUME IsFiniteSet(Callers), Callers # {}
    PROVE  Spec => [](evicted = {} => ActiveRunsBounded)
<1>1. BoundInv => (evicted = {} => ActiveRunsBounded)
  <2> SUFFICES ASSUME BoundInv, evicted = {} PROVE ActiveRunsBounded
    OBVIOUS
  <2>1. /\ Cardinality(ActiveRuns) + Cardinality(Past) < MaxActiveRuns + Cardinality(Callers)
        /\ Cardinality(ActiveRuns) \in Nat /\ MaxActiveRuns \in Nat
    BY FS_CardinalityType, TaskRunAssumption DEF BoundInv
  <2>2. QED
    BY <2>1, PastFinite DEF ActiveRunsBounded
<1>2. HoldInv /\ BoundInv /\ [Next]_vars => HoldInv' /\ BoundInv'
  BY HoldStep, BoundStep
<1>3. QED
  BY <1>1, <1>2, HoldInit, BoundInit, PTL DEF Spec
=============================================================================

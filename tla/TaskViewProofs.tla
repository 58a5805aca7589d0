--------------------------- MODULE TaskViewProofs ---------------------------
(***************************************************************************)
(* Proofs about the window over the Task store, for any number of tasks,   *)
(* projects, lifecycles and messages under way: it shows tasks of its own  *)
(* project, never goes back to an older record, and misses nothing.        *)
(*                                                                         *)
(* Both ways of taking records in, upsertTask and mergeInitialTasks, are   *)
(* reduced to one fact: the result has one record of each task, and for    *)
(* every record shown or brought one that is at least as new.              *)
(***************************************************************************)
EXTENDS TaskView, TaskServiceProofs

OneEach(tasks) == \A t, u \in tasks : t.key = u.key => t = u

\* result holds records of old and new only, one of each task, none outdated.
Combines(old, new, result) ==
    /\ result \subseteq old \cup new
    /\ OneEach(result)
    /\ \A t \in old \cup new : \E u \in result : u.key = t.key /\ u.events >= t.events

LEMMA UpsertCombines ==
    ASSUME view \subseteq Shown, OneEach(view), NEW tasks \in SUBSET Shown, OneEach(tasks)
    PROVE  Combines(view, tasks, UpsertTask(tasks))
<1> DEFINE newer == {t \in tasks : ~\E u \in view : u.key = t.key /\ u.events > t.events}
           result == newer \cup {t \in view : ~\E u \in newer : u.key = t.key}
<1>1. UpsertTask(tasks) = result
  BY DEF UpsertTask
<1>2. \A t \in view \cup tasks : t.events \in Int
  BY DEF Shown
<1>3. result \subseteq view \cup tasks
  OBVIOUS
<1>4. OneEach(result)
  BY DEF OneEach
<1>5. ASSUME NEW t \in view
      PROVE  \E u \in result : u.key = t.key /\ u.events >= t.events
  <2>1. CASE \E u \in newer : u.key = t.key
    BY <1>2, <2>1
  <2>2. CASE ~\E u \in newer : u.key = t.key
    BY <1>2, <2>2
  <2>3. QED
    BY <2>1, <2>2
<1>6. ASSUME NEW t \in tasks
      PROVE  \E u \in result : u.key = t.key /\ u.events >= t.events
  <2>1. CASE t \in newer
    BY <1>2, <2>1
  <2>2. CASE t \notin newer
    <3>1. PICK u \in view : u.key = t.key /\ u.events > t.events
      BY <2>2
    <3>2. ~\E v \in newer : v.key = u.key
      BY <2>2, <3>1 DEF OneEach
    <3>3. u \in result
      BY <3>2
    <3>4. QED
      BY <1>2, <3>1, <3>3
  <2>3. QED
    BY <2>1, <2>2
<1>7. QED
  BY <1>1, <1>3, <1>4, <1>5, <1>6 DEF Combines

LEMMA MergeCombines ==
    ASSUME view \subseteq Shown, OneEach(view), NEW tasks \in SUBSET Shown, OneEach(tasks)
    PROVE  Combines(view, tasks, MergeInitialTasks(tasks))
<1> DEFINE kept == {t \in view : ~\E u \in tasks : u.key = t.key /\ u.events > t.events}
           result == kept \cup {t \in tasks : ~\E u \in kept : u.key = t.key}
<1>1. MergeInitialTasks(tasks) = result
  BY DEF MergeInitialTasks
<1>2. \A t \in view \cup tasks : t.events \in Int
  BY DEF Shown
<1>3. result \subseteq view \cup tasks
  OBVIOUS
<1>4. OneEach(result)
  BY DEF OneEach
<1>5. ASSUME NEW t \in tasks
      PROVE  \E u \in result : u.key = t.key /\ u.events >= t.events
  <2>1. CASE \E u \in kept : u.key = t.key
    BY <1>2, <2>1
  <2>2. CASE ~\E u \in kept : u.key = t.key
    BY <1>2, <2>2
  <2>3. QED
    BY <2>1, <2>2
<1>6. ASSUME NEW t \in view
      PROVE  \E u \in result : u.key = t.key /\ u.events >= t.events
  <2>1. CASE t \in kept
    BY <1>2, <2>1
  <2>2. CASE t \notin kept
    <3>1. PICK u \in tasks : u.key = t.key /\ u.events > t.events
      BY <2>2
    <3>2. ~\E v \in kept : v.key = u.key
      BY <2>2, <3>1 DEF OneEach
    <3>3. u \in result
      BY <3>2
    <3>4. QED
      BY <1>2, <3>1, <3>3
  <2>3. QED
    BY <2>1, <2>2
<1>7. QED
  BY <1>1, <1>3, <1>4, <1>5, <1>6 DEF Combines

-----------------------------------------------------------------------------
(***************************************************************************)
(* The inductive invariant: beside ViewInv, what is known of the messages  *)
(* under way, and that a record that is due is shown or under way.         *)
(***************************************************************************)

\* A message is for one lifecycle and its project, and holds one record of each task;
\* only an update may be about another project.
MessageGood(m) ==
    /\ m \in Message
    /\ OneEach(m.tasks)
    /\ m.kind # "update" => \A t \in m.tasks : t.project = m.project
    /\ m.life <= life
    /\ m.life = life => m.project = project

\* A record of k at least as new as n is shown, or on its way to this lifecycle.
Reaches(k, n) ==
    \/ \E t \in view : t.key = k /\ t.events >= n
    \/ \E m \in inFlight :
          m.life = life /\ Concerns(m) /\ \E t \in m.tasks : t.key = k /\ t.events >= n

NothingMissed ==
    covered => /\ listener = "active"
               /\ \A k \in Keys : due[k] >= 0 => Reaches(k, due[k])

ViewTyped ==
    /\ life \in 0..MaxLives
    /\ due \in [Keys -> Int]
    /\ covered \in BOOLEAN
    /\ listing = "asked" => project # NoProject
    /\ listener # "none" => project # NoProject

ViewGood ==
    /\ ViewInv
    /\ ViewTyped
    /\ \A m \in inFlight : MessageGood(m)
    /\ NothingMissed

WindowInv == ServiceInv /\ ViewGood

\* What the store holds: the copies of its tasks are well formed, one of each key.
LEMMA CacheFacts ==
    ASSUME ServiceInv
    PROVE  /\ \A i \in DOMAIN cache : cache[i] \in StoredTask /\ Copy(cache[i]) \in Shown
           /\ \A i, j \in DOMAIN cache : cache[i].key = cache[j].key => i = j
<1>1. CASE loaded
  BY <1>1 DEF ServiceInv, TaskOK, KeysUnique, StoredTask, Copy, Shown
<1>2. CASE ~loaded
  <2>1. DOMAIN cache = {}
    BY <1>2 DEF ServiceInv
  <2>2. QED
    BY <2>1
<1>3. QED
  BY <1>1, <1>2

\* A stored task and its copy.
LEMMA TaskFacts ==
    ASSUME ServiceInv, NEW k, Stored(k)
    PROVE  /\ TaskOf(k).key = k /\ k \in Keys
           /\ TaskOf(k).project \in Projects
           /\ TaskOf(k).events \in Int
           /\ Copy(TaskOf(k)) \in Shown
           /\ Copy(TaskOf(k)).key = k
           /\ Copy(TaskOf(k)).project = TaskOf(k).project
           /\ Copy(TaskOf(k)).events = TaskOf(k).events
           /\ Copy(TaskOf(k)) \in TasksFor(TaskOf(k).project)
<1>1. /\ Position(cache, k) \in DOMAIN cache
      /\ TaskOf(k) = cache[Position(cache, k)]
      /\ TaskOf(k).key = k
  BY PositionFound DEF Stored, TaskOf
<1>2. TaskOf(k) \in StoredTask /\ Copy(TaskOf(k)) \in Shown
  BY <1>1, CacheFacts
<1>3. QED
  BY <1>1, <1>2 DEF StoredTask, Copy, TasksFor

LEMMA TasksForFacts ==
    ASSUME ServiceInv, NEW p
    PROVE  /\ TasksFor(p) \subseteq Shown
           /\ OneEach(TasksFor(p))
           /\ \A t \in TasksFor(p) : t.project = p
<1>1. ASSUME NEW t \in TasksFor(p)
      PROVE  \E i \in DOMAIN cache : t = Copy(cache[i]) /\ cache[i].project = p
  BY DEF TasksFor
<1>2. \A i \in DOMAIN cache : Copy(cache[i]).key = cache[i].key
                              /\ Copy(cache[i]).project = cache[i].project
  BY DEF Copy
<1>3. OneEach(TasksFor(p))
  BY <1>1, <1>2, CacheFacts DEF OneEach
<1>4. QED
  BY <1>1, <1>2, <1>3, CacheFacts

-----------------------------------------------------------------------------
(***************************************************************************)
(* One lemma per step of the window.                                       *)
(***************************************************************************)

\* A new lifecycle shows nothing, and every message under way is of an earlier one.
LEMMA BeginGood ==
    ASSUME ViewGood, NEW p \in Projects \cup {NoProject}, Begin(p), inFlight' \subseteq inFlight
    PROVE  ViewGood'
<1> USE DEF ViewGood
<1>1. life' = life + 1 /\ life \in Int /\ life' \in 0..MaxLives
  BY TaskViewAssumption DEF Begin, ViewTyped
<1>2. ViewInv'
  BY DEF Begin, ViewInv, ViewTypeOK, ViewOfProject
<1>d. due' \in [Keys -> Int]
  BY DEF Begin
<1>3. ViewTyped'
  BY <1>1, <1>d DEF Begin, ViewTyped
<1>4. \A m \in inFlight : m.life \in Int
  BY DEF MessageGood, Message
<1>5. \A m \in inFlight' : MessageGood(m)'
  BY <1>1, <1>4 DEF MessageGood
<1>6. NothingMissed'
  BY DEF Begin, NothingMissed
<1>7. QED
  BY <1>2, <1>3, <1>5, <1>6

\* The window before it listens has missed nothing yet.
LEMMA SubscribeGood ==
    ASSUME ViewGood, Subscribe
    PROVE  ViewGood'
<1> USE DEF ViewGood, Subscribe
<1>1. ViewInv' /\ ViewTyped'
  BY DEF ViewInv, ViewTypeOK, ViewOfProject, ViewTyped
<1>2. \A m \in inFlight' : MessageGood(m)'
  BY DEF MessageGood
<1>3. ~covered
  BY DEF NothingMissed
<1>4. NothingMissed'
  BY <1>3 DEF NothingMissed
<1>5. QED
  BY <1>1, <1>2, <1>4

\* A message that is sent is for this lifecycle, and about its project or an update.
LEMMA SendGood ==
    ASSUME ViewGood, NEW kind \in {"listing", "update", "answer"}, project \in Projects,
           NEW tasks \in SUBSET Shown, OneEach(tasks),
           kind # "update" => \A t \in tasks : t.project = project,
           Send(kind, tasks), UNCHANGED <<project, life>>
    PROVE  /\ inFlight \subseteq inFlight'
           /\ \A m \in inFlight' : MessageGood(m)'
           /\ (\A t \in tasks : t.project = project) =>
                 \E m \in inFlight' : m.life = life /\ Concerns(m) /\ m.tasks = tasks
<1> DEFINE new == [kind |-> kind, life |-> life, project |-> project, tasks |-> tasks]
<1>1. inFlight' = inFlight \cup {new}
  BY DEF Send
<1>2. /\ new \in Message /\ new.life = life /\ new.tasks = tasks /\ new.project = project
      /\ new.kind = kind /\ life <= life
  BY DEF Message, ViewGood, ViewTyped
<1> HIDE DEF new
<1>3. ASSUME NEW m, m = new
      PROVE  MessageGood(m)'
  BY <1>2, <1>3 DEF MessageGood
<1>4. \A m \in inFlight : MessageGood(m)'
  BY DEF ViewGood, MessageGood
<1>5. QED
  BY <1>1, <1>2, <1>3, <1>4 DEF Concerns

\* What reached the window, or was under way, still does when more is sent.
LEMMA ReachesKept ==
    ASSUME inFlight \subseteq inFlight', UNCHANGED <<life, view>>
    PROVE  \A k, n : Reaches(k, n) => Reaches(k, n)'
BY DEF Reaches, Concerns

LEMMA ListGood ==
    ASSUME WindowInv, List
    PROVE  ViewGood'
<1> USE DEF WindowInv, ViewGood
<1>0. UNCHANGED <<project, life, view, listener>> /\ listing = "asked"
  BY DEF List
<1>1. project \in Projects
  BY <1>0 DEF ViewTyped, ViewInv, ViewTypeOK
<1>2. CASE listing' = "taken"
  <2>1. /\ Send("listing", TasksFor(project))
        /\ covered' = (listener = "active")
        /\ due' = [k \in Keys |-> IF StoredFor(k, project) THEN TaskOf(k).events ELSE -1]
        /\ UNCHANGED phase
    BY <1>2 DEF List
  <2>2. /\ inFlight \subseteq inFlight'
        /\ \A m \in inFlight' : MessageGood(m)'
        /\ \E m \in inFlight' : m.life = life /\ Concerns(m) /\ m.tasks = TasksFor(project)
    BY <1>0, <1>1, <2>1, TasksForFacts, SendGood
  <2>3. ViewInv'
    BY <1>0, <1>2, <2>1, <2>2 DEF ViewInv, ViewTypeOK, ViewOfProject, MessageGood
  <2>4. ViewTyped'
    BY <1>0, <1>2, <2>1, TaskFacts DEF ViewTyped, StoredFor
  <2>5. ASSUME NEW k \in Keys, due'[k] >= 0
        PROVE  Reaches(k, due[k])'
    <3>1. StoredFor(k, project) /\ due'[k] = TaskOf(k).events
      BY <2>1, <2>5
    <3>2. /\ Copy(TaskOf(k)) \in TasksFor(project)
          /\ Copy(TaskOf(k)).key = k /\ Copy(TaskOf(k)).events = due'[k]
          /\ due'[k] >= due'[k]
      BY <3>1, TaskFacts DEF StoredFor, TaskOf
    <3>3. QED
      BY <1>0, <2>2, <3>2 DEF Reaches, Concerns
  <2>6. NothingMissed'
    BY <1>0, <2>1, <2>5 DEF NothingMissed
  <2>7. QED
    BY <2>2, <2>3, <2>4, <2>6
<1>3. CASE listing' = "failed"
  <2>1. UNCHANGED <<inFlight, covered, due>> /\ phase' = "error"
    BY <1>3 DEF List
  <2>2. ViewInv' /\ ViewTyped'
    BY <1>0, <1>3, <2>1 DEF ViewInv, ViewTypeOK, ViewOfProject, ViewTyped
  <2>3. \A m \in inFlight' : MessageGood(m)'
    BY <1>0, <2>1 DEF MessageGood
  <2>4. NothingMissed'
    BY <1>0, <2>1 DEF NothingMissed, Reaches, Concerns
  <2>5. QED
    BY <2>2, <2>3, <2>4
<1>4. QED
  BY <1>2, <1>3 DEF List

\* A record of the project that becomes due is sent to a window that listens.
LEMMA PublishGood ==
    ASSUME WindowInv, NEW k \in Keys, PublishUpdate(k)
    PROVE  ViewGood'
<1> USE DEF WindowInv, ViewGood
<1> DEFINE t == Copy(TaskOf(k))
<1>0. /\ UNCHANGED <<project, life, phase, view, listener, listing, covered>>
      /\ due' = [due EXCEPT ![k] = IF TaskOf(k).project = project
                                     THEN Newest(TaskOf(k), @) ELSE @]
      /\ Stored(k)
  BY DEF PublishUpdate, StoredFor, TaskOf
<1>1. /\ t \in Shown /\ t.key = k /\ t.project = TaskOf(k).project
      /\ t.events = TaskOf(k).events /\ TaskOf(k).events \in Int
  BY <1>0, TaskFacts
<1> HIDE DEF t
<1>2. /\ inFlight \subseteq inFlight'
      /\ \A m \in inFlight' : MessageGood(m)'
      /\ listener = "active" /\ t.project = project =>
            \E m \in inFlight' : m.life = life /\ Concerns(m) /\ m.tasks = {t}
  <2>1. CASE listener = "active"
    <3>1. Send("update", {t}) /\ OneEach({t}) /\ {t} \in SUBSET Shown
      BY <1>1, <2>1 DEF PublishUpdate, OneEach, t
    <3>2. project \in Projects
      BY <2>1 DEF ViewTyped, ViewInv, ViewTypeOK
    <3>3. QED
      BY <1>0, <3>1, <3>2, SendGood
  <2>2. CASE listener # "active"
    BY <1>0, <2>2 DEF PublishUpdate, MessageGood
  <2>3. QED
    BY <2>1, <2>2
<1>3. ViewInv'
  BY <1>0, <1>2 DEF ViewInv, ViewTypeOK, ViewOfProject, MessageGood
<1>4. /\ due' \in [Keys -> Int]
      /\ \A j \in Keys : j # k => due'[j] = due[j]
      /\ due'[k] = due[k] \/ (due'[k] = t.events /\ t.project = project)
  BY <1>0, <1>1 DEF ViewTyped, Newest
<1>5. ViewTyped'
  BY <1>0, <1>4 DEF ViewTyped
<1>6. ASSUME covered, NEW j \in Keys, due'[j] >= 0
      PROVE  Reaches(j, due[j])'
  <2>1. CASE due'[j] = due[j]
    BY <1>0, <1>2, <1>6, <2>1, ReachesKept DEF NothingMissed
  <2>2. CASE due'[j] # due[j]
    <3>1. j = k /\ due'[k] = t.events /\ t.events >= t.events /\ t.project = project
      BY <1>1, <1>4, <2>2
    <3>2. QED
      BY <1>0, <1>1, <1>2, <1>6, <3>1 DEF NothingMissed, Reaches, Concerns
  <2>3. QED
    BY <2>1, <2>2
<1>7. NothingMissed'
  BY <1>0, <1>6 DEF NothingMissed
<1>8. QED
  BY <1>2, <1>3, <1>5, <1>7

LEMMA AnswerGood ==
    ASSUME WindowInv, NEW k \in Keys, AnswerCommand(k)
    PROVE  ViewGood'
<1> USE DEF WindowInv, ViewGood
<1> DEFINE t == Copy(TaskOf(k))
<1>0. /\ UNCHANGED <<project, life, phase, view, listener, listing, due, covered>>
      /\ Stored(k) /\ TaskOf(k).project = project
      /\ Send("answer", {t})
  BY DEF AnswerCommand, StoredFor, TaskOf
<1>1. t \in Shown /\ t.project = project /\ project \in Projects
  BY <1>0, TaskFacts
<1> HIDE DEF t
<1>2. OneEach({t}) /\ {t} \in SUBSET Shown
  BY <1>1 DEF OneEach
<1>3. inFlight \subseteq inFlight' /\ \A m \in inFlight' : MessageGood(m)'
  BY <1>0, <1>1, <1>2, SendGood
<1>4. ViewInv' /\ ViewTyped'
  BY <1>0, <1>3 DEF ViewInv, ViewTypeOK, ViewOfProject, MessageGood, ViewTyped
<1>5. NothingMissed'
  BY <1>0, <1>3, ReachesKept DEF NothingMissed
<1>6. QED
  BY <1>3, <1>4, <1>5

\* What a delivery makes of the window.
LEMMA DeliverCombines ==
    ASSUME ViewGood, NEW m \in inFlight, Deliver(m)
    PROVE  /\ UNCHANGED <<project, life, listener, due, covered>>
           /\ inFlight' = inFlight \ {m}
           /\ phase' \in {"loading", "empty", "ready", "error"}
           /\ listing' \in {listing, "received"}
           /\ \/ ~(m.life = life /\ Concerns(m)) /\ view' = view
              \/ /\ m.life = life
                 /\ \A t \in m.tasks : t.project = project
                 /\ Combines(view, m.tasks, view')
<1> USE DEF ViewGood
<1>1. /\ view \subseteq Shown /\ OneEach(view)
      /\ phase \in {"loading", "empty", "ready", "error"}
  BY DEF ViewInv, ViewTypeOK, OneEach
<1>2. /\ m.tasks \in SUBSET Shown /\ OneEach(m.tasks)
      /\ IsCurrent(m) <=> m.life = life
      /\ m.life = life => m.project = project
      /\ m.kind # "update" => \A t \in m.tasks : t.project = m.project
      /\ Concerns(m) <=> \A t \in m.tasks : t.project = m.project
  BY DEF MessageGood, Message, IsCurrent, Concerns
<1>3. CASE ~(IsCurrent(m) /\ Concerns(m))
  BY <1>1, <1>2, <1>3 DEF Deliver
<1>4. CASE IsCurrent(m) /\ Concerns(m) /\ m.kind = "listing"
  BY <1>1, <1>2, <1>4, MergeCombines DEF Deliver, TaskState
<1>5. CASE IsCurrent(m) /\ Concerns(m) /\ m.kind # "listing"
  BY <1>1, <1>2, <1>5, UpsertCombines DEF Deliver, TaskState
<1>6. QED
  BY <1>3, <1>4, <1>5

LEMMA DeliverGood ==
    ASSUME ViewGood, NEW m \in inFlight, Deliver(m)
    PROVE  ViewGood'
<1> USE DEF ViewGood
<1>0. /\ UNCHANGED <<project, life, listener, due, covered>>
      /\ inFlight' = inFlight \ {m}
      /\ phase' \in {"loading", "empty", "ready", "error"}
      /\ listing' \in {listing, "received"}
  BY DeliverCombines
<1>1. /\ MessageGood(m)
      /\ view \subseteq Shown /\ OneEach(view) /\ \A t \in view : t.project = project
  BY DEF ViewInv, ViewTypeOK, ViewOfProject, OneEach
<1>2. /\ view' \subseteq Shown /\ OneEach(view') /\ \A t \in view' : t.project = project
      /\ \A t \in view : \E u \in view' : u.key = t.key /\ u.events >= t.events
  <2>1. CASE view' = view
    <3>1. \A t \in view : t.events >= t.events
      BY <1>1 DEF Shown
    <3>2. QED
      BY <1>1, <2>1, <3>1
  <2>2. CASE (\A t \in m.tasks : t.project = project) /\ Combines(view, m.tasks, view')
    BY <1>1, <2>2 DEF Combines, MessageGood, Message
  <2>3. QED
    BY <2>1, <2>2, DeliverCombines
<1>3. ViewInv' /\ ViewTyped'
  BY <1>0, <1>2 DEF ViewInv, ViewTypeOK, ViewOfProject, ViewTyped, OneEach
<1>4. \A n \in inFlight' : MessageGood(n)'
  BY <1>0 DEF MessageGood
<1>5. ASSUME NEW k, NEW n \in Int, Reaches(k, n)
      PROVE  Reaches(k, n)'
  <2>1. \A t \in view \cup view' \cup m.tasks : t.events \in Int
    BY <1>1, <1>2 DEF MessageGood, Message, Shown
  <2>2. CASE \E t \in view : t.key = k /\ t.events >= n
    <3>1. PICK t \in view : t.key = k /\ t.events >= n
      BY <2>2
    <3>2. PICK u \in view' : u.key = t.key /\ u.events >= t.events
      BY <1>2
    <3>3. u.events >= n
      BY <2>1, <3>1, <3>2
    <3>4. QED
      BY <3>1, <3>2, <3>3 DEF Reaches
  <2>3. CASE m.life = life /\ Concerns(m) /\ \E t \in m.tasks : t.key = k /\ t.events >= n
    <3>1. PICK t \in m.tasks : t.key = k /\ t.events >= n
      BY <2>3
    <3>2. PICK u \in view' : u.key = t.key /\ u.events >= t.events
      BY <2>3, DeliverCombines DEF Combines
    <3>3. u.events >= n
      BY <2>1, <3>1, <3>2
    <3>4. QED
      BY <3>1, <3>2, <3>3 DEF Reaches
  <2>4. CASE \E r \in inFlight \ {m} :
                /\ r.life = life
                /\ Concerns(r)
                /\ \E t \in r.tasks : t.key = k /\ t.events >= n
    BY <1>0, <2>4 DEF Reaches, Concerns
  <2>5. QED
    BY <1>5, <2>2, <2>3, <2>4 DEF Reaches
<1>6. NothingMissed'
  BY <1>0, <1>5 DEF NothingMissed, ViewTyped
<1>7. QED
  BY <1>3, <1>4, <1>6

LEMMA ViewSame ==
    ASSUME ViewGood, UNCHANGED viewVars
    PROVE  ViewGood'
BY DEF ViewGood, viewVars, ViewInv, ViewTypeOK, ViewOfProject, ViewTyped, MessageGood,
       NothingMissed, Reaches, Concerns

-----------------------------------------------------------------------------

LEMMA WindowInit == Init => WindowInv
<1> SUFFICES ASSUME Init PROVE WindowInv
  OBVIOUS
<1>1. ServiceInv
  BY InitInv DEF Init
<1>2. ViewInv
  BY DEF Init, ViewInv, ViewTypeOK, ViewOfProject
<1>d. due \in [Keys -> Int] /\ 0 \in 0..MaxLives
  BY TaskViewAssumption DEF Init
<1>3. ViewTyped
  BY <1>d DEF Init, ViewTyped
<1>4. NothingMissed
  BY DEF Init, NothingMissed
<1>5. QED
  BY <1>1, <1>2, <1>3, <1>4 DEF Init, WindowInv, ViewGood

LEMMA WindowStep == WindowInv /\ [Next]_vars => WindowInv'
<1> SUFFICES ASSUME WindowInv, [Next]_vars PROVE WindowInv'
  OBVIOUS
<1>1. ServiceInv /\ ViewGood
  BY DEF WindowInv
<1>2. [ServiceNext]_serviceVars
  BY DEF Next, StoreStep, Quit, ViewNext, Select, Subscribe, List, PublishUpdate,
     AnswerCommand, Deliver, ServiceNext, vars
<1>3. ServiceInv'
  BY <1>1, <1>2, NextStep DEF GoodStep
<1>4. ViewGood'
  <2>1. CASE StoreStep \/ UNCHANGED vars
    BY <1>1, <2>1, ViewSame DEF StoreStep, vars
  <2>2. CASE Quit
    BY <1>1, <2>2, BeginGood DEF Quit
  <2>3. ASSUME NEW p \in Projects \cup {NoProject}, Select(p)
        PROVE  ViewGood'
    BY <1>1, <2>3, BeginGood DEF Select
  <2>4. CASE Subscribe \/ List
    BY <1>1, <2>4, SubscribeGood, ListGood
  <2>5. ASSUME NEW k \in Keys, PublishUpdate(k) \/ AnswerCommand(k)
        PROVE  ViewGood'
    BY <2>5, PublishGood, AnswerGood
  <2>6. ASSUME NEW m \in inFlight, Deliver(m)
        PROVE  ViewGood'
    BY <1>1, <2>6, DeliverGood
  <2>7. QED
    BY <2>1, <2>2, <2>3, <2>4, <2>5, <2>6 DEF Next, ViewNext
<1>5. QED
  BY <1>3, <1>4 DEF WindowInv

LEMMA WindowInvariant == Spec => []WindowInv
BY WindowInit, WindowStep, PTL DEF Spec

(***************************************************************************)
(* useTasks shows well-formed tasks of the selected project, one record of *)
(* each, whatever answers for earlier selections are still on their way,   *)
(* although it is sent the updates of every project.                       *)
(***************************************************************************)
THEOREM WindowShowsItsProject == Spec => []ViewInv
<1>1. WindowInv => ViewInv
  BY DEF WindowInv, ViewGood
<1>2. QED
  BY <1>1, WindowInvariant, PTL

(***************************************************************************)
(* While a project stays selected no task disappears from the window and   *)
(* none goes back to an older record, in whichever order messages arrive.  *)
(***************************************************************************)
THEOREM WindowNeverGoesBack == Spec => ViewNeverGoesBack
<1>1. WindowInv /\ [Next]_vars =>
        [life' = life =>
          \A t \in view : \E u \in view' : u.key = t.key /\ u.events >= t.events]_vars
  <2> SUFFICES ASSUME WindowInv, Next, life' = life
               PROVE  \A t \in view : \E u \in view' : u.key = t.key /\ u.events >= t.events
    OBVIOUS
  <2>0. \A t \in view : t.events >= t.events
    BY DEF WindowInv, ViewGood, ViewInv, ViewTypeOK, Shown
  <2>1. \A p : ~Begin(p)
    BY DEF Begin, WindowInv, ViewGood, ViewTyped
  <2>2. ASSUME NEW m \in inFlight, Deliver(m)
        PROVE  \A t \in view : \E u \in view' : u.key = t.key /\ u.events >= t.events
    BY <2>0, <2>2, DeliverCombines DEF WindowInv, Combines
  <2>3. CASE UNCHANGED view
    BY <2>0, <2>3
  <2>4. QED
    BY <2>1, <2>2, <2>3
    DEF Next, StoreStep, viewVars, Quit, ViewNext, Select, Subscribe, List, PublishUpdate,
        AnswerCommand
<1>2. QED
  BY <1>1, WindowInvariant, PTL DEF Spec, ViewNeverGoesBack

(***************************************************************************)
(* When the subscription was in place before the listing was taken, and    *)
(* everything sent has arrived, the window shows every task at least as    *)
(* far as its last published update: nothing falls between the two.        *)
(***************************************************************************)
THEOREM WindowCatchesUp == Spec => []ViewCatchesUp
<1>1. WindowInv => ViewCatchesUp
  BY DEF WindowInv, ViewGood, NothingMissed, Reaches, ViewCatchesUp
<1>2. QED
  BY <1>1, WindowInvariant, PTL
=============================================================================

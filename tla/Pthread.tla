------------------------------- MODULE Pthread -------------------------------
(***************************************************************************)
(* Threads over FreeRTOS tasks (pthread/pthread.c) and their mutexes       *)
(* (pthread/mutex.c): creation and its handshake, the life of a task from  *)
(* entry to end, joining, stopping, suspending and resuming by id.         *)
(*                                                                         *)
(* All tasks have one priority and are time-sliced, so any of them may run *)
(* between any two steps.  A step runs from one access to what tasks share *)
(* to the next: the list of threads, a thread's structure, a semaphore or a *)
(* queue.  An operation on a list is one step, see HandleList.             *)
(*                                                                         *)
(* Every element of Threads stands for one thread structure with its task  *)
(* and is used once; ids are used again.                                   *)
(***************************************************************************)
EXTENDS Integers, Sequences, FiniteSets

CONSTANTS
  Threads,
  Main,        \* the thread that user_init starts and that never ends
  None,        \* no thread
  Ids,         \* the handles of thread_list
  MainId,
  Mutexes,     \* mutexes of thread code
  Recursive,   \* those of type PTHREAD_MUTEX_RECURSIVE
  MaxDepth,    \* bound of the model: how often a mutex is taken recursively
  MaxJoins,    \* bound of the model: how many join one thread
  Calls,       \* what threads call besides pthread_create: see CallNames
  TaskFails    \* whether xTaskCreate may run out of memory

CallNames == {"join", "stop", "suspend", "resume"}

ASSUME ThreadAssumption ==
  /\ Main \in Threads
  /\ None \notin Threads
  /\ MainId \in Ids
  /\ Recursive \subseteq Mutexes
  /\ MaxDepth \in Nat
  /\ MaxJoins \in Nat
  /\ Calls \subseteq CallNames
  /\ TaskFails \in BOOLEAN

VARIABLES
  table,   \* thread_list: the thread with each id, or None
  heap,    \* the thread structures that are allocated
  task,    \* where the task of each thread is in pthreadTask
  asleep,  \* the tasks that are suspended
  known,   \* the structures whose task field has been stored
  gate,    \* init_mtx of each thread
  joinable, \* the threads whose join_list is there
  joins,   \* join_list of each thread: who waits for its end
  walk,    \* the position of each thread in its own join_list when it ends
  told,    \* the threads in whose join queue there is a message
  mutex,   \* holder and depth of each mutex
  passed,  \* the mutexes that _pthread_mutex_free called by each thread has passed
  call,    \* the function of pthread.c each thread is in
  strayed  \* history: memory was used that is freed or was never set

lists == <<table, heap, joinable, joins>>
tasks == <<task, asleep>>
locks == <<mutex, passed>>
vars == <<lists, tasks, known, gate, walk, told, locks, call, strayed>>

-----------------------------------------------------------------------------
TaskState ==
  {"none",       \* not created
   "entry", "entrySuspended",  \* by initial_state, before the start of the handshake
   "suspending", \* before vTaskSuspend(NULL)
   "run",        \* in the start routine
   "notify", "clean", "free",  \* its end: join list, clean list, _pthread_free
   "deleted"}

Started == TaskState \ {"none", "entry", "entrySuspended"}

\* A call: its next step, the thread it is about and, when it is needed again, the id.
Step == {"none", "taskCreate", "initLock", "initDestroy", "joinAdd", "joinWait",
         "joinReceive", "stop", "suspend", "resume",
         "mutexes", "joins", "gate", "remove"}  \* _pthread_free

Call == [at : Step, t : Threads \cup {None}, id : Ids]

NoCall == [at |-> "none", t |-> None, id |-> MainId]

Idle == [holder |-> None, depth |-> 0]

Ready(c) == task[c] \notin {"none", "deleted"} /\ c \notin asleep

\* The start routine of c runs and is free to call.
Client(c) == task[c] = "run" /\ Ready(c) /\ call[c].at = "none"

In(c, step) == task[c] \in {"run", "free"} /\ Ready(c) /\ call[c].at = step

GoTo(c, step) == call' = [call EXCEPT ![c].at = step]

Return(c) == call' = [call EXCEPT ![c] = NoCall]

\* What a step needs of a thread structure is not there.
Stray ==
  /\ strayed' = TRUE
  /\ UNCHANGED <<lists, tasks, known, gate, walk, told, locks, call>>

Init ==
  /\ table = [id \in Ids |-> IF id = MainId THEN Main ELSE None]
  /\ heap = {Main}
  /\ task = [t \in Threads |-> IF t = Main THEN "run" ELSE "none"]
  /\ asleep = {}
  /\ known = {Main}
  /\ gate = [t \in Threads |-> "deleted"]
  /\ joinable = {Main}
  /\ joins = [t \in Threads |-> <<>>]
  /\ walk = [t \in Threads |-> 0]
  /\ told = {}
  /\ mutex = [m \in Mutexes |-> Idle]
  /\ passed = [t \in Threads |-> {}]
  /\ call = [t \in Threads |-> NoCall]
  /\ strayed = FALSE

-----------------------------------------------------------------------------
(* _pthread_create                                                         *)

\* Mutant of CreateAdd: the id may be in use.
CreateAddAny(c, t, id) ==
  /\ Client(c)
  /\ task[t] = "none" /\ t \notin heap
  /\ table' = [table EXCEPT ![id] = t]
  /\ heap' = heap \cup {t}
  /\ joinable' = joinable \cup {t}
  /\ gate' = [gate EXCEPT ![t] = "taken"]
  /\ call' = [call EXCEPT ![c] = [at |-> "taskCreate", t |-> t, id |-> id]]
  /\ UNCHANGED <<tasks, known, joins, walk, told, locks, strayed>>

\* Up to the first mtx_lock: the structure is on the list, the gate is shut.
CreateAdd(c, t, id) ==
  /\ Client(c)
  /\ task[t] = "none" /\ t \notin heap
  /\ table[id] = None
  /\ table' = [table EXCEPT ![id] = t]
  /\ heap' = heap \cup {t}
  /\ joinable' = joinable \cup {t}
  /\ gate' = [gate EXCEPT ![t] = "taken"]
  /\ call' = [call EXCEPT ![c] = [at |-> "taskCreate", t |-> t, id |-> id]]
  /\ UNCHANGED <<tasks, known, joins, walk, told, locks, strayed>>

CreateTask(c) ==
  /\ In(c, "taskCreate")
  /\ \E state \in {"entry", "entrySuspended"} :
       task' = [task EXCEPT ![call[c].t] = state]
  /\ GoTo(c, "initLock")
  /\ UNCHANGED <<lists, asleep, known, gate, walk, told, locks, strayed>>

\* xTaskCreate fails: list_remove frees the structure, and so does free.
CreateTaskFails(c) ==
  /\ TaskFails
  /\ In(c, "taskCreate")
  /\ Stray

\* Mutant of CreateLock: the creator does not wait for the gate.
CreateNoLock(c) ==
  /\ In(c, "initLock")
  /\ gate' = [gate EXCEPT ![call[c].t] = "taken"]
  /\ GoTo(c, "initDestroy")
  /\ UNCHANGED <<lists, tasks, known, walk, told, locks, strayed>>

\* The second mtx_lock waits until the new task opens the gate.
CreateLock(c) ==
  /\ In(c, "initLock")
  /\ IF call[c].t \in heap /\ gate[call[c].t] # "deleted"
     THEN /\ gate[call[c].t] = "given"
          /\ gate' = [gate EXCEPT ![call[c].t] = "taken"]
          /\ GoTo(c, "initDestroy")
          /\ UNCHANGED <<lists, tasks, known, walk, told, locks, strayed>>
     ELSE Stray

CreateDone(c) ==
  /\ In(c, "initDestroy")
  /\ IF call[c].t \in heap
     THEN /\ gate' = [gate EXCEPT ![call[c].t] = "deleted"]
          /\ known' = known \cup {call[c].t}
          /\ Return(c)
          /\ UNCHANGED <<lists, tasks, walk, told, locks, strayed>>
     ELSE Stray

-----------------------------------------------------------------------------
(* pthreadTask                                                             *)

\* Mutant of TaskEntry: a thread that starts suspended does not open the gate first.
TaskEntryShut(t) ==
  /\ task[t] \in {"entry", "entrySuspended"} /\ Ready(t)
  /\ gate' = [gate EXCEPT ![t] = IF task[t] = "entry" THEN "given" ELSE @]
  /\ task' = [task EXCEPT ![t] = IF @ = "entry" THEN "run" ELSE "suspending"]
  /\ UNCHANGED <<lists, asleep, known, walk, told, locks, call, strayed>>

\* The task looks itself up, stores its id and its Lua state, and opens the gate.
TaskEntry(t) ==
  /\ task[t] \in {"entry", "entrySuspended"} /\ Ready(t)
  /\ IF t \in heap /\ gate[t] # "deleted"
     THEN /\ gate' = [gate EXCEPT ![t] = "given"]
          /\ task' = [task EXCEPT ![t] = IF @ = "entry" THEN "run" ELSE "suspending"]
          /\ UNCHANGED <<lists, asleep, known, walk, told, locks, call, strayed>>
     ELSE Stray

TaskSuspend(t) ==
  /\ task[t] = "suspending" /\ Ready(t)
  /\ asleep' = asleep \cup {t}
  /\ task' = [task EXCEPT ![t] = "run"]
  /\ UNCHANGED <<lists, known, gate, walk, told, locks, call, strayed>>

\* The start routine returns.
TaskReturn(t) ==
  /\ Client(t) /\ t # Main
  /\ task' = [task EXCEPT ![t] = "notify"]
  /\ walk' = [walk EXCEPT ![t] = 1]
  /\ UNCHANGED <<lists, asleep, known, gate, told, locks, call, strayed>>

\* One turn of the loop that informs the joined threads.
TaskNotify(t) ==
  /\ task[t] = "notify" /\ Ready(t)
  /\ walk[t] <= Len(joins[t])
  /\ told' = told \cup {joins[t][walk[t]]}
  /\ walk' = [walk EXCEPT ![t] = @ + 1]
  /\ UNCHANGED <<lists, tasks, known, gate, locks, call, strayed>>

\* Mutant of TaskNotified: the walk ends before the last entry.
TaskNotifiedEarly(t) ==
  /\ task[t] = "notify" /\ Ready(t)
  /\ walk[t] >= Len(joins[t])
  /\ task' = [task EXCEPT ![t] = "clean"]
  /\ UNCHANGED <<lists, asleep, known, gate, walk, told, locks, call, strayed>>

TaskNotified(t) ==
  /\ task[t] = "notify" /\ Ready(t)
  /\ walk[t] > Len(joins[t])
  /\ task' = [task EXCEPT ![t] = "clean"]
  /\ UNCHANGED <<lists, asleep, known, gate, walk, told, locks, call, strayed>>

IdOf(t) == CHOOSE id \in Ids : table[id] = t

\* The handlers of the clean list run; then _pthread_free is called.
TaskClean(t) ==
  /\ task[t] = "clean" /\ Ready(t)
  /\ task' = [task EXCEPT ![t] = "free"]
  /\ call' = [call EXCEPT ![t] = [at |-> "mutexes", t |-> t, id |-> IdOf(t)]]
  /\ UNCHANGED <<lists, asleep, known, gate, walk, told, locks, strayed>>

-----------------------------------------------------------------------------
(* _pthread_free, called by a thread for itself at its end and for another *)
(* that it has stopped                                                     *)

\* Mutant of Given: recursive mutexes are given like the others.
GivenAlways(c, m) == Idle

\* Mutant of Given: nothing is given.
GivenNever(c, m) == mutex[m]

\* m after c gives it until that fails, or once if it is not recursive.
Given(c, m) == IF m \in Recursive /\ mutex[m].holder # c THEN mutex[m] ELSE Idle

\* One turn of the loop of _pthread_mutex_free over all mutexes of the system.
FreeMutex(c, m) ==
  /\ In(c, "mutexes")
  /\ m \notin passed[c]
  /\ mutex' = [mutex EXCEPT ![m] = Given(c, m)]
  /\ passed' = [passed EXCEPT ![c] = @ \cup {m}]
  /\ UNCHANGED <<lists, tasks, known, gate, walk, told, call, strayed>>

\* Behind the last mutex the thread is looked up once more.
FreeGet(c) ==
  /\ In(c, "mutexes")
  /\ passed[c] = Mutexes
  /\ passed' = [passed EXCEPT ![c] = {}]
  /\ IF table[call[c].id] # None
     THEN call' = [call EXCEPT ![c].at = "joins", ![c].t = table[call[c].id]]
     ELSE Return(c)
  /\ UNCHANGED <<lists, tasks, known, gate, walk, told, mutex, strayed>>

\* list_destroy frees the join structures with the list.
FreeJoins(c) ==
  /\ In(c, "joins")
  /\ IF call[c].t \in joinable
     THEN /\ joinable' = joinable \ {call[c].t}
          /\ joins' = [joins EXCEPT ![call[c].t] = <<>>]
          /\ GoTo(c, "gate")
          /\ UNCHANGED <<table, heap, tasks, known, gate, walk, told, locks, strayed>>
     ELSE Stray

\* The clean list, which nobody else uses, and init_mtx.
FreeGate(c) ==
  /\ In(c, "gate")
  /\ IF call[c].t \in heap
     THEN /\ gate' = [gate EXCEPT ![call[c].t] = "deleted"]
          /\ GoTo(c, "remove")
          /\ UNCHANGED <<lists, tasks, known, walk, told, locks, strayed>>
     ELSE Stray

\* list_remove frees the structure, and the id for another thread; a thread that has
\* ended deletes its task.
FreeRemove(c) ==
  /\ In(c, "remove")
  /\ table' = [table EXCEPT ![call[c].id] = None]
  /\ heap' = heap \ {table[call[c].id]}
  /\ task' = IF task[c] = "free" THEN [task EXCEPT ![c] = "deleted"] ELSE task
  /\ Return(c)
  /\ UNCHANGED <<joinable, joins, asleep, known, gate, walk, told, locks, strayed>>

-----------------------------------------------------------------------------
(* _pthread_join                                                           *)

\* list_get finds the thread; the list is free again when the call goes on.
Get(c, name, id) ==
  /\ name \in Calls
  /\ Client(c)
  /\ table[id] # None

Join(c, id) ==
  /\ Get(c, "join", id)
  /\ Len(joins[table[id]]) < MaxJoins
  /\ call' = [call EXCEPT ![c] = [at |-> "joinAdd", t |-> table[id], id |-> id]]
  /\ UNCHANGED <<lists, tasks, known, gate, walk, told, locks, strayed>>

JoinAdd(c) ==
  /\ In(c, "joinAdd")
  /\ IF call[c].t \in joinable
     THEN /\ joins' = [joins EXCEPT ![call[c].t] = Append(@, c)]
          /\ GoTo(c, "joinWait")
          /\ UNCHANGED <<table, heap, joinable, tasks, known, gate, walk, told, locks, strayed>>
     ELSE Stray

\* The queue to wait on is read from the join structure, which goes with the join list.
JoinWait(c) ==
  /\ In(c, "joinWait")
  /\ IF call[c].t \in joinable
     THEN /\ GoTo(c, "joinReceive")
          /\ UNCHANGED <<lists, tasks, known, gate, walk, told, locks, strayed>>
     ELSE Stray

\* Mutant of JoinReceive: the message is only looked at.
JoinPeek(c) ==
  /\ In(c, "joinReceive")
  /\ c \in told
  /\ Return(c)
  /\ UNCHANGED <<lists, tasks, known, gate, walk, told, locks, strayed>>

JoinReceive(c) ==
  /\ In(c, "joinReceive")
  /\ c \in told
  /\ told' = told \ {c}
  /\ Return(c)
  /\ UNCHANGED <<lists, tasks, known, gate, walk, locks, strayed>>

-----------------------------------------------------------------------------
(* Control of one thread by another                                        *)

\* The task field leads to a task.
TaskThere(t) == t \in heap \cap known /\ task[t] # "deleted"

Control(c, name, id) ==
  /\ Get(c, name, id)
  /\ call' = [call EXCEPT ![c] = [at |-> name, t |-> table[id], id |-> id]]
  /\ UNCHANGED <<lists, tasks, known, gate, walk, told, locks, strayed>>

\* _pthread_stop; its only caller goes on with _pthread_free of the same id.
StopTask(c) ==
  /\ In(c, "stop")
  /\ IF TaskThere(call[c].t)
     THEN /\ task' = [task EXCEPT ![call[c].t] = "deleted"]
          /\ GoTo(c, "mutexes")
          /\ UNCHANGED <<lists, asleep, known, gate, walk, told, locks, strayed>>
     ELSE Stray

SuspendTask(c) ==
  /\ In(c, "suspend")
  /\ IF TaskThere(call[c].t)
     THEN /\ asleep' = asleep \cup {call[c].t}
          /\ Return(c)
          /\ UNCHANGED <<lists, task, known, gate, walk, told, locks, strayed>>
     ELSE Stray

ResumeTask(c) ==
  /\ In(c, "resume")
  /\ IF TaskThere(call[c].t)
     THEN /\ asleep' = asleep \ {call[c].t}
          /\ Return(c)
          /\ UNCHANGED <<lists, task, known, gate, walk, told, locks, strayed>>
     ELSE Stray

-----------------------------------------------------------------------------
(* pthread_mutex_lock and pthread_mutex_unlock                             *)

Lock(c, m) ==
  /\ Client(c)
  /\ \/ mutex[m].holder = None
     \/ m \in Recursive /\ mutex[m].holder = c /\ mutex[m].depth < MaxDepth
  /\ mutex' = [mutex EXCEPT ![m] = [holder |-> c, depth |-> @.depth + 1]]
  /\ UNCHANGED <<lists, tasks, known, gate, walk, told, passed, call, strayed>>

Unlock(c, m) ==
  /\ Client(c)
  /\ mutex[m].holder = c
  /\ mutex' = [mutex EXCEPT ![m] =
                 IF @.depth = 1 THEN Idle ELSE [holder |-> c, depth |-> @.depth - 1]]
  /\ UNCHANGED <<lists, tasks, known, gate, walk, told, passed, call, strayed>>

-----------------------------------------------------------------------------
Creating(c) == CreateTask(c) \/ CreateTaskFails(c) \/ CreateLock(c) \/ CreateDone(c)

Joining(c) == JoinAdd(c) \/ JoinWait(c) \/ JoinReceive(c)

Controlling(c) == StopTask(c) \/ SuspendTask(c) \/ ResumeTask(c)

Ending(t) == TaskNotify(t) \/ TaskNotified(t) \/ TaskClean(t)

Freeing(c) ==
  \/ \E m \in Mutexes : FreeMutex(c, m)
  \/ FreeGet(c) \/ FreeJoins(c) \/ FreeGate(c) \/ FreeRemove(c)

\* What a task does without a choice of its start routine.
Advance(t) ==
  \/ Creating(t) \/ Joining(t) \/ Controlling(t)
  \/ TaskEntry(t) \/ TaskSuspend(t) \/ Ending(t) \/ Freeing(t)

\* What the start routine may choose.
Choose(t) ==
  \/ TaskReturn(t)
  \/ \E n \in Threads, id \in Ids : CreateAdd(t, n, id)
  \/ \E id \in Ids : Join(t, id) \/ \E name \in {"stop", "suspend", "resume"} : Control(t, name, id)
  \/ \E m \in Mutexes : Lock(t, m) \/ Unlock(t, m)

\* Nothing is said of what follows a use of memory that is gone.
Next == ~strayed /\ \E t \in Threads : Advance(t) \/ Choose(t)

Spec == Init /\ [][Next]_vars

\* Tasks of one priority share the processor, so one that is ready runs on.
FairSpec == Spec /\ \A t \in Threads : WF_vars(~strayed /\ Advance(t))

-----------------------------------------------------------------------------
TypeOK ==
  /\ table \in [Ids -> Threads \cup {None}]
  /\ heap \subseteq Threads
  /\ task \in [Threads -> TaskState]
  /\ asleep \subseteq Threads
  /\ known \subseteq Threads
  /\ gate \in [Threads -> {"given", "taken", "deleted"}]
  /\ joinable \subseteq Threads
  /\ joins \in [Threads -> Seq(Threads)]
  /\ walk \in [Threads -> Nat]
  /\ told \subseteq Threads
  /\ mutex \in [Mutexes -> [holder : Threads \cup {None}, depth : Nat]]
  /\ passed \in [Threads -> SUBSET Mutexes]
  /\ call \in [Threads -> Call]
  /\ strayed \in BOOLEAN

\* The thread c is about has no task because xTaskCreate failed, it is controlled
\* before its task field is stored, or it is another one that is in _pthread_free, is
\* gone or was stopped.
Excused(c) ==
  \/ call[c].at = "taskCreate"
  \/ call[c].at \in {"stop", "suspend", "resume"} /\ call[c].t \notin known
  \/ call[c].t \in Threads \ {c} /\ task[call[c].t] \in {"free", "deleted"}

\* pthread.c uses what is freed or was never stored in those cases only: a thread that
\* starts finds its structure and its gate, one that ends its own lists, a creator a
\* child that has not ended, and a joiner the join list of a thread that has not.
StraysOnlyAtEnds ==
  [][\A c \in Threads : Stray /\ Advance(c) => Excused(c)]_vars

\* A thread is on the list under exactly one id from before its task exists until
\* it removes itself: pthreadTask, _pthread_signal and _pthread_process_signal look it
\* up and do not test the result.
SelfListed ==
  \A t \in Threads : task[t] \notin {"none", "deleted"} =>
    t \in heap /\ \E id \in Ids : \A i \in Ids : table[i] = t <=> i = id

\* When pthread_create returns, and before anybody finds the task of the new thread
\* in its structure, that task has set its thread id and its Lua state.
CreatedHasStarted ==
  /\ \A t \in known : task[t] \in Started
  /\ \A c \in Threads : call[c].at = "initDestroy" => task[call[c].t] \in Started

\* pthread_join returns only after the start routine of that thread has returned,
\* also when the id it was called with belongs to another thread by now.
JoinedHasEnded ==
  \A c \in told :
    /\ call[c].at \in {"joinWait", "joinReceive"}
    /\ task[call[c].t] \in {"notify", "clean", "free", "deleted"}

\* A mutex is never left behind by a thread that is gone.
HolderAlive ==
  \A m \in Mutexes : mutex[m].holder # None => task[mutex[m].holder] # "deleted"

\* A thread keeps a mutex until it gives it back or ends, whatever other threads
\* end meanwhile (_pthread_mutex_free runs at every end).
LocksKept ==
  [][\A m \in Mutexes, c \in Threads :
       mutex[m].holder = c /\ mutex'[m].holder # c =>
         Unlock(c, m) \/ task[c] = "free"]_vars

\* A creator is not kept waiting in the handshake.
CreateReturns ==
  \A c \in Threads : call[c].at = "initLock" ~> call[c].at = "none" \/ strayed

InTime(c) ==
  /\ call[c].at = "joinReceive"
  /\ task[call[c].t] = "notify"
  /\ \E i \in walk[call[c].t] .. Len(joins[call[c].t]) : joins[call[c].t][i] = c

\* Who is on the join list before the walk over it has passed is told of the end.
JoinInTimeReturns ==
  \A c \in Threads : InTime(c) ~> call[c].at = "none" \/ strayed

\* "Inform from thread end to joined threads" (pthread.c:414): who waits for a thread
\* that has ended is told.
EveryJoinReturns ==
  \A c \in Threads :
    call[c].at = "joinReceive" /\ task[call[c].t] = "deleted"
      ~> call[c].at = "none" \/ strayed

=============================================================================

---------------------------- MODULE PthreadProofs ----------------------------
(***************************************************************************)
(* Invariants of Pthread for any number of threads, ids and mutexes.       *)
(***************************************************************************)
EXTENDS Pthread, SequenceTheorems, TLAPS

-----------------------------------------------------------------------------
(* The inductive invariant                                                 *)

\* Only a start routine or the end of a thread is in a call, and what the call is about
\* is allocated or has no task any more.
CallOK ==
  \A c \in Threads : call[c].at # "none" =>
    /\ call[c].t \in Threads
    /\ call[c].t \in heap \/ task[call[c].t] = "deleted"
    /\ task[c] \in {"run", "free", "deleted"}

\* thread_list and the allocated structures are one thing, and a thread without a
\* task, or with one that lives, is there.
ListedOK ==
  /\ \A i \in Ids : table[i] # None => table[i] \in heap
  /\ \A t \in heap : \E i \in Ids : table[i] = t
  /\ \A i, j \in Ids : table[i] # None /\ table[i] = table[j] => i = j
  /\ \A t \in Threads : task[t] \notin {"none", "deleted"} => t \in heap
  /\ \A c \in Threads :
       call[c].at = "taskCreate" => call[c].t \in heap /\ task[call[c].t] = "none"
  /\ \A c, d \in Threads :
       call[c].at = "taskCreate" /\ call[d].at = "taskCreate" /\ call[c].t = call[d].t
         => c = d

\* In _pthread_free.
Frees == {"mutexes", "joins", "gate", "remove"}

\* Who is about to stop a thread still has its id, or the thread is gone; who frees one
\* has its id, and frees itself at its end or is alone with one that was stopped.
StopOK ==
  /\ \A c \in Threads : call[c].at = "stop" =>
       \/ table[call[c].id] = call[c].t
       \/ call[c].t \notin heap /\ task[call[c].t] = "deleted"
  /\ \A c \in Threads : task[c] = "free" =>
       call[c].at \in Frees /\ call[c].t = c /\ table[call[c].id] = c
  /\ \A c \in Threads : task[c] = "run" /\ call[c].at \in Frees =>
       table[call[c].id] = call[c].t /\ task[call[c].t] = "deleted"
  /\ \A c, d \in Threads :
       task[c] = "run" /\ call[c].at \in Frees /\ task[d] = "run" /\ call[d].at \in Frees
         /\ call[c].t = call[d].t => c = d

\* The join list goes in _pthread_free and before the structure.
JoinableOK ==
  /\ joinable \subseteq heap
  /\ \A t \in heap \ joinable :
       task[t] = "deleted" \/ (task[t] = "free" /\ call[t].at \in {"gate", "remove"})
  /\ \A c \in Threads : task[c] \in {"run", "free"} /\ call[c].at \in {"gate", "remove"} =>
       call[c].t \notin joinable

GateOK ==
  /\ \A t \in heap : task[t] \in {"none", "entry", "entrySuspended"} => gate[t] = "taken"
  /\ \A t \in Threads : gate[t] = "given" => task[t] \in Started

Pending(c, t) ==
  call[c].at \in {"joinWait", "joinReceive"} /\ call[c].t = t /\ c \notin told

\* Who is on a join list at or behind the position of the walk waits there, once, and
\* has not been told.
JoinsOK ==
  /\ \A t \in Threads : \A i \in DOMAIN joins[t] :
       i >= walk[t] => Pending(joins[t][i], t)
  /\ \A t \in Threads : \A i, j \in DOMAIN joins[t] :
       i >= walk[t] /\ j >= walk[t] /\ joins[t][i] = joins[t][j] => i = j
  /\ \A t \in Threads : t \notin joinable => joins[t] = <<>>

\* A walk starts when the start routine has returned.
WalkOK ==
  \A t \in Threads :
    IF task[t] = "notify" THEN walk[t] >= 1
    ELSE task[t] \notin {"clean", "free", "deleted"} => walk[t] = 0

DepthOK == \A m \in Mutexes : mutex[m].holder # None => mutex[m].depth >= 1

IInv ==
  TypeOK /\ CallOK /\ ListedOK /\ StopOK /\ JoinableOK /\ GateOK /\ CreatedHasStarted
    /\ JoinsOK /\ WalkOK /\ JoinedHasEnded /\ DepthOK

-----------------------------------------------------------------------------
\* GoTo moves one caller of the pthread functions to its next line and no other.
LEMMA GoToStep ==
  ASSUME TypeOK, NEW c \in Threads, NEW s \in Step, GoTo(c, s)
  PROVE  /\ call' \in [Threads -> Call]
         /\ call'[c].at = s /\ call'[c].t = call[c].t /\ call'[c].id = call[c].id
         /\ \A d \in Threads \ {c} : call'[d] = call[d]
BY DEF GoTo, TypeOK, Call

\* Every entry of a join list is a thread.
LEMMA JoinersTyped ==
  TypeOK => \A t \in Threads : \A i \in DOMAIN joins[t] : joins[t][i] \in Threads
BY LenProperties, ElementOfSeq DEF TypeOK

\* The inductive invariant holds before any pthread function is called.
LEMMA InitInv == Init => IInv
<1> USE ThreadAssumption
<1> SUFFICES ASSUME Init PROVE IInv
  OBVIOUS
<1>1. TypeOK
  <2>1. NoCall \in Call /\ Idle \in [holder : Threads \cup {None}, depth : Nat]
    BY DEF NoCall, Call, Step, Idle
  <2>2. joins \in [Threads -> Seq(Threads)]
    BY EmptySeq DEF Init
  <2> QED
    BY <2>1, <2>2 DEF Init, TypeOK, TaskState
<1>2. CallOK /\ ListedOK /\ StopOK /\ JoinableOK
  BY DEF Init, CallOK, ListedOK, StopOK, JoinableOK, Frees, NoCall
<1>3. GateOK /\ CreatedHasStarted
  BY DEF Init, GateOK, CreatedHasStarted, NoCall, Started, TaskState
<1>4. JoinsOK /\ JoinedHasEnded
  BY DEF Init, JoinsOK, JoinedHasEnded, Pending
<1>6. WalkOK
  BY DEF Init, WalkOK
<1>5. DepthOK
  BY DEF Init, DepthOK, Idle
<1> QED
  BY <1>1, <1>2, <1>3, <1>4, <1>5, <1>6 DEF IInv

\* Every line of pthread.c and mutex.c that is a step keeps the inductive invariant.
LEMMA NextInv == IInv /\ Next => IInv'
<1> USE ThreadAssumption DEF IInv, lists, tasks, locks, Frees
<1> SUFFICES ASSUME IInv, Next PROVE IInv'
  OBVIOUS
<1>0. \A t \in Threads : DOMAIN joins[t] = 1 .. Len(joins[t]) /\ Len(joins[t]) \in Nat
  BY LenProperties
<1>1. ASSUME NEW c \in Threads, NEW t \in Threads, NEW id \in Ids, CreateAdd(c, t, id)
      PROVE  IInv'
  <2>1. TypeOK'
    BY <1>1 DEF CreateAdd, Client, Ready, TypeOK, Call, Step, NoCall
  <2>2. CallOK'
    BY <1>1 DEF CreateAdd, Client, CallOK
  <2>3. ListedOK' /\ JoinableOK'
    BY <1>1 DEF JoinableOK, CallOK, StopOK, CreateAdd, Client, Ready, ListedOK, CallOK, TypeOK, NoCall
  <2>4. StopOK'
    BY <1>1 DEF CreateAdd, Client, StopOK, ListedOK, CallOK, TypeOK
  <2>5. GateOK'
    BY <1>1 DEF CreateAdd, Client, Ready, GateOK, ListedOK, Started,
       TaskState, CreatedHasStarted, TypeOK
  <2>6. CreatedHasStarted'
    BY <1>1 DEF CreateAdd, Client, Ready, CreatedHasStarted, GateOK
  <2>7. JoinsOK'
    <3>1. ASSUME NEW d \in Threads, NEW u \in Threads, Pending(d, u)
          PROVE  Pending(d, u)'
      BY <1>1, <3>1 DEF CreateAdd, Client, Pending
    <3>2. UNCHANGED <<joins, walk>> /\ joinable \subseteq joinable'
      BY <1>1 DEF CreateAdd
    <3> QED
      BY JoinersTyped, <3>1, <3>2 DEF JoinsOK
  <2>8. JoinedHasEnded'
    BY <1>1 DEF CreateAdd, Client, Ready, JoinedHasEnded, JoinsOK
  <2>9. WalkOK' /\ DepthOK'
    BY <1>1 DEF CreateAdd, Client, WalkOK, DepthOK
  <2> QED
    BY <2>1, <2>2, <2>3, <2>4, <2>5, <2>6, <2>7, <2>8, <2>9
<1>2. ASSUME NEW c \in Threads, CreateTask(c)
      PROVE  IInv'
  <2>1. TypeOK'
    <3>1. call' \in [Threads -> Call]
      BY <1>2 , GoToStep DEF CreateTask, Step
    <3>2. task' \in [Threads -> TaskState]
      BY <1>2 DEF CreateTask, TypeOK, TaskState
    <3> QED
      BY <1>2, <3>1, <3>2 DEF CreateTask, TypeOK
  <2>2. CallOK'
    BY <1>2 DEF CreateTask, In, GoTo, CallOK, ListedOK, TypeOK
  <2>3. ListedOK' /\ JoinableOK'
    BY <1>2 DEF JoinableOK, CallOK, StopOK, CreateTask, In, Ready, GoTo, ListedOK, CallOK, TypeOK,
       NoCall
  <2>4. StopOK'
    <3>1. /\ call[c].at = "taskCreate" /\ call'[c].at = "initLock"
          /\ \A d \in Threads \ {c} : call'[d] = call[d]
      BY <1>2, GoToStep DEF CreateTask, In, Step
    <3>2. /\ task[call[c].t] = "none" /\ task'[call[c].t] \in {"entry", "entrySuspended"}
          /\ \A u \in Threads \ {call[c].t} : task'[u] = task[u]
      BY <1>2 DEF CreateTask, In, ListedOK, CallOK, TypeOK
    <3>3. \A d \in Threads : call[d].at # "none" => call[d].t \in Threads
      BY DEF CallOK
    <3>4. UNCHANGED <<table, heap>>
      BY <1>2 DEF CreateTask
    <3> QED
      BY <3>1, <3>2, <3>3, <3>4 DEF StopOK
  <2>5. GateOK'
    BY <1>2 DEF CreateTask, In, Ready, GoTo, GateOK, ListedOK
  <2>6. CreatedHasStarted'
    BY <1>2 DEF CreateTask, In, GoTo, CreatedHasStarted, ListedOK, Started,
       TaskState, TypeOK
  <2>7. JoinsOK'
    BY <1>2 DEF CreateTask, In, Ready, GoTo, JoinsOK, JoinedHasEnded,
       Pending, TypeOK, CallOK, Call
  <2>8. WalkOK'
    BY <1>2 DEF CreateTask, In, WalkOK, ListedOK
  <2>9. JoinedHasEnded'
    BY <1>2 DEF CreateTask, In, GoTo, JoinedHasEnded, NoCall, ListedOK
  <2>10. DepthOK'
    BY <1>2 DEF CreateTask, In, GoTo, DepthOK
  <2> QED
    BY <2>1, <2>2, <2>3, <2>4, <2>5, <2>6, <2>7, <2>8, <2>9, <2>10
<1>3. ASSUME NEW c \in Threads, CreateLock(c), call[c].t \in heap /\ gate[call[c].t] # "deleted"
      PROVE  IInv'
  <2>0. /\ In(c, "initLock")
        /\ call[c].t \in heap
        /\ gate' = [gate EXCEPT ![call[c].t] = "taken"]
        /\ gate[call[c].t] = "given"
        /\ GoTo(c, "initDestroy")
        /\ UNCHANGED <<lists, tasks, known, walk, told, locks, strayed>>
    BY <1>3 DEF CreateLock
  <2>1. TypeOK'
    <3>1. call' \in [Threads -> Call]
      BY <2>0, GoToStep DEF Step
    <3> QED
      BY <2>0, <3>1 DEF In, TypeOK
  <2>2. CallOK'
    BY <2>0 DEF In, GoTo, CallOK
  <2>3. ListedOK' /\ JoinableOK'
    BY <2>0 DEF JoinableOK, CallOK, StopOK, In, Ready, GoTo, ListedOK
  <2>4. StopOK'
    BY <2>0 DEF In, Ready, GoTo, StopOK
  <2>5. GateOK'
    BY <2>0 DEF In, Ready, GoTo, GateOK, ListedOK
  <2>6. CreatedHasStarted'
    BY <2>0 DEF In, Ready, GoTo, CreatedHasStarted, GateOK, CallOK,
       Call, NoCall, StopOK
  <2>7. JoinsOK'
    BY <2>0 DEF In, Ready, GoTo, JoinsOK, JoinedHasEnded, Pending,
       TypeOK, CallOK, Call
  <2>8. JoinedHasEnded'
    BY <2>0 DEF In, Ready, GoTo, JoinedHasEnded, JoinsOK
  <2>9. WalkOK' /\ DepthOK'
    BY <2>0 DEF In, GoTo, WalkOK, DepthOK
  <2> QED
    BY <2>1, <2>2, <2>3, <2>4, <2>5, <2>6, <2>7, <2>8, <2>9
<1>4. ASSUME NEW c \in Threads, CreateDone(c), call[c].t \in heap
      PROVE  IInv'
  <2>0. /\ In(c, "initDestroy")
        /\ call[c].t \in heap
        /\ gate' = [gate EXCEPT ![call[c].t] = "deleted"]
        /\ known' = known \cup {call[c].t}
        /\ Return(c)
        /\ UNCHANGED <<lists, tasks, walk, told, locks, strayed>>
    BY <1>4 DEF CreateDone
  <2>1. TypeOK'
    BY <2>0 DEF In, Ready, Return, TypeOK, Call, Step, NoCall
  <2>2. CallOK'
    BY <2>0 DEF In, Return, CallOK, NoCall
  <2>3. ListedOK' /\ JoinableOK'
    BY <2>0 DEF JoinableOK, CallOK, StopOK, In, Ready, Return, ListedOK, CallOK, TypeOK, NoCall
  <2>4. StopOK'
    BY <2>0 DEF In, Ready, Return, StopOK, NoCall, Call
  <2>5. GateOK'
    BY <2>0 DEF In, Ready, Return, GateOK, ListedOK, Started,
       TaskState, CreatedHasStarted, TypeOK
  <2>6. CreatedHasStarted'
    BY <2>0 DEF In, Ready, Return, CreatedHasStarted, GateOK, CallOK,
       Call, NoCall, StopOK
  <2>7. JoinsOK'
    BY <2>0 DEF In, Ready, Return, JoinsOK, JoinedHasEnded, Pending,
       TypeOK, CallOK, Call
  <2>8. JoinedHasEnded'
    BY <2>0 DEF In, Ready, Return, JoinedHasEnded, JoinsOK
  <2>9. WalkOK' /\ DepthOK'
    BY <2>0 DEF In, Return, WalkOK, DepthOK
  <2> QED
    BY <2>1, <2>2, <2>3, <2>4, <2>5, <2>6, <2>7, <2>8, <2>9
<1>5. ASSUME NEW c \in Threads, JoinAdd(c), call[c].t \in joinable
      PROVE  IInv'
  <2>0. /\ In(c, "joinAdd")
        /\ call[c].t \in joinable
        /\ joins' = [joins EXCEPT ![call[c].t] = Append(joins[call[c].t], c)]
        /\ GoTo(c, "joinWait")
        /\ UNCHANGED <<table, heap, joinable, tasks, known, gate, walk, told, locks, strayed>>
    BY <1>5 DEF JoinAdd
  <2>1. TypeOK'
    <3>1. call' \in [Threads -> Call]
      BY <2>0, GoToStep DEF Step
    <3>2. joins' \in [Threads -> Seq(Threads)]
      BY <2>0, AppendProperties DEF TypeOK
    <3> QED
      BY <2>0, <3>1, <3>2 DEF TypeOK
  <2>2. CallOK'
    BY <2>0 DEF In, GoTo, CallOK
  <2>3. ListedOK' /\ JoinableOK'
    BY <2>0 DEF JoinableOK, CallOK, StopOK, In, Ready, GoTo, ListedOK
  <2>4. StopOK'
    BY <2>0 DEF In, Ready, GoTo, StopOK
  <2>5. CreatedHasStarted'
    BY <2>0 DEF In, Ready, GoTo, CreatedHasStarted, GateOK
  <2>6. JoinsOK'
    <3>0. PICK t \in Threads, n \in Nat : t = call[c].t /\ n = Len(joins[t])
      BY <2>0, <1>0 DEF TypeOK
    <3>1. t \in joinable /\ c \notin told
      BY <2>0, <3>0 DEF In, JoinedHasEnded
    <3>2. ~Pending(c, t)
      BY <2>0 DEF In, Pending
    <3>3. /\ DOMAIN joins'[t] = 1 .. (n + 1)
          /\ joins'[t][n + 1] = c
          /\ \A i \in 1 .. n : joins'[t][i] = joins[t][i]
          /\ DOMAIN joins[t] = 1 .. n
      BY <1>0, <2>0, <3>0, <3>1, AppendProperties, LenProperties DEF TypeOK
    <3>4. \A u \in Threads : u # t => joins'[u] = joins[u]
      BY <2>0, <3>0
    <3>5. Pending(c, t)'
      BY <2>0, <3>0, <3>1, GoToStep DEF Pending, Step
    <3>6. ASSUME NEW d \in Threads, NEW u \in Threads, Pending(d, u)
          PROVE  Pending(d, u)'
      <4>1. d # c
        BY <2>0, <3>6 DEF In, Pending
      <4> QED
        BY <2>0, <3>6, <4>1, GoToStep DEF Pending, Step
    <3>7. UNCHANGED <<joinable, task, walk>>
      BY <2>0 DEF tasks
    <3>8. ASSUME NEW u \in Threads, NEW i \in DOMAIN joins'[u], i >= walk[u]
          PROVE  Pending(joins[u][i], u)'
      <4>1. CASE i \in DOMAIN joins[u] /\ joins'[u][i] = joins[u][i]
        <5>1. PICK d \in Threads : d = joins[u][i]
          BY <4>1, JoinersTyped
        <5>2. Pending(d, u)'
          BY <3>6, <3>8, <4>1, <5>1 DEF JoinsOK
        <5> QED
          BY <4>1, <5>1, <5>2
      <4>2. CASE u = t /\ i = n + 1
        BY <3>3, <3>5, <4>2
      <4> QED
        BY <3>3, <3>4, <3>8, <4>1, <4>2
    <3>9. ASSUME NEW u \in Threads, NEW i \in DOMAIN joins'[u], NEW j \in DOMAIN joins'[u],
                 i >= walk[u], j >= walk[u], joins'[u][i] = joins'[u][j]
          PROVE  i = j
      <4>1. CASE u # t
        BY <3>4, <3>9, <4>1 DEF JoinsOK
      <4>2. CASE u = t
        <5>1. \A k \in 1 .. n : k >= walk[t] => joins[t][k] # c
          BY <3>2, <3>3 DEF JoinsOK
        <5>2. \A k, l \in 1 .. n :
                k >= walk[t] /\ l >= walk[t] /\ joins[t][k] = joins[t][l] => k = l
          BY <3>3 DEF JoinsOK
        <5>3. i \in 1 .. (n + 1) /\ j \in 1 .. (n + 1)
          BY <3>3, <3>9, <4>2
        <5> QED
          BY <3>3, <3>9, <4>2, <5>1, <5>2, <5>3
      <4> QED
        BY <4>1, <4>2
    <3>10. \A u \in Threads : u \notin joinable' => joins'[u] = <<>>
      BY <3>1, <3>4, <3>7 DEF JoinsOK
    <3> QED
      BY <3>7, <3>8, <3>9, <3>10 DEF JoinsOK
  <2>7. JoinedHasEnded'
    BY <2>0 DEF In, Ready, GoTo, JoinedHasEnded, JoinsOK
  <2>8. GateOK' /\ WalkOK' /\ DepthOK'
    BY <2>0 DEF In, GoTo, GateOK, WalkOK, DepthOK
  <2> QED
    BY <2>1, <2>2, <2>3, <2>4, <2>5, <2>6, <2>7, <2>8
<1>6. ASSUME NEW c \in Threads, JoinWait(c), call[c].t \in joinable
      PROVE  IInv'
  <2>0. /\ In(c, "joinWait")
        /\ call[c].t \in joinable
        /\ GoTo(c, "joinReceive")
        /\ UNCHANGED <<lists, tasks, known, gate, walk, told, locks, strayed>>
    BY <1>6 DEF JoinWait
  <2>1. TypeOK'
    <3>1. call' \in [Threads -> Call]
      BY <2>0, GoToStep DEF Step
    <3> QED
      BY <2>0, <3>1 DEF In, TypeOK
  <2>2. CallOK'
    BY <2>0 DEF In, GoTo, CallOK
  <2>3. ListedOK' /\ JoinableOK'
    BY <2>0 DEF JoinableOK, CallOK, StopOK, In, Ready, GoTo, ListedOK
  <2>4. StopOK'
    BY <2>0 DEF In, Ready, GoTo, StopOK
  <2>5. CreatedHasStarted'
    BY <2>0 DEF In, Ready, GoTo, CreatedHasStarted, GateOK
  <2>6. JoinsOK'
    BY <2>0 DEF In, Ready, GoTo, JoinsOK, JoinedHasEnded, Pending,
       TypeOK, CallOK, Call
  <2>7. JoinedHasEnded'
    BY <2>0 DEF In, Ready, GoTo, JoinedHasEnded, JoinsOK
  <2>8. GateOK' /\ WalkOK' /\ DepthOK'
    BY <2>0 DEF In, GoTo, GateOK, WalkOK, DepthOK
  <2> QED
    BY <2>1, <2>2, <2>3, <2>4, <2>5, <2>6, <2>7, <2>8
<1>7. ASSUME NEW c \in Threads, JoinReceive(c)
      PROVE  IInv'
  <2>1. TypeOK'
    BY <1>7 DEF JoinReceive, In, Ready, Return, TypeOK, Call, Step, NoCall
  <2>2. CallOK'
    BY <1>7 DEF JoinReceive, In, Return, CallOK, NoCall
  <2>3. ListedOK' /\ JoinableOK'
    BY <1>7 DEF JoinableOK, CallOK, StopOK, JoinReceive, In, Ready, Return, ListedOK, CallOK,
       TypeOK, NoCall
  <2>4. StopOK'
    BY <1>7 DEF JoinReceive, In, Ready, Return, StopOK, NoCall, Call
  <2>5. CreatedHasStarted'
    BY <1>7 DEF JoinReceive, In, Ready, Return, CreatedHasStarted,
       GateOK, CallOK, Call, NoCall, StopOK
  <2>6. JoinsOK'
    BY <1>7 DEF JoinReceive, In, Ready, Return, JoinsOK,
       JoinedHasEnded, Pending, TypeOK, CallOK, Call
  <2>7. JoinedHasEnded'
    BY <1>7 DEF JoinReceive, In, Ready, Return, JoinedHasEnded, JoinsOK
  <2>8. GateOK' /\ WalkOK' /\ DepthOK'
    BY <1>7 DEF JoinReceive, In, Return, GateOK, WalkOK, DepthOK
  <2> QED
    BY <2>1, <2>2, <2>3, <2>4, <2>5, <2>6, <2>7, <2>8
<1>8. ASSUME NEW c \in Threads, StopTask(c), TaskThere(call[c].t)
      PROVE  IInv'
  <2>0. /\ In(c, "stop")
        /\ call[c].t \in heap \cap known /\ task[call[c].t] # "deleted"
        /\ task' = [task EXCEPT ![call[c].t] = "deleted"]
        /\ GoTo(c, "mutexes")
        /\ UNCHANGED <<lists, asleep, known, gate, walk, told, locks, strayed>>
    BY <1>8 DEF StopTask, TaskThere
  <2>1. TypeOK'
    <3>1. call' \in [Threads -> Call]
      BY <2>0, GoToStep DEF Step
    <3> QED
      BY <2>0, <3>1 DEF In, TypeOK, TaskState
  <2>2. CallOK'
    BY <2>0 DEF In, GoTo, CallOK
  <2>3. ListedOK' /\ JoinableOK'
    BY <2>0 DEF JoinableOK, CallOK, StopOK, In, Ready, GoTo, ListedOK, CallOK, TypeOK, Call,
       CreatedHasStarted, Started, TaskState
  <2>4. StopOK'
    BY <2>0 DEF In, Ready, GoTo, StopOK, ListedOK, CallOK, TypeOK
  <2>5. GateOK'
    BY <2>0 DEF In, Ready, GoTo, GateOK, ListedOK, Started, TaskState,
       CreatedHasStarted, TypeOK
  <2>6. CreatedHasStarted'
    BY <2>0 DEF In, GoTo, CreatedHasStarted, ListedOK, Started, TaskState, TypeOK
  <2>7. JoinsOK'
    BY <2>0 DEF In, Ready, GoTo, JoinsOK, Pending, TypeOK
  <2>8. WalkOK'
    BY <2>0 DEF WalkOK
  <2>9. JoinedHasEnded'
    BY <2>0 DEF In, GoTo, JoinedHasEnded
  <2>10. DepthOK'
    BY <2>0 DEF In, GoTo, DepthOK
  <2> QED
    BY <2>1, <2>2, <2>3, <2>4, <2>5, <2>6, <2>7, <2>8, <2>9, <2>10
<1>9. ASSUME NEW c \in Threads, NEW m \in Mutexes, FreeMutex(c, m)
      PROVE  IInv'
  <2>0. /\ In(c, "mutexes")
        /\ mutex' = [mutex EXCEPT ![m] = Given(c, m)]
        /\ passed' = [passed EXCEPT ![c] = passed[c] \cup {m}]
        /\ UNCHANGED <<lists, tasks, known, gate, walk, told, call, strayed>>
    BY <1>9 DEF FreeMutex
  <2>1. TypeOK'
    BY <2>0 DEF Given, Idle, TypeOK
  <2>2. /\ CallOK' /\ ListedOK' /\ StopOK' /\ JoinableOK' /\ GateOK'
        /\ CreatedHasStarted' /\ JoinsOK' /\ WalkOK' /\ JoinedHasEnded'
    BY <2>0 DEF CallOK, ListedOK, StopOK, JoinableOK, GateOK,
       CreatedHasStarted, JoinsOK, Pending, WalkOK, JoinedHasEnded
  <2>3. DepthOK'
    BY <2>0 DEF DepthOK, Given, Idle, TypeOK
  <2> QED
    BY <2>1, <2>2, <2>3
<1>26. ASSUME NEW c \in Threads, In(c, "mutexes") \/ In(c, "joins") \/ In(c, "gate") \/ In(c, "remove")
       PROVE  /\ call[c].t \in Threads /\ table[call[c].id] = call[c].t /\ call[c].t \in heap
              /\ task[call[c].t] \in {"free", "deleted"}
              /\ call[c].id \in Ids /\ call[c].t # None
              /\ task[c] = "free" => call[c].t = c
              /\ task[c] # "free" => task[c] = "run" /\ task[call[c].t] = "deleted"
  BY <1>26 DEF In, StopOK, CallOK, TypeOK, Call, ListedOK
<1>27. ASSUME NEW c \in Threads, FreeGet(c)
       PROVE  IInv'
  <2>0. /\ In(c, "mutexes")
        /\ passed' = [passed EXCEPT ![c] = {}]
        /\ GoTo(c, "joins")
        /\ UNCHANGED <<lists, tasks, known, gate, walk, told, mutex, strayed>>
    <3>1. In(c, "mutexes") /\ table[call[c].id] = call[c].t /\ call[c].t # None
      BY <1>26, <1>27 DEF FreeGet
    <3>2. call' = [call EXCEPT ![c].at = "joins", ![c].t = call[c].t]
      BY <1>27, <3>1 DEF FreeGet
    <3>3. GoTo(c, "joins")
      BY <3>2 DEF GoTo, TypeOK, Call
    <3> QED
      BY <1>27, <3>3 DEF FreeGet
  <2> HIDE <1>27
  <2>1. TypeOK'
    <3>1. call' \in [Threads -> Call]
      BY <2>0, GoToStep DEF Step
    <3> QED
      BY <2>0, <3>1 DEF TypeOK
  <2>2. CallOK'
    BY <2>0 DEF In, GoTo, CallOK
  <2>3. ListedOK' /\ JoinableOK'
    BY <2>0 DEF In, Ready, GoTo, ListedOK, JoinableOK, CallOK, StopOK
  <2>4. StopOK'
    BY <2>0 DEF In, Ready, GoTo, StopOK, CallOK
  <2>5. CreatedHasStarted'
    BY <2>0 DEF In, Ready, GoTo, CreatedHasStarted, GateOK
  <2>6. JoinsOK'
    BY <2>0 DEF In, Ready, GoTo, JoinsOK, JoinedHasEnded, Pending,
       TypeOK, CallOK, Call
  <2>7. JoinedHasEnded'
    BY <2>0 DEF In, Ready, GoTo, JoinedHasEnded, JoinsOK
  <2>8. GateOK' /\ WalkOK' /\ DepthOK'
    BY <2>0 DEF In, GoTo, GateOK, WalkOK, DepthOK
  <2> QED
    BY <2>1, <2>2, <2>3, <2>4, <2>5, <2>6, <2>7, <2>8
<1>28. ASSUME NEW c \in Threads, FreeJoins(c), call[c].t \in joinable
       PROVE  IInv'
  <2>0. /\ In(c, "joins")
        /\ joinable' = joinable \ {call[c].t}
        /\ joins' = [joins EXCEPT ![call[c].t] = <<>>]
        /\ GoTo(c, "gate")
        /\ UNCHANGED <<table, heap, tasks, known, gate, walk, told, locks, strayed>>
    BY <1>28 DEF FreeJoins
  <2>1. TypeOK'
    <3>1. call' \in [Threads -> Call]
      BY <2>0, GoToStep DEF Step
    <3>2. joins' \in [Threads -> Seq(Threads)]
      BY <2>0, EmptySeq DEF TypeOK
    <3> QED
      BY <2>0, <3>1, <3>2 DEF TypeOK
  <2>2. CallOK'
    BY <2>0 DEF In, GoTo, CallOK
  <2>3. ListedOK'
    BY <2>0 DEF In, Ready, GoTo, ListedOK
  <2>4. StopOK'
    BY <2>0 DEF In, Ready, GoTo, StopOK, CallOK
  <2>5. JoinableOK'
    <3>1. \A d \in Threads \ {c} : call'[d] = call[d]
      BY <2>0, GoToStep DEF Step
    <3>2. call'[c].at = "gate" /\ call'[c].t = call[c].t
      BY <2>0, GoToStep DEF Step
    <3>3. task[call[c].t] = "deleted" \/ (task[call[c].t] = "free" /\ call[c].t = c)
      BY <2>0, <1>26
    <3>4. heap \subseteq Threads
      BY DEF TypeOK
    <3> QED
      BY <2>0, <3>1, <3>2, <3>3, <3>4 DEF JoinableOK
  <2>6. CreatedHasStarted'
    BY <2>0 DEF In, Ready, GoTo, CreatedHasStarted, GateOK
  <2>7. JoinsOK'
    <3>1. ASSUME NEW d \in Threads, NEW u \in Threads, Pending(d, u)
          PROVE  Pending(d, u)'
      <4>1. d # c
        BY <2>0, <3>1 DEF In, Pending
      <4> QED
        BY <2>0, <3>1, <4>1, GoToStep DEF Pending, Step
    <3>2. \A u \in Threads : u # call[c].t => joins'[u] = joins[u]
      BY <2>0 DEF TypeOK
    <3>3. joins'[call[c].t] = <<>> /\ DOMAIN joins'[call[c].t] = {} /\ call[c].t \in Threads
      BY <2>0, <1>26 DEF TypeOK
    <3>4. \A u \in Threads : \A i \in DOMAIN joins'[u] : u # call[c].t /\ i \in DOMAIN joins[u]
      BY <3>2, <3>3
    <3>5. walk' = walk
      BY <2>0
    <3>6. ASSUME NEW u \in Threads, NEW i \in DOMAIN joins'[u], i >= walk'[u]
          PROVE  Pending(joins[u][i], u)'
      <4>1. joins'[u] = joins[u] /\ i \in DOMAIN joins[u] /\ i >= walk[u]
        BY <3>2, <3>4, <3>5, <3>6
      <4>2. PICK d \in Threads : d = joins[u][i]
        BY <4>1, JoinersTyped
      <4>3. Pending(d, u)'
        BY <3>1, <4>1, <4>2 DEF JoinsOK
      <4> QED
        BY <4>1, <4>2, <4>3
    <3>7. \A u \in Threads : \A i, j \in DOMAIN joins'[u] :
            i >= walk'[u] /\ j >= walk'[u] /\ joins'[u][i] = joins'[u][j] => i = j
      BY <3>2, <3>4, <3>5 DEF JoinsOK
    <3>8. \A u \in Threads : u \notin joinable' => joins'[u] = <<>>
      BY <2>0, <3>2, <3>3 DEF JoinsOK
    <3> QED
      BY <3>6, <3>7, <3>8 DEF JoinsOK
  <2>8. JoinedHasEnded'
    BY <2>0 DEF In, Ready, GoTo, JoinedHasEnded, JoinsOK
  <2>9. GateOK' /\ WalkOK' /\ DepthOK'
    BY <2>0 DEF In, GoTo, GateOK, WalkOK, DepthOK
  <2> QED
    BY <2>1, <2>2, <2>3, <2>4, <2>5, <2>6, <2>7, <2>8, <2>9
<1>29. ASSUME NEW c \in Threads, FreeGate(c)
       PROVE  IInv'
  <2>0. /\ In(c, "gate")
        /\ gate' = [gate EXCEPT ![call[c].t] = "deleted"]
        /\ GoTo(c, "remove")
        /\ task[call[c].t] \in {"free", "deleted"}
        /\ UNCHANGED <<lists, tasks, known, walk, told, locks, strayed>>
    BY <1>26, <1>29 DEF FreeGate
  <2> HIDE <1>29
  <2>1. TypeOK'
    <3>1. call' \in [Threads -> Call]
      BY <2>0, GoToStep DEF Step
    <3> QED
      BY <2>0, <3>1 DEF In, TypeOK
  <2>2. CallOK'
    BY <2>0 DEF In, GoTo, CallOK
  <2>3. ListedOK'
    BY <2>0 DEF In, Ready, GoTo, ListedOK
  <2>4. StopOK'
    BY <2>0 DEF In, Ready, GoTo, StopOK, CallOK
  <2>5. JoinableOK'
    BY <2>0 DEF In, GoTo, JoinableOK
  <2>6. GateOK'
    BY <2>0 DEF GoTo, GateOK, TypeOK
  <2>7. CreatedHasStarted'
    BY <2>0 DEF In, Ready, GoTo, CreatedHasStarted
  <2>8. JoinsOK'
    BY <2>0 DEF In, Ready, GoTo, JoinsOK, JoinedHasEnded, Pending,
       TypeOK, CallOK, Call
  <2>9. JoinedHasEnded'
    BY <2>0 DEF In, Ready, GoTo, JoinedHasEnded, JoinsOK
  <2>10. WalkOK' /\ DepthOK'
    BY <2>0 DEF In, GoTo, WalkOK, DepthOK
  <2> QED
    BY <2>1, <2>2, <2>3, <2>4, <2>5, <2>6, <2>7, <2>8, <2>9, <2>10
<1>17. ASSUME NEW c \in Threads, FreeRemove(c)
       PROVE  IInv'
  <2> DEFINE x == call[c].t
             k == call[c].id
  <2>0. /\ In(c, "remove")
        /\ k \in Ids /\ table[k] = x /\ x \in Threads /\ x # None /\ x \in heap
        /\ table' = [table EXCEPT ![k] = None]
        /\ heap' = heap \ {x}
        /\ Return(c)
        /\ UNCHANGED <<joinable, joins, asleep, known, gate, walk, told, locks, strayed>>
    BY <1>17, <1>26 DEF FreeRemove
  <2>1. /\ task'[x] = "deleted" /\ task[x] \in {"free", "deleted"}
        /\ \A u \in Threads \ {x} : task'[u] = task[u]
        /\ task' \in [Threads -> TaskState]
        /\ task[c] = "free" => x = c
    <3>1. In(c, "remove")
      BY <1>17 DEF FreeRemove
    <3>2. CASE task[c] = "free"
      BY <1>17, <1>26, <3>1, <3>2 DEF FreeRemove, TypeOK, TaskState
    <3>3. CASE task[c] # "free"
      BY <1>17, <1>26, <3>1, <3>3 DEF FreeRemove, TypeOK
    <3> QED
      BY <3>2, <3>3
  <2>2. /\ call' \in [Threads -> Call] /\ call'[c] = NoCall
        /\ \A d \in Threads \ {c} : call'[d] = call[d]
    BY <2>0 DEF Return, TypeOK, NoCall, Call, Step
  <2>3. x \notin joinable
    BY <2>0 DEF In, JoinableOK
  <2>4. \A i \in Ids \ {k} : table'[i] = table[i] /\ table[i] # x
    BY <2>0 DEF ListedOK, TypeOK
  <2>5. table'[k] = None
    BY <2>0 DEF TypeOK
  <2>6. NoCall.at = "none" /\ task[c] \in {"run", "free"} /\ call[c].at = "remove"
    BY <2>0 DEF NoCall, In
  <2> HIDE <1>17 DEF x, k
  <2>7. TypeOK'
    BY <2>0, <2>1, <2>2 DEF TypeOK
  <2>8. CallOK'
    BY <2>0, <2>1, <2>2, <2>6 DEF CallOK
  <2>9. ListedOK'
    <3>1. \A i \in Ids : table'[i] # None => table'[i] \in heap'
      BY <2>0, <2>4, <2>5 DEF ListedOK
    <3>2. \A t \in heap' : \E i \in Ids : table'[i] = t
      BY <2>0, <2>4, <2>5 DEF ListedOK
    <3>3. \A i, j \in Ids : table'[i] # None /\ table'[i] = table'[j] => i = j
      BY <2>4, <2>5 DEF ListedOK
    <3>4. \A t \in Threads : task'[t] \notin {"none", "deleted"} => t \in heap'
      BY <2>0, <2>1 DEF ListedOK
    <3>5. \A d \in Threads :
            call'[d].at = "taskCreate" => call'[d].t \in heap' /\ task'[call'[d].t] = "none"
      BY <2>0, <2>1, <2>2, <2>6 DEF ListedOK, CallOK
    <3>6. \A d, e \in Threads :
            call'[d].at = "taskCreate" /\ call'[e].at = "taskCreate" /\ call'[d].t = call'[e].t
              => d = e
      BY <2>2, <2>6 DEF ListedOK
    <3> QED
      BY <3>1, <3>2, <3>3, <3>4, <3>5, <3>6 DEF ListedOK
  <2>10. StopOK'
    <3>1. \A d \in Threads : call'[d].at = "stop" =>
            \/ table'[call'[d].id] = call'[d].t
            \/ call'[d].t \notin heap' /\ task'[call'[d].t] = "deleted"
      <4> SUFFICES ASSUME NEW d \in Threads, call'[d].at = "stop"
                   PROVE  \/ table'[call'[d].id] = call'[d].t
                          \/ call'[d].t \notin heap' /\ task'[call'[d].t] = "deleted"
        OBVIOUS
      <4>1. d # c /\ call'[d] = call[d] /\ call[d].id \in Ids /\ call[d].t \in Threads
        BY <2>2, <2>6 DEF TypeOK, Call, CallOK
      <4>2. CASE call[d].t = x
        BY <2>0, <2>1, <4>1, <4>2
      <4>3. CASE call[d].t # x
        BY <2>0, <2>1, <2>4, <4>1, <4>3 DEF StopOK
      <4> QED
        BY <4>2, <4>3
    <3>2. \A d \in Threads \ {c} : call[d].at \in Frees /\ task[d] \in {"run", "free"} /\ d # x
            => call[d].t # x
      <4> SUFFICES ASSUME NEW d \in Threads \ {c}, call[d].at \in Frees,
                          task[d] \in {"run", "free"}, d # x, call[d].t = x
                   PROVE  FALSE
        OBVIOUS
      <4>1. task[d] = "run" /\ task[x] = "deleted"
        BY DEF StopOK
      <4>2. task[c] = "run"
        BY <2>6, <4>1 DEF StopOK, x
      <4> QED
        BY <2>6, <4>1, <4>2 DEF StopOK, x
    <3>3. ASSUME NEW d \in Threads, task'[d] = "free"
          PROVE  call'[d].at \in Frees /\ call'[d].t = d /\ table'[call'[d].id] = d
      <4>1. d # x /\ task[d] = "free"
        BY <2>1, <3>3
      <4>2. d # c
        BY <2>6, <4>1 DEF StopOK, x
      <4>3. call[d].id \in Ids
        BY DEF TypeOK, Call
      <4> QED
        BY <2>2, <2>4, <2>5, <2>0, <4>1, <4>2, <4>3 DEF StopOK
    <3>4. ASSUME NEW d \in Threads, task'[d] = "run", call'[d].at \in Frees
          PROVE  table'[call'[d].id] = call'[d].t /\ task'[call'[d].t] = "deleted"
      <4>1. d # x /\ task[d] = "run" /\ d # c
        BY <2>1, <2>2, <2>6, <3>4
      <4>2. call[d].id \in Ids /\ call[d].t \in Threads /\ call'[d] = call[d]
        BY <2>2, <3>4, <4>1 DEF TypeOK, Call, CallOK
      <4>3. call[d].t # x
        BY <3>2, <3>4, <4>1, <4>2
      <4> QED
        BY <2>0, <2>1, <2>4, <3>4, <4>1, <4>2, <4>3 DEF StopOK
    <3>5. \A d, e \in Threads :
            task'[d] = "run" /\ call'[d].at \in Frees /\ task'[e] = "run" /\ call'[e].at \in Frees
              /\ call'[d].t = call'[e].t => d = e
      BY <2>1, <2>2, <2>6 DEF StopOK
    <3> HIDE DEF Frees
    <3> QED
      BY <3>1, <3>3, <3>4, <3>5 DEF StopOK
  <2>11. JoinableOK'
    <3>1. joinable' \subseteq heap'
      BY <2>0, <2>3 DEF JoinableOK
    <3>2. ASSUME NEW t \in heap' \ joinable'
          PROVE  task'[t] = "deleted" \/ (task'[t] = "free" /\ call'[t].at \in {"gate", "remove"})
      <4>1. t \in Threads /\ t \in heap \ joinable /\ t # x
        BY <2>0, <3>2 DEF TypeOK
      <4>2. task[t] = "deleted" \/ (task[t] = "free" /\ call[t].at \in {"gate", "remove"})
        BY <4>1 DEF JoinableOK
      <4>3. task[t] = "free" => t # c
        BY <2>1, <4>1
      <4> QED
        BY <2>1, <2>2, <4>1, <4>2, <4>3
    <3>3. ASSUME NEW d \in Threads, task'[d] \in {"run", "free"}, call'[d].at \in {"gate", "remove"}
          PROVE  call'[d].t \notin joinable'
      <4>1. task[d] \in {"run", "free"} /\ d # c
        BY <2>1, <2>2, <2>6, <3>3
      <4> QED
        BY <2>0, <2>2, <3>3, <4>1 DEF JoinableOK
    <3> QED
      BY <3>1, <3>2, <3>3 DEF JoinableOK
  <2>12. GateOK'
    BY <2>0, <2>1 DEF GateOK, Started, TaskState, TypeOK
  <2>13. CreatedHasStarted'
    <3>1. \A u \in Threads : task[u] \in Started => task'[u] \in Started
      BY <2>1 DEF Started, TaskState
    <3>2. \A d \in Threads : call[d].at = "initDestroy" => call[d].t \in Threads
      BY DEF CallOK
    <3>3. known \subseteq Threads /\ known' = known
      BY <2>0 DEF TypeOK
    <3> QED
      BY <2>2, <2>6, <3>1, <3>2, <3>3 DEF CreatedHasStarted
  <2>14. JoinsOK'
    <3>1. \A d, u \in Threads : Pending(d, u) => Pending(d, u)'
      BY <2>0, <2>2, <2>6 DEF Pending
    <3> QED
      BY JoinersTyped, <2>0, <3>1 DEF JoinsOK
  <2>15. WalkOK'
    BY <2>0, <2>1 DEF WalkOK
  <2>16. JoinedHasEnded'
    <3>1. \A d \in told : d \in Threads /\ d # c /\ call[d].t \in Threads
      BY <2>6 DEF JoinedHasEnded, CallOK, TypeOK
    <3> QED
      BY <2>0, <2>1, <2>2, <3>1 DEF JoinedHasEnded
  <2>18. DepthOK'
    BY <2>0 DEF DepthOK
  <2> QED
    BY <2>7, <2>8, <2>9, <2>10, <2>11, <2>12, <2>13, <2>14, <2>15, <2>16, <2>18
<1>10. ASSUME NEW c \in Threads, SuspendTask(c), TaskThere(call[c].t)
      PROVE  IInv'
  <2>0. /\ In(c, "suspend")
        /\ call[c].t \in heap \cap known /\ task[call[c].t] # "deleted"
        /\ asleep' = asleep \cup {call[c].t}
        /\ Return(c)
        /\ UNCHANGED <<lists, task, known, gate, walk, told, locks, strayed>>
    BY <1>10 DEF SuspendTask, TaskThere
  <2>1. TypeOK'
    BY <2>0 DEF In, Ready, Return, TypeOK, Call, Step, NoCall
  <2>2. CallOK'
    BY <2>0 DEF In, Return, CallOK, NoCall
  <2>3. ListedOK' /\ JoinableOK'
    BY <2>0 DEF JoinableOK, CallOK, StopOK, In, Ready, Return, ListedOK, CallOK, TypeOK, NoCall
  <2>4. StopOK'
    BY <2>0 DEF In, Ready, Return, StopOK, NoCall, Call
  <2>5. CreatedHasStarted'
    BY <2>0 DEF In, Return, CreatedHasStarted, CallOK, Call, NoCall, StopOK
  <2>6. JoinsOK'
    BY <2>0 DEF In, Ready, Return, JoinsOK, JoinedHasEnded, Pending,
       TypeOK, CallOK, Call
  <2>7. JoinedHasEnded'
    BY <2>0 DEF In, Return, JoinedHasEnded
  <2>8. GateOK' /\ WalkOK' /\ DepthOK'
    BY <2>0 DEF In, Return, GateOK, WalkOK, DepthOK
  <2> QED
    BY <2>1, <2>2, <2>3, <2>4, <2>5, <2>6, <2>7, <2>8
<1>11. ASSUME NEW c \in Threads, ResumeTask(c), TaskThere(call[c].t)
      PROVE  IInv'
  <2>0. /\ In(c, "resume")
        /\ call[c].t \in heap \cap known /\ task[call[c].t] # "deleted"
        /\ asleep' = asleep \ {call[c].t}
        /\ Return(c)
        /\ UNCHANGED <<lists, task, known, gate, walk, told, locks, strayed>>
    BY <1>11 DEF ResumeTask, TaskThere
  <2>1. TypeOK'
    BY <2>0 DEF In, Ready, Return, TypeOK, Call, Step, NoCall
  <2>2. CallOK'
    BY <2>0 DEF In, Return, CallOK, NoCall
  <2>3. ListedOK' /\ JoinableOK'
    BY <2>0 DEF JoinableOK, CallOK, StopOK, In, Ready, Return, ListedOK, CallOK, TypeOK, NoCall
  <2>4. StopOK'
    BY <2>0 DEF In, Ready, Return, StopOK, NoCall, Call
  <2>5. CreatedHasStarted'
    BY <2>0 DEF In, Return, CreatedHasStarted, CallOK, Call, NoCall, StopOK
  <2>6. JoinsOK'
    BY <2>0 DEF In, Ready, Return, JoinsOK, JoinedHasEnded, Pending,
       TypeOK, CallOK, Call
  <2>7. JoinedHasEnded'
    BY <2>0 DEF In, Return, JoinedHasEnded
  <2>8. GateOK' /\ WalkOK' /\ DepthOK'
    BY <2>0 DEF In, Return, GateOK, WalkOK, DepthOK
  <2> QED
    BY <2>1, <2>2, <2>3, <2>4, <2>5, <2>6, <2>7, <2>8
<1>12. ASSUME NEW c \in Threads, TaskEntry(c), c \in heap /\ gate[c] # "deleted"
      PROVE  IInv'
  <2>0. /\ task[c] \in {"entry", "entrySuspended"} /\ Ready(c)
        /\ c \in heap
        /\ gate' = [gate EXCEPT ![c] = "given"]
        /\ task' = [task EXCEPT ![c] = IF task[c] = "entry" THEN "run" ELSE "suspending"]
        /\ UNCHANGED <<lists, asleep, known, walk, told, locks, call, strayed>>
    BY <1>12 DEF TaskEntry
  <2>1. TypeOK'
    BY <2>0 DEF Ready, TypeOK, TaskState, Idle
  <2>2. ListedOK' /\ JoinableOK'
    BY <2>0 DEF JoinableOK, CallOK, StopOK, Ready, ListedOK
  <2>3. StopOK'
    <3>1. call[c].at = "none" /\ call' = call /\ table' = table /\ heap' = heap
      BY <2>0 DEF CallOK
    <3>2. task'[c] \in {"run", "suspending"} /\ \A u \in Threads \ {c} : task'[u] = task[u]
      BY <2>0 DEF TypeOK
    <3>3. \A d \in Threads : call[d].at # "none" => call[d].t \in Threads
      BY DEF CallOK
    <3>4. task[c] \in {"entry", "entrySuspended"}
      BY <2>0
    <3> QED
      BY <3>1, <3>2, <3>3, <3>4 DEF StopOK
  <2>4. GateOK'
    BY <2>0 DEF Ready, GateOK, ListedOK, Started, TaskState,
       CreatedHasStarted, TypeOK
  <2>5. CreatedHasStarted'
    BY <2>0 DEF CreatedHasStarted, ListedOK, Started, TaskState, TypeOK
  <2>6. WalkOK'
    BY <2>0 DEF WalkOK
  <2>7. JoinedHasEnded'
    BY <2>0 DEF JoinedHasEnded
  <2>8. CallOK' /\ JoinsOK' /\ DepthOK'
    BY <2>0 DEF Ready, CallOK, JoinsOK, Pending, DepthOK
  <2> QED
    BY <2>1, <2>2, <2>3, <2>4, <2>5, <2>6, <2>7, <2>8
<1>13. ASSUME NEW c \in Threads, TaskSuspend(c)
      PROVE  IInv'
  <2>1. TypeOK'
    BY <1>13 DEF TaskSuspend, Ready, TypeOK, TaskState, Idle
  <2>2. ListedOK' /\ JoinableOK'
    BY <1>13 DEF JoinableOK, CallOK, StopOK, TaskSuspend, Ready, ListedOK
  <2>3. StopOK'
    <3>1. call[c].at = "none" /\ call' = call /\ table' = table /\ heap' = heap
      BY <1>13 DEF TaskSuspend, CallOK
    <3>2. task'[c] = "run" /\ \A u \in Threads \ {c} : task'[u] = task[u]
      BY <1>13 DEF TaskSuspend, TypeOK
    <3>3. \A d \in Threads : call[d].at # "none" => call[d].t \in Threads
      BY DEF CallOK
    <3>4. task[c] = "suspending"
      BY <1>13 DEF TaskSuspend
    <3> QED
      BY <3>1, <3>2, <3>3, <3>4 DEF StopOK
  <2>4. GateOK'
    BY <1>13 DEF TaskSuspend, Ready, GateOK, ListedOK, Started,
       TaskState, CreatedHasStarted, TypeOK
  <2>5. CreatedHasStarted'
    BY <1>13 DEF TaskSuspend, CreatedHasStarted, ListedOK, Started, TaskState, TypeOK
  <2>6. WalkOK'
    BY <1>13 DEF TaskSuspend, WalkOK
  <2>7. JoinedHasEnded'
    BY <1>13 DEF TaskSuspend, JoinedHasEnded
  <2>8. CallOK' /\ JoinsOK' /\ DepthOK'
    BY <1>13 DEF TaskSuspend, Ready, CallOK, JoinsOK, Pending, DepthOK
  <2> QED
    BY <2>1, <2>2, <2>3, <2>4, <2>5, <2>6, <2>7, <2>8
<1>14. ASSUME NEW c \in Threads, TaskNotify(c)
      PROVE  IInv'
  <2>0. /\ walk[c] \in DOMAIN joins[c]
        /\ joins[c][walk[c]] \in Threads
        /\ Pending(joins[c][walk[c]], c)
    <3>1. walk[c] \in DOMAIN joins[c]
      BY <1>14, <1>0 DEF TaskNotify, WalkOK, TypeOK
    <3> QED
      BY <1>0, <3>1, ElementOfSeq DEF JoinsOK, TypeOK
  <2>1. TypeOK'
    <3>1. walk' \in [Threads -> Nat] /\ told' \subseteq Threads
      BY <1>14, <2>0 DEF TaskNotify, TypeOK
    <3> QED
      BY <1>14, <3>1 DEF TaskNotify, TypeOK
  <2>2. JoinsOK'
    <3>0. PICK d \in Threads : d = joins[c][walk[c]]
      BY <2>0
    <3>1. ASSUME NEW e \in Threads, NEW u \in Threads, e # d, Pending(e, u)
          PROVE  Pending(e, u)'
      BY <1>14, <2>0, <3>0, <3>1 DEF TaskNotify, Pending
    <3>2. /\ walk'[c] = walk[c] + 1 /\ walk[c] \in Nat
          /\ \A u \in Threads \ {c} : walk'[u] = walk[u]
          /\ UNCHANGED <<joins, joinable, task>>
      BY <1>14 DEF TaskNotify, TypeOK
    <3>3. ASSUME NEW u \in Threads, NEW i \in DOMAIN joins[u], i >= walk'[u]
          PROVE  i >= walk[u] /\ (u = c => i # walk[c])
      <4>1. i \in Nat
        BY <1>0
      <4> QED
        BY <3>2, <3>3, <4>1
    <3>4. ASSUME NEW u \in Threads, NEW i \in DOMAIN joins[u], i >= walk'[u]
          PROVE  joins[u][i] # d
      <4>1. CASE u = c
        BY <2>0, <3>0, <3>2, <3>3, <3>4, <4>1 DEF JoinsOK
      <4>2. CASE u # c
        BY <2>0, <3>0, <3>3, <3>4, <4>2 DEF JoinsOK, Pending
      <4> QED
        BY <4>1, <4>2
    <3>5. ASSUME NEW u \in Threads, NEW i \in DOMAIN joins[u], i >= walk'[u]
          PROVE  Pending(joins[u][i], u)'
      <4>1. PICK e \in Threads : e = joins[u][i]
        BY JoinersTyped
      <4>2. Pending(e, u)'
        BY <3>1, <3>3, <3>4, <3>5, <4>1 DEF JoinsOK
      <4> QED
        BY <3>2, <4>1, <4>2
    <3>6. \A u \in Threads : \A i, j \in DOMAIN joins[u] :
            i >= walk'[u] /\ j >= walk'[u] /\ joins[u][i] = joins[u][j] => i = j
      BY <3>3 DEF JoinsOK
    <3> QED
      BY <3>2, <3>5, <3>6 DEF JoinsOK
  <2>3. WalkOK'
    <3>1. \A t \in Threads : walk[t] \in Nat /\ (walk[t] >= 1 => walk[t] + 1 >= 1)
      BY DEF TypeOK
    <3> QED
      BY <1>14, <3>1 DEF TaskNotify, WalkOK
  <2>4. JoinedHasEnded'
    BY <1>14, <2>0 DEF TaskNotify, JoinedHasEnded, Pending
  <2>5. CallOK' /\ ListedOK' /\ JoinableOK' /\ StopOK' /\ GateOK' /\ CreatedHasStarted' /\ DepthOK'
    BY <1>14, <2>0 DEF JoinableOK, TaskNotify, CallOK, ListedOK, StopOK, GateOK,
       CreatedHasStarted, DepthOK
  <2> QED
    BY <2>1, <2>2, <2>3, <2>4, <2>5
<1>15. ASSUME NEW c \in Threads, TaskNotified(c)
      PROVE  IInv'
  <2>1. TypeOK'
    BY <1>15 DEF TaskNotified, Ready, TypeOK, TaskState, Idle
  <2>2. ListedOK' /\ JoinableOK'
    BY <1>15 DEF JoinableOK, CallOK, StopOK, TaskNotified, Ready, ListedOK
  <2>3. StopOK'
    BY <1>15 DEF TaskNotified, Ready, StopOK
  <2>4. GateOK'
    BY <1>15 DEF TaskNotified, Ready, GateOK, ListedOK, Started,
       TaskState, CreatedHasStarted, TypeOK
  <2>5. CreatedHasStarted'
    BY <1>15 DEF TaskNotified, CreatedHasStarted, ListedOK, Started, TaskState, TypeOK
  <2>6. WalkOK'
    BY <1>15 DEF TaskNotified, WalkOK
  <2>7. JoinedHasEnded'
    BY <1>15 DEF TaskNotified, JoinedHasEnded
  <2>8. CallOK' /\ JoinsOK' /\ DepthOK'
    BY <1>15 DEF TaskNotified, Ready, CallOK, JoinsOK, Pending, DepthOK
  <2> QED
    BY <2>1, <2>2, <2>3, <2>4, <2>5, <2>6, <2>7, <2>8
<1>16. ASSUME NEW c \in Threads, TaskClean(c)
      PROVE  IInv'
  <2>0. PICK k \in Ids : table[k] = c /\ IdOf(c) = k
    BY <1>16 DEF TaskClean, ListedOK, IdOf
  <2>1. /\ task[c] = "clean" /\ task' = [task EXCEPT ![c] = "free"]
        /\ call' = [call EXCEPT ![c] = [at |-> "mutexes", t |-> c, id |-> k]]
        /\ UNCHANGED <<lists, asleep, known, gate, walk, told, locks, strayed>>
    BY <1>16, <2>0 DEF TaskClean
  <2>2. call[c].at = "none"
    BY <2>1 DEF CallOK
  <2> HIDE <1>16
  <2>3. TypeOK'
    BY <2>1 DEF TypeOK, TaskState, Call, Step
  <2>4. /\ call'[c].at = "mutexes" /\ call'[c].t = c /\ call'[c].id = k
        /\ \A d \in Threads \ {c} : call'[d] = call[d]
        /\ task'[c] = "free"
        /\ \A d \in Threads \ {c} : task'[d] = task[d]
        /\ UNCHANGED <<table, heap, joinable, joins>>
    BY <2>1 DEF TypeOK
  <2>5. c \in heap
    BY <2>1 DEF ListedOK
  <2>6. CallOK'
    BY <2>1, <2>4, <2>5 DEF CallOK
  <2>7. ListedOK'
    BY <2>1, <2>4, <2>5 DEF ListedOK, CallOK
  <2>8. StopOK'
    BY <2>0, <2>1, <2>2, <2>4, <2>5 DEF StopOK, CallOK
  <2>9. JoinableOK'
    BY <2>1, <2>4, <2>5 DEF JoinableOK, TypeOK
  <2>10. GateOK'
    BY <2>1, <2>4 DEF GateOK, Started, TaskState, TypeOK
  <2>11. CreatedHasStarted'
    BY <2>1, <2>2, <2>4 DEF CreatedHasStarted, Started, TaskState, TypeOK, CallOK
  <2>12. WalkOK'
    BY <2>1, <2>4 DEF WalkOK
  <2>13. JoinedHasEnded'
    BY <2>1, <2>2, <2>4 DEF JoinedHasEnded, CallOK
  <2>14. JoinsOK'
    <3>1. \A d, u \in Threads : Pending(d, u) => Pending(d, u)'
      BY <2>1, <2>2, <2>4 DEF Pending
    <3> QED
      BY JoinersTyped, <2>1, <2>4, <3>1 DEF JoinsOK
  <2>15. DepthOK'
    BY <2>1 DEF DepthOK
  <2> QED
    BY <2>3, <2>6, <2>7, <2>8, <2>9, <2>10, <2>11, <2>12, <2>13, <2>14, <2>15
<1>18. ASSUME NEW c \in Threads, TaskReturn(c)
      PROVE  IInv'
  <2>1. TypeOK'
    BY <1>18 DEF TaskReturn, Client, Ready, TypeOK, TaskState, Idle
  <2>2. ListedOK' /\ JoinableOK'
    BY <1>18 DEF JoinableOK, CallOK, StopOK, TaskReturn, Client, Ready, ListedOK
  <2>3. StopOK'
    BY <1>18 DEF TaskReturn, Client, Ready, StopOK
  <2>4. GateOK'
    BY <1>18 DEF TaskReturn, Client, Ready, GateOK, ListedOK, Started,
       TaskState, CreatedHasStarted, TypeOK
  <2>5. CreatedHasStarted'
    BY <1>18 DEF TaskReturn, Client, CreatedHasStarted, ListedOK, Started,
       TaskState, TypeOK
  <2>6. JoinsOK'
    <3>1. /\ walk[c] = 0 /\ walk'[c] = 1
          /\ \A u \in Threads \ {c} : walk'[u] = walk[u]
          /\ UNCHANGED <<joins, joinable, told, call>>
          /\ task'[c] = "notify"
          /\ \A u \in Threads \ {c} : task'[u] = task[u]
      BY <1>18 DEF TaskReturn, Client, TypeOK, TaskState, WalkOK
    <3>2. \A u \in Threads : \A i \in DOMAIN joins[u] : i >= walk'[u] => i >= walk[u]
      BY <1>0, <3>1
    <3> QED
      BY <1>0, <3>1, <3>2 DEF JoinsOK, Pending
  <2>7. WalkOK'
    BY <1>18 DEF TaskReturn, Client, WalkOK, TypeOK
  <2>8. JoinedHasEnded'
    BY <1>18 DEF TaskReturn, Client, JoinedHasEnded
  <2>9. CallOK' /\ DepthOK'
    BY <1>18 DEF TaskReturn, Client, CallOK, DepthOK
  <2> QED
    BY <2>1, <2>2, <2>3, <2>4, <2>5, <2>6, <2>7, <2>8, <2>9
<1>19. ASSUME NEW c \in Threads, NEW id \in Ids, Join(c, id)
      PROVE  IInv'
  <2>1. TypeOK'
    BY <1>19 DEF Join, Get, Client, Ready, TypeOK, Call, Step, NoCall
  <2>2. CallOK'
    BY <1>19 DEF Join, Get, Client, CallOK, ListedOK, TypeOK, Call
  <2>3. ListedOK' /\ JoinableOK'
    BY <1>19 DEF JoinableOK, CallOK, StopOK, Join, Get, Client, Ready, ListedOK
  <2>4. StopOK'
    BY <1>19 DEF Join, Get, Client, Ready, StopOK
  <2>5. CreatedHasStarted'
    BY <1>19 DEF Join, Get, Client, Ready, CreatedHasStarted, GateOK
  <2>6. JoinsOK'
    BY <1>19 DEF Join, Get, Client, Ready, JoinsOK, JoinedHasEnded,
       Pending, TypeOK, CallOK, Call
  <2>7. JoinedHasEnded'
    BY <1>19 DEF Join, Get, Client, Ready, JoinedHasEnded, JoinsOK
  <2>8. GateOK' /\ WalkOK' /\ DepthOK'
    BY <1>19 DEF Join, Get, Client, GateOK, WalkOK, DepthOK
  <2> QED
    BY <2>1, <2>2, <2>3, <2>4, <2>5, <2>6, <2>7, <2>8
<1>20. ASSUME NEW c \in Threads, NEW name \in {"stop", "suspend", "resume"},
              NEW id \in Ids, Control(c, name, id)
      PROVE  IInv'
  <2>1. TypeOK'
    BY <1>20 DEF Control, Get, Client, Ready, TypeOK, Call, Step, NoCall
  <2>2. CallOK'
    BY <1>20 DEF Control, Get, Client, CallOK, ListedOK, TypeOK, Call
  <2>3. ListedOK' /\ JoinableOK'
    BY <1>20 DEF JoinableOK, CallOK, StopOK, Control, Get, Client, Ready, ListedOK
  <2>4. StopOK'
    BY <1>20 DEF Control, Get, Client, Ready, StopOK
  <2>5. CreatedHasStarted'
    BY <1>20 DEF Control, Get, Client, Ready, CreatedHasStarted, GateOK
  <2>6. JoinsOK'
    BY <1>20 DEF Control, Get, Client, Ready, JoinsOK, JoinedHasEnded,
       Pending, TypeOK, CallOK, Call
  <2>7. JoinedHasEnded'
    BY <1>20 DEF Control, Get, Client, Ready, JoinedHasEnded, JoinsOK
  <2>8. GateOK' /\ WalkOK' /\ DepthOK'
    BY <1>20 DEF Control, Get, Client, GateOK, WalkOK, DepthOK
  <2> QED
    BY <2>1, <2>2, <2>3, <2>4, <2>5, <2>6, <2>7, <2>8
<1>21. ASSUME NEW c \in Threads, NEW m \in Mutexes, Lock(c, m)
      PROVE  IInv'
  <2>1. TypeOK'
    BY <1>21 DEF Lock, Client, Ready, TypeOK
  <2>2. DepthOK'
    BY <1>21 DEF Lock, Client, DepthOK, TypeOK
  <2>3. /\ CallOK' /\ ListedOK' /\ JoinableOK' /\ StopOK' /\ GateOK'
        /\ CreatedHasStarted' /\ JoinsOK' /\ WalkOK' /\ JoinedHasEnded'
    BY <1>21 DEF JoinableOK, Lock, Client, Ready, CallOK, ListedOK, StopOK,
       GateOK, CreatedHasStarted, JoinsOK, Pending, WalkOK, JoinedHasEnded
  <2> QED
    BY <2>1, <2>2, <2>3
<1>22. ASSUME NEW c \in Threads, NEW m \in Mutexes, Unlock(c, m)
      PROVE  IInv'
  <2>0. /\ UNCHANGED <<lists, tasks, known, gate, walk, told, passed, call, strayed>>
        /\ \A k \in Mutexes \ {m} : mutex'[k] = mutex[k]
        /\ mutex' \in [Mutexes -> [holder : Threads \cup {None}, depth : Nat]]
        /\ mutex'[m].holder # None => mutex'[m].depth >= 1
    <3>1. mutex[m] \in [holder : Threads \cup {None}, depth : Nat \ {0}]
      BY <1>22, ThreadAssumption DEF Unlock, DepthOK, TypeOK
    <3>2. CASE mutex[m].depth = 1
      <4>1. mutex' = [mutex EXCEPT ![m] = Idle]
        BY <1>22, <3>2 DEF Unlock
      <4>2. Idle \in [holder : Threads \cup {None}, depth : Nat] /\ Idle.holder = None
        BY DEF Idle
      <4> QED
        BY <1>22, <4>1, <4>2 DEF Unlock, TypeOK
    <3>3. CASE mutex[m].depth # 1
      <4>1. mutex' = [mutex EXCEPT ![m] = [holder |-> c, depth |-> mutex[m].depth - 1]]
        BY <1>22, <3>3 DEF Unlock
      <4>2. mutex[m].depth - 1 \in Nat /\ mutex[m].depth - 1 >= 1
        BY <3>1, <3>3
      <4> QED
        BY <1>22, <3>1, <4>1, <4>2 DEF Unlock, TypeOK
    <3> QED
      BY <3>2, <3>3
  <2>1. TypeOK'
    BY <2>0 DEF TypeOK
  <2>2. DepthOK'
    BY <2>0 DEF DepthOK
  <2>3. /\ CallOK' /\ ListedOK' /\ JoinableOK' /\ StopOK' /\ GateOK'
        /\ CreatedHasStarted' /\ JoinsOK' /\ WalkOK' /\ JoinedHasEnded'
    BY <2>0 DEF JoinableOK, CallOK, ListedOK, StopOK, GateOK, CreatedHasStarted,
       JoinsOK, Pending, WalkOK, JoinedHasEnded
  <2> QED
    BY <2>1, <2>2, <2>3
<1>23. ASSUME Stray
      PROVE  IInv'
  <2>1. TypeOK'
    BY <1>23 DEF Stray, TypeOK
  <2>2. /\ CallOK' /\ ListedOK' /\ JoinableOK' /\ StopOK' /\ GateOK'
        /\ CreatedHasStarted' /\ JoinsOK' /\ WalkOK' /\ JoinedHasEnded'
        /\ DepthOK'
    BY <1>23 DEF JoinableOK, Stray, CallOK, ListedOK, StopOK, GateOK, CreatedHasStarted,
       JoinsOK, Pending, WalkOK, JoinedHasEnded, DepthOK
  <2> QED
    BY <2>1, <2>2
<1>24. ASSUME NEW c \in Threads, Advance(c) PROVE IInv'
  <2>1. CASE Creating(c)
    BY <2>1, <1>2, <1>3, <1>4, <1>23
       DEF Creating, CreateLock, CreateDone, CreateTaskFails
  <2>2. CASE Joining(c)
    BY <2>2, <1>5, <1>6, <1>7, <1>23 DEF Joining, JoinAdd, JoinWait
  <2>3. CASE Controlling(c)
    BY <2>3, <1>8, <1>10, <1>11, <1>23
       DEF Controlling, StopTask, SuspendTask, ResumeTask
  <2>4. CASE TaskEntry(c)
    BY <2>4, <1>12, <1>23 DEF TaskEntry
  <2>5. CASE Ending(c)
    BY <2>5, <1>14, <1>15, <1>16 DEF Ending
  <2>6. CASE Freeing(c)
    BY <2>6, <1>9, <1>17, <1>23, <1>27, <1>28, <1>29 DEF Freeing, FreeJoins
  <2> QED
    BY <1>24, <2>1, <2>2, <2>3, <2>4, <2>5, <2>6, <1>13 DEF Advance
<1>25. ASSUME NEW c \in Threads, Choose(c) PROVE IInv'
  BY <1>25, <1>1, <1>18, <1>19, <1>20, <1>21, <1>22 DEF Choose
<1> QED
  BY <1>24, <1>25 DEF Next

\* The inductive invariant depends on the state alone.
LEMMA StutterInv == IInv /\ UNCHANGED vars => IInv'
BY DEF IInv, vars, lists, tasks, locks, TypeOK, CallOK, ListedOK, StopOK, JoinableOK, GateOK, CreatedHasStarted, JoinsOK,
       Pending, WalkOK, JoinedHasEnded, DepthOK

-----------------------------------------------------------------------------
(* What holds of every thread, whatever threads call                       *)

\* The inductive invariant holds in every state the pthread functions reach.
THEOREM Invariance == Spec => []IInv
<1>1. IInv /\ [Next]_vars => IInv'
  BY NextInv, StutterInv
<1> QED
  BY InitInv, <1>1, PTL DEF Spec

\* The variables keep to their types.
THEOREM TypeCorrect == Spec => []TypeOK
<1>1. IInv => TypeOK
  BY DEF IInv
<1> QED
  BY Invariance, <1>1, PTL

\* A thread that has a task finds itself on the list, under one id: pthreadTask and
\* the signal functions do not test the result of their search.
THEOREM AlwaysSelfListed == Spec => []SelfListed
<1>1. IInv => SelfListed
  <2> SUFFICES ASSUME IInv, NEW t \in Threads, task[t] \notin {"none", "deleted"}
               PROVE  t \in heap /\ \E id \in Ids : \A i \in Ids : table[i] = t <=> i = id
    BY DEF SelfListed
  <2>1. t \in heap /\ t # None
    BY ThreadAssumption DEF IInv, ListedOK
  <2>2. PICK id \in Ids : table[id] = t
    BY <2>1 DEF IInv, ListedOK
  <2> QED
    BY <2>1, <2>2 DEF IInv, ListedOK
<1> QED
  BY Invariance, <1>1, PTL

\* pthread_create does not return before the new task has set its id and its Lua
\* state, and nobody finds that task earlier.
THEOREM HandshakeHolds == Spec => []CreatedHasStarted
<1>1. IInv => CreatedHasStarted
  BY DEF IInv
<1> QED
  BY Invariance, <1>1, PTL

\* pthread_join does not return before the start routine has, though ids are used
\* again and threads are stopped.
THEOREM JoinIsAfterEnd == Spec => []JoinedHasEnded
<1>1. IInv => JoinedHasEnded
  BY DEF IInv
<1> QED
  BY Invariance, <1>1, PTL

-----------------------------------------------------------------------------
(* Mutexes, as long as no thread is stopped by another                     *)

NoStopping ==
  /\ \A c \in Threads : call[c].at # "stop" /\ (call[c].at \in Frees => task[c] = "free")
  /\ \A c \in Threads : call[c].at # "mutexes" => passed[c] = {}
  /\ \A m \in Mutexes : LET h == mutex[m].holder IN h # None =>
       /\ task[h] \notin {"none", "deleted"}
       /\ task[h] = "free" => call[h].at = "mutexes" /\ m \notin passed[h]

\* Without pthread_stop every step keeps: who holds a mutex has a task that lives, and one
\* that has called _pthread_free has not passed that mutex yet.
LEMMA NoStoppingInv ==
  ASSUME "stop" \notin Calls, IInv, NoStopping, [Next]_vars
  PROVE  NoStopping'
<1> USE ThreadAssumption DEF IInv, Frees
<1>0. \A m \in Mutexes : mutex[m].holder \in Threads \cup {None}
  BY DEF TypeOK
<1>1. CASE UNCHANGED vars
  BY <1>1 DEF vars, tasks, locks, NoStopping
<1>2. ASSUME NEW c \in Threads, UNCHANGED <<task, mutex, passed>>,
             call[c].at \notin Frees, call'[c].at \notin Frees \cup {"stop"},
             \A d \in Threads \ {c} : call'[d] = call[d]
      PROVE  NoStopping'
  BY <1>0, <1>2 DEF NoStopping
<1>3. ASSUME NEW c \in Threads,
             \/ CreateTaskFails(c) \/ CreateLock(c) \/ CreateDone(c)
             \/ Joining(c) \/ SuspendTask(c) \/ ResumeTask(c)
      PROVE  NoStopping'
  <2>1. UNCHANGED <<task, mutex, passed>>
    BY <1>3 DEF CreateTaskFails, CreateLock, CreateDone, Joining, JoinAdd, JoinWait,
                JoinReceive, SuspendTask, ResumeTask, Stray, tasks, locks
  <2>2. call[c].at \in {"taskCreate", "initLock", "initDestroy", "joinAdd", "joinWait",
                        "joinReceive", "suspend", "resume"}
    BY <1>3 DEF CreateTaskFails, CreateLock, CreateDone, Joining, JoinAdd, JoinWait,
                JoinReceive, SuspendTask, ResumeTask, In
  <2>3. \/ call' = call \/ Return(c)
        \/ \E s \in {"initDestroy", "joinWait", "joinReceive"} : GoTo(c, s)
    BY <1>3 DEF CreateTaskFails, CreateLock, CreateDone, Joining, JoinAdd, JoinWait,
                JoinReceive, SuspendTask, ResumeTask, Stray
  <2>4. call'[c].at \notin Frees \cup {"stop"} /\ \A d \in Threads \ {c} : call'[d] = call[d]
    <3>1. CASE Return(c)
      BY <3>1 DEF Return, NoCall, TypeOK
    <3>2. ASSUME NEW s \in {"initDestroy", "joinWait", "joinReceive"}, GoTo(c, s)
          PROVE  call'[c].at = s /\ \A d \in Threads \ {c} : call'[d] = call[d]
      <4>1. s \in Step
        BY DEF Step
      <4> QED
        BY <3>2, <4>1, GoToStep
    <3>3. CASE call' = call
      BY <2>2, <3>3
    <3> QED
      BY <2>3, <3>1, <3>2, <3>3
  <2> QED
    BY <1>2, <2>1, <2>2, <2>4
<1>4. ASSUME NEW c \in Threads, StopTask(c)
      PROVE  NoStopping'
  BY <1>4 DEF StopTask, In, NoStopping
<1>5. ASSUME NEW c \in Threads, CreateTask(c)
      PROVE  NoStopping'
  <2>1. \A t \in Threads : task'[t] = task[t] \/ (task[t] = "none" /\ task'[t] \in {"entry", "entrySuspended"})
    BY <1>5 DEF CreateTask, In, ListedOK, TypeOK
  <2>2. call[c].at = "taskCreate" /\ call'[c].at = "initLock" /\ \A d \in Threads \ {c} : call'[d] = call[d]
    BY <1>5, GoToStep DEF CreateTask, In, Step
  <2>3. UNCHANGED <<mutex, passed>>
    BY <1>5 DEF CreateTask, locks
  <2> QED
    BY <1>0, <2>1, <2>2, <2>3 DEF NoStopping
<1>6. ASSUME NEW c \in Threads,
             TaskEntry(c) \/ TaskSuspend(c) \/ TaskNotify(c) \/ TaskNotified(c) \/ TaskReturn(c)
      PROVE  NoStopping'
  <2>1. UNCHANGED <<call, mutex, passed>>
    BY <1>6 DEF TaskEntry, TaskSuspend, TaskNotify, TaskNotified,
       TaskReturn, Stray, locks
  <2>2. \A t \in Threads :
          task'[t] = task[t] \/ (task[t] # "free" /\ task'[t] \in {"run", "suspending", "notify", "clean"})
    BY <1>6 DEF TaskEntry, TaskSuspend, TaskNotify, TaskNotified,
       TaskReturn, Client, Stray, tasks, TypeOK
  <2> QED
    BY <1>0, <2>1, <2>2 DEF NoStopping
<1>7. ASSUME NEW c \in Threads, TaskClean(c)
      PROVE  NoStopping'
  <2>1. call[c].at = "none" /\ call'[c].at = "mutexes" /\ task'[c] = "free" /\ UNCHANGED <<mutex, passed>>
        /\ \A d \in Threads \ {c} : call'[d] = call[d] /\ task'[d] = task[d]
    BY <1>7 DEF TaskClean, locks, CallOK, TypeOK
  <2>2. passed[c] = {}
    BY <2>1 DEF NoStopping
  <2> QED
    BY <1>0, <2>1, <2>2 DEF NoStopping
<1>8. ASSUME NEW c \in Threads, Freeing(c)
      PROVE  NoStopping'
  <2>0. /\ call[c].at \in Frees /\ task[c] = "free" /\ call[c].t = c
        /\ table[call[c].id] = c /\ call[c].id \in Ids
    BY <1>8 DEF Freeing, FreeMutex, FreeGet, FreeJoins, FreeGate, FreeRemove, In, NoStopping,
                StopOK, TypeOK, Call
  <2>1. CASE \E m \in Mutexes : FreeMutex(c, m)
    <3>1. PICK m \in Mutexes : FreeMutex(c, m)
      BY <2>1
    <3>2. /\ UNCHANGED <<task, call>> /\ call[c].at = "mutexes"
          /\ \A k \in Mutexes \ {m} : mutex'[k] = mutex[k]
          /\ mutex'[m] = Given(c, m)
          /\ passed'[c] = passed[c] \cup {m}
          /\ \A d \in Threads \ {c} : passed'[d] = passed[d]
      BY <3>1 DEF FreeMutex, In, tasks, TypeOK
    <3>3. mutex'[m].holder # None => mutex'[m].holder = mutex[m].holder /\ mutex[m].holder # c
      BY <3>2 DEF Given, Idle
    <3> QED
      BY <1>0, <3>2, <3>3 DEF NoStopping
  <2>2. CASE FreeGet(c)
    <3>1. table[call[c].id] # None
      BY <2>0
    <3>2. /\ call'[c].at = "joins" /\ call[c].at = "mutexes" /\ UNCHANGED <<task, mutex>>
          /\ \A d \in Threads \ {c} : call'[d] = call[d] /\ passed'[d] = passed[d]
          /\ passed'[c] = {} /\ passed[c] = Mutexes
      BY <2>2, <3>1 DEF FreeGet, In, tasks, TypeOK, Call
    <3> QED
      BY <1>0, <2>0, <3>2 DEF NoStopping
  <2>3. CASE FreeJoins(c) \/ FreeGate(c)
    <3>1. /\ UNCHANGED <<task, mutex, passed>> /\ call[c].at \in {"joins", "gate"}
      BY <2>3 DEF FreeJoins, FreeGate, In, Stray, tasks, locks
    <3>2. call' = call \/ GoTo(c, "gate") \/ GoTo(c, "remove")
      BY <2>3 DEF FreeJoins, FreeGate, Stray
    <3>3. call'[c].at \in {"joins", "gate", "remove"} /\ \A d \in Threads \ {c} : call'[d] = call[d]
      BY <3>1, <3>2, GoToStep DEF Step
    <3> QED
      BY <1>0, <2>0, <3>1, <3>3 DEF NoStopping
  <2>4. CASE FreeRemove(c)
    <3>1. /\ call[c].at = "remove" /\ call'[c].at = "none" /\ UNCHANGED <<mutex, passed>>
          /\ \A d \in Threads \ {c} : call'[d] = call[d] /\ task'[d] = task[d]
      BY <2>0, <2>4 DEF FreeRemove, In, Return, NoCall, locks, TypeOK
    <3> QED
      BY <1>0, <2>0, <3>1 DEF NoStopping
  <2> QED
    BY <1>8, <2>1, <2>2, <2>3, <2>4 DEF Freeing
<1>9. ASSUME NEW c \in Threads, NEW t \in Threads, NEW id \in Ids, CreateAdd(c, t, id)
      PROVE  NoStopping'
  BY <1>2, <1>9 DEF CreateAdd, Client, tasks, locks, TypeOK
<1>10. ASSUME NEW c \in Threads, NEW id \in Ids, Join(c, id)
      PROVE  NoStopping'
  BY <1>2, <1>10 DEF Join, Get, Client, tasks, locks, TypeOK
<1>11. ASSUME NEW c \in Threads, NEW name \in {"stop", "suspend", "resume"}, NEW id \in Ids,
             Control(c, name, id)
      PROVE  NoStopping'
  BY <1>2, <1>11 DEF Control, Get, Client, tasks, locks, TypeOK
<1>12. ASSUME NEW c \in Threads, NEW m \in Mutexes, Lock(c, m) \/ Unlock(c, m)
       PROVE  NoStopping'
  <2>1. /\ UNCHANGED <<task, call, passed>> /\ task[c] = "run"
        /\ \A k \in Mutexes : mutex'[k].holder \in {mutex[k].holder, c, None}
    <3>1. CASE Lock(c, m)
      BY <3>1 DEF Lock, Client, tasks, TypeOK
    <3>2. CASE Unlock(c, m)
      BY <3>2 DEF Unlock, Client, tasks, Idle, TypeOK
    <3> QED
      BY <1>12, <3>1, <3>2
  <2> QED
    BY <2>1 DEF NoStopping
<1> QED
  BY <1>1, <1>3, <1>4, <1>5, <1>6, <1>7, <1>8, <1>9, <1>10, <1>11, <1>12
     DEF Next, Advance, Choose, Creating, Controlling, Ending

\* Without pthread_stop no mutex stays with a thread that is gone: _pthread_free gives
\* the ones it holds.
THEOREM HoldersLive == ASSUME "stop" \notin Calls PROVE Spec => []HolderAlive
<1>1. Init => NoStopping
  BY DEF Init, NoStopping, NoCall, Idle, Frees
<1>2. IInv /\ NoStopping /\ [Next]_vars => NoStopping'
  BY NoStoppingInv
<1>3. NoStopping => HolderAlive
  BY DEF NoStopping, HolderAlive
<1> QED
  BY Invariance, <1>1, <1>2, <1>3, PTL DEF Spec

\* With recursive mutexes only, which is what the drivers create, and without
\* pthread_stop, a thread loses a mutex only by giving it or by ending itself.
THEOREM LocksAreKept ==
  ASSUME "stop" \notin Calls, Recursive = Mutexes
  PROVE  Spec => LocksKept
<1>1. Init => NoStopping
  BY DEF Init, NoStopping, NoCall, Idle, Frees
<1>2. IInv /\ NoStopping /\ [Next]_vars => NoStopping'
  BY NoStoppingInv
<1>3. ASSUME IInv, NoStopping, Next, NEW m \in Mutexes, NEW c \in Threads,
             mutex[m].holder = c, mutex'[m].holder # c
      PROVE  Unlock(c, m) \/ task[c] = "free"
  <2>1. PICK t \in Threads : Advance(t) \/ Choose(t)
    BY <1>3 DEF Next
  <2>2. \/ \E k \in Mutexes : FreeMutex(t, k)
        \/ \E k \in Mutexes : Lock(t, k) \/ Unlock(t, k)
    BY <1>3, <2>1
       DEF Advance, Choose, Creating, Joining, Controlling, Ending, Freeing, CreateTask,
           CreateTaskFails, CreateLock, CreateDone, JoinAdd, JoinWait, JoinReceive, StopTask,
           SuspendTask, ResumeTask, TaskEntry, TaskSuspend, TaskNotify, TaskNotified, TaskClean,
           TaskReturn, FreeGet, FreeJoins, FreeGate, FreeRemove, CreateAdd, Join, Control, Stray,
           locks
  <2>3. ASSUME NEW k \in Mutexes, FreeMutex(t, k)
        PROVE  task[c] = "free"
    <3>1. k = m /\ c = t
      BY <1>3, <2>3 DEF FreeMutex, Given, IInv, TypeOK
    <3> QED
      BY <2>3, <3>1, <1>3 DEF FreeMutex, In, NoStopping, Frees
  <2>5. ASSUME NEW k \in Mutexes, Lock(t, k) \/ Unlock(t, k)
        PROVE  Unlock(c, m)
    <3>1. CASE Lock(t, k)
      BY <1>3, <3>1, ThreadAssumption DEF Lock, IInv, TypeOK
    <3>2. CASE Unlock(t, k)
      BY <1>3, <3>2 DEF Unlock, IInv, TypeOK
    <3> QED
      BY <2>5, <3>1, <3>2
  <2> QED
    BY <2>2, <2>3, <2>5
<1>4. IInv /\ NoStopping /\ [Next]_vars =>
        [\A m \in Mutexes, c \in Threads :
           mutex[m].holder = c /\ mutex'[m].holder # c =>
             Unlock(c, m) \/ task[c] = "free"]_vars
  BY <1>3
<1> QED
  BY Invariance, <1>1, <1>2, <1>4, PTL DEF Spec, LocksKept

-----------------------------------------------------------------------------
(* What CreateReturns and JoinInTimeReturns need besides a fair scheduler  *)

Creators == {"taskCreate", "initLock", "initDestroy"}

\* A thread has one creator, who waits for a gate that the new task has opened or is
\* about to open, as long as that task has not ended; nobody suspends or stops it before.
CreatorOK ==
  /\ \A c \in Threads : call[c].at \in {"initLock", "initDestroy"} => task[call[c].t] # "none"
  /\ \A c, d \in Threads :
       call[c].at \in Creators /\ call[d].at \in Creators /\ call[c].t = call[d].t => c = d
  /\ \A t \in asleep : task[t] \in Started
  /\ \A c \in Threads :
       call[c].at = "initLock" =>
         \/ gate[call[c].t] = "given"
         \/ task[call[c].t] \in {"entry", "entrySuspended"}
         \/ gate[call[c].t] = "deleted" /\ task[call[c].t] \in {"free", "deleted"}

\* How the calls of the threads change in a step of c.
LEMMA CallChange ==
  ASSUME TypeOK, NEW c \in Threads, Advance(c) \/ Choose(c)
  PROVE  \A d \in Threads : d # c => call'[d] = call[d]
<1>1. call' = call \/ \E x : call' = [call EXCEPT ![c] = x]
  <2>0. CASE Freeing(c)
    BY <2>0 DEF Freeing, FreeMutex, FreeGet, FreeJoins, FreeGate, FreeRemove, Stray, GoTo, Return,
       TypeOK
  <2>1. CASE Advance(c) /\ ~Freeing(c)
    BY <2>1 DEF Advance, Creating, Joining, Controlling, Ending, CreateTask, CreateTaskFails,
       CreateLock, CreateDone, JoinAdd, JoinWait, JoinReceive, StopTask, SuspendTask,
       ResumeTask, TaskEntry, TaskSuspend, TaskNotify, TaskNotified, TaskClean, Stray, GoTo,
       Return
  <2>2. CASE Choose(c)
    BY <2>2 DEF Choose, TaskReturn, CreateAdd, Join, Control, Lock, Unlock
  <2> QED BY <2>0, <2>1, <2>2
<1> QED BY <1>1 DEF TypeOK

\* Every step keeps the creators apart and the gates they wait for.
LEMMA CreatorInv ==
  ASSUME IInv, CreatorOK, [Next]_vars
  PROVE  CreatorOK'
<1> USE ThreadAssumption DEF IInv
<1>0. \A c \in Threads : call[c] \in Call
  BY DEF TypeOK
<1>1. CASE UNCHANGED vars
  BY <1>1 DEF vars, lists, tasks, CreatorOK
<1>2. ASSUME NEW c \in Threads, NEW t \in Threads, NEW id \in Ids, CreateAdd(c, t, id)
      PROVE  CreatorOK'
  <2>1. /\ call'[c].at = "taskCreate" /\ call'[c].t = t
        /\ \A d \in Threads \ {c} : call'[d] = call[d]
    BY <1>2 DEF CreateAdd, TypeOK
  <2>2. UNCHANGED <<task, asleep>> /\ heap' = heap \cup {t} /\ task[t] = "none" /\ t \notin heap
        /\ \A u \in Threads \ {t} : gate'[u] = gate[u]
    BY <1>2 DEF CreateAdd, tasks, TypeOK
  <2>3. \A d \in Threads : call[d].at \in Creators => call[d].t # t
    BY <2>2 DEF CreatorOK, Creators, ListedOK
  <2>4. \A d \in Threads : call'[d].at = "initLock" => call[d].t \in Threads
    BY <2>1 DEF CallOK
  <2> QED BY <2>1, <2>2, <2>3, <2>4 DEF CreatorOK, Creators
<1>3. ASSUME NEW c \in Threads, CreateTask(c)
      PROVE  CreatorOK'
  <2>1. "initLock" \in Step
    BY DEF Step
  <2>2. /\ call'[c].at = "initLock" /\ call'[c].t = call[c].t
        /\ \A d \in Threads \ {c} : call'[d] = call[d]
    BY <1>3, <2>1, GoToStep DEF CreateTask
  <2>3. call[c].t \in Threads /\ call[c].at = "taskCreate" /\ task[call[c].t] = "none"
    BY <1>3 DEF CreateTask, In, CallOK, ListedOK
  <2>4. /\ task'[call[c].t] \in {"entry", "entrySuspended"}
        /\ \A u \in Threads \ {call[c].t} : task'[u] = task[u]
        /\ UNCHANGED <<heap, asleep, gate>>
    BY <1>3, <2>3 DEF CreateTask, lists, TypeOK
  <2>5. \A d \in Threads : call[d].at \in {"initLock", "initDestroy"} => call[d].t \in Threads
    BY DEF CallOK
  <2>6. call[c].t \notin asleep
    BY <2>3 DEF CreatorOK, Started, TaskState
  <2>7. asleep \subseteq Threads
    BY DEF TypeOK
  <2> QED BY <2>2, <2>3, <2>4, <2>5, <2>6, <2>7 DEF CreatorOK, Creators
<1>4. ASSUME NEW c \in Threads, CreateLock(c)
      PROVE  CreatorOK'
  <2>1. CASE Stray
    BY <2>1 DEF Stray, lists, tasks, CreatorOK
  <2>2. CASE ~Stray
    <3>1. "initDestroy" \in Step
      BY DEF Step
    <3>2. /\ call'[c].at = "initDestroy" /\ call'[c].t = call[c].t
          /\ \A d \in Threads \ {c} : call'[d] = call[d]
      BY <1>4, <2>2, <3>1, GoToStep DEF CreateLock
    <3>3. call[c].at = "initLock" /\ UNCHANGED <<heap, task, asleep>>
          /\ \A u \in Threads \ {call[c].t} : gate'[u] = gate[u]
      BY <1>4, <2>2 DEF CreateLock, In, lists, tasks, TypeOK
    <3>4. \A d \in Threads : call[d].at = "initLock" => call[d].t \in Threads
      BY DEF CallOK
    <3> QED BY <3>2, <3>3, <3>4 DEF CreatorOK, Creators
  <2> QED BY <2>1, <2>2
<1>5. ASSUME NEW c \in Threads, CreateDone(c)
      PROVE  CreatorOK'
  <2>1. CASE Stray
    BY <2>1 DEF Stray, lists, tasks, CreatorOK
  <2>2. CASE ~Stray
    <3>1. call'[c].at = "none" /\ \A d \in Threads \ {c} : call'[d] = call[d]
      BY <1>5, <2>2 DEF CreateDone, Return, NoCall, TypeOK
    <3>3. call[c].at = "initDestroy" /\ UNCHANGED <<heap, task, asleep>>
          /\ \A u \in Threads \ {call[c].t} : gate'[u] = gate[u]
      BY <1>5, <2>2 DEF CreateDone, In, lists, tasks, TypeOK
    <3>4. \A d \in Threads : call[d].at = "initLock" => call[d].t \in Threads
      BY DEF CallOK
    <3> QED BY <3>1, <3>3, <3>4 DEF CreatorOK, Creators
  <2> QED BY <2>1, <2>2
<1>6. ASSUME NEW t \in Threads, TaskEntry(t)
      PROVE  CreatorOK'
  <2>1. CASE Stray
    BY <2>1 DEF Stray, lists, tasks, CreatorOK
  <2>2. CASE ~Stray
    <3>1. /\ gate'[t] = "given" /\ task'[t] \in Started
          /\ \A u \in Threads \ {t} : gate'[u] = gate[u] /\ task'[u] = task[u]
          /\ UNCHANGED <<heap, asleep, call>>
      BY <1>6, <2>2 DEF TaskEntry, lists, TypeOK, Started, TaskState
    <3>2. task'[t] # "none"
      BY <3>1 DEF Started
    <3>3. \A d \in Threads : call[d].at \in {"initLock", "initDestroy"} => call[d].t \in Threads
      BY DEF CallOK
    <3>4. asleep \subseteq Threads
      BY DEF TypeOK
    <3> QED BY <3>1, <3>2, <3>3, <3>4 DEF CreatorOK
  <2> QED BY <2>1, <2>2
<1>7. ASSUME NEW t \in Threads,
             TaskSuspend(t) \/ TaskNotify(t) \/ TaskNotified(t) \/ TaskClean(t) \/ TaskReturn(t)
      PROVE  CreatorOK'
  <2>1. /\ UNCHANGED gate /\ asleep' \subseteq asleep \cup {t}
        /\ task[t] \in Started \ {"free", "deleted"} /\ task'[t] \in Started
        /\ \A u \in Threads \ {t} : task'[u] = task[u]
    BY <1>7 DEF TaskSuspend, TaskNotify, TaskNotified, TaskClean, TaskReturn, Client, lists,
                tasks, TypeOK, Started, TaskState
  <2>2. task'[t] # "none" /\ task[t] \notin {"entry", "entrySuspended"}
    BY <2>1 DEF Started
  <2>3. \A d \in Threads : call[d].at \in {"initLock", "initDestroy"} => call[d].t \in Threads
    BY DEF CallOK
  <2>4. asleep \subseteq Threads
    BY DEF TypeOK
  <2>5. \A d \in Threads : call'[d].at \in Creators => call'[d] = call[d]
    <3>1. call' = call \/ \E x : x.at \notin Creators /\ call' = [call EXCEPT ![t] = x]
      BY <1>7 DEF TaskSuspend, TaskNotify, TaskNotified, TaskClean, TaskReturn, Creators
    <3> QED BY <3>1 DEF TypeOK
  <2> QED BY <2>1, <2>2, <2>3, <2>4, <2>5 DEF CreatorOK, Creators
<1>8. ASSUME NEW c \in Threads, Freeing(c)
      PROVE  CreatorOK'
  <2>1. /\ call[c].at \in Frees /\ task[c] \in {"run", "free"} /\ call[c].t \in Threads
        /\ table[call[c].id] = call[c].t /\ task[call[c].t] \in {"free", "deleted"}
        /\ task[c] = "free" => call[c].t = c
        /\ asleep' = asleep
    BY <1>8 DEF Freeing, FreeMutex, FreeGet, FreeJoins, FreeGate, FreeRemove, In, Stray, tasks,
                StopOK, CallOK, Frees
  <2>2. \A d \in Threads : call'[d].at \in Creators => call'[d] = call[d]
    <3>1. call' = call \/ \E x : x.at \notin Creators /\ call' = [call EXCEPT ![c] = x]
      <4>1. CASE FreeGet(c)
        <5>1. table[call[c].id] # None
          BY <2>1
        <5>2. call' = [call EXCEPT ![c] = [call[c] EXCEPT !.at = "joins", !.t = table[call[c].id]]]
          BY <4>1, <5>1 DEF FreeGet
        <5>3. [call[c] EXCEPT !.at = "joins", !.t = table[call[c].id]].at = "joins"
          BY <1>0 DEF Call
        <5> QED BY <5>2, <5>3 DEF Creators
      <4>2. CASE ~FreeGet(c)
        BY <1>8, <1>0, <4>2 DEF Freeing, FreeMutex, FreeJoins, FreeGate, FreeRemove, Stray, GoTo,
                       Return, NoCall, Creators, Call
      <4> QED BY <4>1, <4>2
    <3> QED BY <3>1 DEF TypeOK
  <2>3. /\ \A u \in Threads : task'[u] = task[u] \/ (u = c /\ call[c].t = c /\ task'[c] = "deleted")
        /\ \A u \in Threads : gate'[u] = gate[u] \/ (u = call[c].t /\ gate'[u] = "deleted")
    BY <1>8, <2>1 DEF Freeing, FreeMutex, FreeGet, FreeJoins, FreeGate, FreeRemove, Stray, tasks,
                      TypeOK
  <2>4. \A d \in Threads : call[d].at \in {"initLock", "initDestroy"} => call[d].t \in Threads
    BY DEF CallOK
  <2>5. "deleted" \in Started /\ asleep \subseteq Threads
    BY DEF Started, TaskState, TypeOK
  <2> QED BY <2>1, <2>2, <2>3, <2>4, <2>5 DEF CreatorOK, Creators
<1>9. ASSUME NEW c \in Threads, StopTask(c) \/ SuspendTask(c) \/ ResumeTask(c)
      PROVE  CreatorOK'
  <2>1. CASE Stray
    BY <2>1 DEF Stray, lists, tasks, CreatorOK
  <2>2. CASE ~Stray
    <3>1. TaskThere(call[c].t)
      BY <1>9, <2>2 DEF StopTask, SuspendTask, ResumeTask
    <3>2. call[c].t \in Threads /\ task[call[c].t] \in Started
      BY <3>1 DEF TaskThere, CreatedHasStarted, TypeOK
    <3>3. /\ UNCHANGED <<heap, gate>> /\ asleep' \subseteq asleep \cup {call[c].t}
          /\ task'[call[c].t] \in {task[call[c].t], "deleted"} \cap Started
          /\ \A u \in Threads \ {call[c].t} : task'[u] = task[u]
      BY <1>9, <2>2, <3>2
         DEF StopTask, SuspendTask, ResumeTask, lists, TypeOK, Started, TaskState
    <3>4. \A d \in Threads : call'[d].at \in Creators => call'[d] = call[d]
      <4>1. GoTo(c, "mutexes") \/ Return(c)
        BY <1>9, <2>2 DEF StopTask, SuspendTask, ResumeTask
      <4>2. call'[c].at \in {"mutexes", "none"} /\ \A d \in Threads \ {c} : call'[d] = call[d]
        BY <4>1 DEF GoTo, Return, NoCall, TypeOK, Call
      <4> QED BY <4>2 DEF Creators
    <3>5. \A d \in Threads : call[d].at \in {"initLock", "initDestroy"} => call[d].t \in Threads
      BY DEF CallOK
    <3>6. task'[call[c].t] # "none" /\ task[call[c].t] \notin {"entry", "entrySuspended"}
      BY <3>2, <3>3 DEF Started
    <3>7. asleep \subseteq Threads
      BY DEF TypeOK
    <3> QED BY <3>2, <3>3, <3>4, <3>5, <3>6, <3>7 DEF CreatorOK, Creators
  <2> QED BY <2>1, <2>2
<1>10. ASSUME NEW c \in Threads,
              \/ CreateTaskFails(c) \/ Joining(c)
              \/ \E id \in Ids : \/ Join(c, id)
                                 \/ \E name \in {"stop", "suspend", "resume"} : Control(c, name, id)
              \/ \E m \in Mutexes : Lock(c, m) \/ Unlock(c, m)
       PROVE  CreatorOK'
  <2>1. UNCHANGED <<heap, task, asleep, gate>>
    BY <1>10 DEF CreateTaskFails, Joining, JoinAdd, JoinWait, JoinReceive, Join, Control, Lock,
                 Unlock, Stray, lists, tasks
  <2>2. \A d \in Threads : call'[d].at \in Creators => call'[d] = call[d]
    <3>1. call' = call \/ \E x : x.at \notin Creators /\ call' = [call EXCEPT ![c] = x]
      BY <1>10, <1>0 DEF CreateTaskFails, Joining, JoinAdd, JoinWait, JoinReceive, Join, Control,
                   Lock, Unlock, Stray, GoTo, Return, NoCall, Creators, Call
    <3> QED BY <3>1 DEF TypeOK
  <2> QED BY <2>1, <2>2 DEF CreatorOK, Creators
<1>12. ASSUME NEW c \in Threads, Advance(c)
       PROVE  CreatorOK'
  BY <1>3, <1>4, <1>5, <1>6, <1>7, <1>8, <1>9, <1>10, <1>12
     DEF Advance, Creating, Controlling, Ending
<1>13. ASSUME NEW c \in Threads, Choose(c)
       PROVE  CreatorOK'
  BY <1>2, <1>7, <1>10, <1>13 DEF Choose
<1> QED BY <1>1, <1>12, <1>13 DEF Next

\* A creator in the handshake is kept waiting only by the new task, which is there, awake,
\* and about to open the gate: whatever other threads create, join, stop, suspend or
\* resume, nobody can come between the two.
THEOREM NobodyKeepsCreators ==
  Spec => [](\A c \in Threads :
               call[c].at = "initLock" /\ gate[call[c].t] = "taken" =>
                 task[call[c].t] \in {"entry", "entrySuspended"} /\ Ready(call[c].t))
<1>1. Init => CreatorOK
  BY DEF Init, CreatorOK, NoCall, Creators
<1>2. IInv /\ CreatorOK =>
        \A c \in Threads :
          call[c].at = "initLock" /\ gate[call[c].t] = "taken" =>
            task[call[c].t] \in {"entry", "entrySuspended"} /\ Ready(call[c].t)
  BY DEF IInv, CreatorOK, Ready, Started
<1> QED
  BY Invariance, CreatorInv, <1>1, <1>2, PTL DEF Spec

\* What a step may misuse: the structure of a thread whose task could not be created, a
\* task field not stored yet, or the structure of another thread that is in _pthread_free,
\* is gone or was stopped.  The start of a thread, its own end and a creator whose child
\* has not ended find what they use, however threads join and control each other.
THEOREM MisuseIsAtEnds == Spec => StraysOnlyAtEnds
<1>1. Init => CreatorOK
  BY DEF Init, CreatorOK, NoCall, Creators
<1>2. ASSUME IInv, CreatorOK, Next, NEW c \in Threads, Stray, Advance(c)
      PROVE  Excused(c)
  <2> USE <1>2, ThreadAssumption DEF IInv
  <2>0. strayed' # strayed
    BY DEF Next, Stray, TypeOK
  <2>1. CASE Creating(c)
    <3>1. call[c].t \in Threads /\ call[c].at \in Creators
      BY <2>0, <2>1 DEF Creating, CreateTask, CreateTaskFails, CreateLock, CreateDone, In, CallOK,
                        Creators
    <3>2. CASE CreateTaskFails(c)
      BY <3>2 DEF CreateTaskFails, In, Excused
    <3>3. CASE CreateLock(c)
      <4>1. call[c].at = "initLock" /\ (call[c].t \notin heap \/ gate[call[c].t] = "deleted")
        BY <2>0, <3>3 DEF CreateLock, In
      <4>2. task[call[c].t] \in {"free", "deleted"}
        BY <3>1, <4>1 DEF CreatorOK, GateOK, ListedOK, CallOK
      <4>3. call[c].t # c
        BY <3>3, <4>1, <4>2 DEF CreateLock, In, StopOK, Ready, Frees
      <4> QED BY <3>1, <4>2, <4>3 DEF Excused
    <3>4. CASE CreateDone(c)
      <4>1. call[c].at = "initDestroy" /\ call[c].t \notin heap /\ task[c] # "deleted"
        BY <2>0, <3>4 DEF CreateDone, In
      <4>2. task[call[c].t] = "deleted"
        BY <3>1, <4>1 DEF CallOK
      <4> QED BY <3>1, <4>1, <4>2 DEF Excused
    <3> QED BY <2>0, <2>1, <3>2, <3>3, <3>4 DEF Creating, CreateTask
  <2>2. CASE Joining(c)
    <3>1. /\ call[c].at \in {"joinAdd", "joinWait"} /\ call[c].t \notin joinable
          /\ call[c].t \in Threads /\ task[c] # "deleted"
      BY <2>0, <2>2 DEF Joining, JoinAdd, JoinWait, JoinReceive, In, CallOK
    <3>2. task[call[c].t] \in {"free", "deleted"}
      BY <3>1 DEF CallOK, JoinableOK
    <3>3. call[c].t # c
      BY <3>1, <3>2 DEF StopOK, Frees
    <3> QED BY <3>1, <3>2, <3>3 DEF Excused
  <2>3. CASE Controlling(c)
    <3>1. /\ call[c].at \in {"stop", "suspend", "resume"} /\ call[c].t \in Threads
          /\ ~TaskThere(call[c].t) /\ task[c] # "deleted"
      BY <2>0, <2>3 DEF Controlling, StopTask, SuspendTask, ResumeTask, In, CallOK
    <3>2. call[c].t \notin known \/ task[call[c].t] = "deleted"
      BY <3>1 DEF TaskThere, CallOK
    <3> QED BY <3>1, <3>2 DEF Excused
  <2>4. CASE TaskEntry(c)
    BY <2>0, <2>4 DEF TaskEntry, ListedOK, GateOK
  <2>5. CASE TaskSuspend(c) \/ Ending(c)
    BY <2>0, <2>5 DEF TaskSuspend, Ending, TaskNotify, TaskNotified, TaskClean
  <2>6. CASE Freeing(c)
    <3>1. call[c].at \in {"joins", "gate"} /\ In(c, call[c].at)
      BY <2>0, <2>6 DEF Freeing, FreeMutex, FreeGet, FreeJoins, FreeGate, FreeRemove, In
    <3>2. call[c].t \in Threads /\ task[call[c].t] \in {"free", "deleted"}
      BY <3>1 DEF CallOK, In, StopOK, Frees
    <3>3. call[c].t # c
      <4> SUFFICES ASSUME call[c].t = c PROVE FALSE
        OBVIOUS
      <4>1. task[c] = "free" /\ c \in heap
        BY <3>1, <3>2 DEF In, ListedOK
      <4>2. CASE FreeJoins(c)
        BY <2>0, <4>1, <4>2 DEF FreeJoins, In, JoinableOK
      <4>3. CASE FreeGate(c)
        BY <2>0, <4>1, <4>3 DEF FreeGate
      <4> QED BY <2>0, <2>6, <4>2, <4>3 DEF Freeing, FreeMutex, FreeGet, FreeRemove
    <3> QED BY <3>2, <3>3 DEF Excused
  <2> QED BY <1>2, <2>1, <2>2, <2>3, <2>4, <2>5, <2>6 DEF Advance
<1>3. IInv /\ CreatorOK /\ [Next]_vars =>
        [\A c \in Threads : Stray /\ Advance(c) => Excused(c)]_vars
  BY <1>2
<1> QED
  BY Invariance, CreatorInv, <1>1, <1>3, PTL DEF Spec, StraysOnlyAtEnds

\* Who is on the list in time stays there until it has the message, or somebody stops
\* the thread it waits for; and a message stays until its joiner takes it.
JoinersStay ==
  \A c \in Threads :
    /\ InTime(c) => InTime(c)' \/ c \in told' \/ task'[call[c].t] = "deleted"
    /\ c \in told => c \in told' \/ JoinReceive(c)

\* The list of a thread that tells its joiners of its end only grows.
LEMMA ListKept ==
  ASSUME IInv, Next, NEW t \in Threads, task[t] = "notify"
  PROVE  \/ joins'[t] = joins[t]
         \/ \E c \in Threads : joins'[t] = Append(joins[t], c)
<1> USE ThreadAssumption DEF IInv
<1>1. PICK c \in Threads : Advance(c) \/ Choose(c)
  BY DEF Next
<1>2. CASE JoinAdd(c)
  BY <1>2 DEF JoinAdd, Stray, lists, TypeOK
<1>3. CASE FreeJoins(c)
  <2>1. CASE strayed' = strayed
    <3>1. In(c, "joins") /\ joins' = [joins EXCEPT ![call[c].t] = <<>>]
      BY <1>3, <2>1 DEF FreeJoins, Stray, Next, TypeOK
    <3>2. call[c].t # t
      BY <3>1 DEF In, StopOK, Frees
    <3> QED BY <3>1, <3>2 DEF TypeOK
  <2>2. CASE strayed' # strayed
    BY <1>3, <2>2 DEF FreeJoins, Stray, lists
  <2> QED BY <2>1, <2>2
<1>5. CASE ~(JoinAdd(c) \/ FreeJoins(c))
  <2>1. joins' = joins
    BY <1>1, <1>5
       DEF Advance, Choose, Creating, Joining, Controlling, Ending, Freeing, CreateTask,
           CreateTaskFails, CreateLock, CreateDone, JoinWait, JoinReceive, StopTask, SuspendTask,
           ResumeTask, TaskEntry, TaskSuspend, TaskNotify, TaskNotified, TaskClean, TaskReturn,
           FreeMutex, FreeGet, FreeGate, FreeRemove, CreateAdd, Join, Control, Lock, Unlock,
           Stray, lists
  <2> QED BY <2>1
<1> QED BY <1>2, <1>3, <1>5

\* A thread that tells its joiners goes on only behind the last of them.
LEMMA WalkKept ==
  ASSUME IInv, Next, NEW t \in Threads, task[t] = "notify"
  PROVE  /\ task'[t] \in {"notify", "deleted"} \/ walk[t] > Len(joins[t])
         /\ \/ walk'[t] = walk[t]
            \/ (walk'[t] = walk[t] + 1 /\ joins[t][walk[t]] \in told')
<1> USE ThreadAssumption DEF IInv
<1>1. PICK c \in Threads : Advance(c) \/ Choose(c)
  BY DEF Next
<1>2. task'[t] \in {"notify", "deleted"} \/ walk[t] > Len(joins[t])
  <2>1. CASE CreateTask(c)
    <3>1. call[c].t # t
      BY <2>1 DEF CreateTask, In, ListedOK
    <3> QED BY <2>1, <3>1 DEF CreateTask, TypeOK
  <2>2. CASE StopTask(c)
    BY <2>2 DEF StopTask, Stray, tasks, TypeOK
  <2>3. CASE TaskNotified(c)
    BY <2>3 DEF TaskNotified, TypeOK
  <2>4. CASE TaskEntry(c) \/ TaskSuspend(c) \/ TaskClean(c) \/ FreeRemove(c) \/ TaskReturn(c)
    BY <2>4 DEF TaskEntry, TaskSuspend, TaskClean, FreeRemove, TaskReturn, Client, Stray, tasks,
                TypeOK
  <2>5. CASE ~(\/ CreateTask(c) \/ StopTask(c) \/ TaskNotified(c) \/ TaskEntry(c)
               \/ TaskSuspend(c) \/ TaskClean(c) \/ FreeRemove(c) \/ TaskReturn(c))
    <3>1. task' = task
      BY <1>1, <2>5
         DEF Advance, Choose, Creating, Joining, Controlling, Ending, Freeing,
             CreateTaskFails, CreateLock, CreateDone, JoinAdd, JoinWait, JoinReceive, SuspendTask,
             ResumeTask, TaskNotify, FreeMutex, FreeGet, FreeJoins, FreeGate, CreateAdd, Join,
             Control, Lock, Unlock, Stray, tasks
    <3> QED BY <3>1
  <2> QED BY <2>1, <2>2, <2>3, <2>4, <2>5
<1>3. \/ walk'[t] = walk[t]
      \/ walk'[t] = walk[t] + 1 /\ joins[t][walk[t]] \in told'
  <2>1. CASE TaskNotify(c) \/ TaskReturn(c)
    BY <2>1 DEF TaskNotify, TaskReturn, Client, TypeOK
  <2>2. CASE ~(TaskNotify(c) \/ TaskReturn(c))
    <3>1. walk' = walk
      BY <1>1, <2>2
         DEF Advance, Choose, Creating, Joining, Controlling, Ending, Freeing, CreateTask,
             CreateTaskFails, CreateLock, CreateDone, JoinAdd, JoinWait, JoinReceive, StopTask,
             SuspendTask, ResumeTask, TaskEntry, TaskSuspend, TaskNotified, TaskClean, FreeMutex,
             FreeGet, FreeJoins, FreeGate, FreeRemove, CreateAdd, Join, Control, Lock, Unlock, Stray
    <3> QED BY <3>1
  <2> QED BY <2>1, <2>2
<1> QED BY <1>2, <1>3

\* Only the joiner takes its message, and it stays in its call until it has one.
LEMMA MessageKept ==
  ASSUME IInv, Next, NEW c \in Threads, ~JoinReceive(c)
  PROVE  /\ c \in told => c \in told'
         /\ call[c].at = "joinReceive" => call'[c] = call[c]
<1>1. PICK u \in Threads : Advance(u) \/ Choose(u)
  BY DEF Next
<1>2. CASE JoinReceive(u)
  BY <1>2 DEF JoinReceive, Return, IInv, TypeOK
<1>3. CASE ~JoinReceive(u)
  <2>1. told \subseteq told'
    BY <1>1, <1>3
       DEF Advance, Choose, Creating, Joining, Controlling, Ending, Freeing, CreateTask,
           CreateTaskFails, CreateLock, CreateDone, JoinAdd, JoinWait, StopTask, SuspendTask,
           ResumeTask, TaskEntry, TaskSuspend, TaskNotify, TaskNotified, TaskClean, FreeMutex,
           FreeGet, FreeJoins, FreeGate, FreeRemove, TaskReturn, CreateAdd, Join, Control, Lock, Unlock, Stray
  <2>2. CASE u # c
    BY <1>1, <2>1, <2>2, CallChange DEF IInv
  <2>3. ASSUME u = c, call[c].at = "joinReceive"  PROVE call' = call
    BY <1>1, <1>3, <2>3
       DEF IInv, CallOK, Advance, Choose, Creating, Joining, Controlling, Ending, Freeing, CreateTask,
           CreateTaskFails, CreateLock, CreateDone, JoinAdd, JoinWait, StopTask, In, Client, Get,
           SuspendTask, ResumeTask, TaskEntry, TaskSuspend, TaskNotify, TaskNotified, TaskClean,
           FreeMutex, FreeGet, FreeJoins, FreeGate, FreeRemove, TaskReturn, CreateAdd, Join, Control, Lock, Unlock, Stray
  <2> QED BY <2>1, <2>2, <2>3
<1> QED BY <1>2, <1>3

\* A join made in time is never lost, whoever else joins, ends or is freed meanwhile: its
\* entry stays on the list until the walk has passed it and left a message, and no one but
\* the joiner takes that.
THEOREM JoinersAreTold == Spec => [][JoinersStay]_vars
<1>1. ASSUME IInv, Next, NEW c \in Threads, InTime(c)
      PROVE  InTime(c)' \/ c \in told' \/ task'[call[c].t] = "deleted"
  <2> USE DEF IInv
  <2> DEFINE t == call[c].t
  <2>1. PICK i \in walk[t] .. Len(joins[t]) : joins[t][i] = c
    BY <1>1 DEF InTime
  <2>2. t \in Threads /\ task[t] = "notify" /\ call[c].at = "joinReceive"
    BY <1>1 DEF InTime, CallOK
  <2>3. walk[t] \in Nat /\ walk[t] >= 1 /\ joins[t] \in Seq(Threads)
    BY <1>1, <2>2 DEF WalkOK, TypeOK
  <2>4. Len(joins[t]) \in Nat /\ DOMAIN joins[t] = 1 .. Len(joins[t])
    BY <2>3, LenProperties
  <2>5. i \in DOMAIN joins[t] /\ i >= walk[t]
    BY <2>1, <2>3, <2>4
  <2>6. c \notin told
    BY <1>1, <2>1, <2>2, <2>5 DEF JoinsOK, Pending
  <2>7. ~JoinReceive(c)
    BY <2>6 DEF JoinReceive
  <2>8. call'[c] = call[c]
    BY <1>1, <2>2, <2>7, MessageKept
  <2>9. task'[t] \in {"notify", "deleted"}
    BY <1>1, <2>2, <2>3, <2>4, <2>5, WalkKept
  <2>10. walk'[t] = walk[t] \/ (walk'[t] = walk[t] + 1 /\ joins[t][walk[t]] \in told')
    BY <1>1, <2>2, WalkKept
  <2>11. c \in told' \/ i >= walk'[t]
    <3>1. CASE i = walk[t]
      BY <2>1, <2>10, <3>1
    <3>2. CASE i # walk[t]
      BY <2>3, <2>4, <2>5, <2>10, <3>2
    <3> QED BY <3>1, <3>2
  <2>12. Len(joins'[t]) \in Nat /\ i \in 1 .. Len(joins'[t]) /\ joins'[t][i] = c
    <3>1. CASE joins'[t] = joins[t]
      BY <2>1, <2>4, <2>5, <3>1
    <3>2. ASSUME NEW d \in Threads, joins'[t] = Append(joins[t], d)
          PROVE  Len(joins'[t]) \in Nat /\ i \in 1 .. Len(joins'[t]) /\ joins'[t][i] = c
      BY <2>1, <2>3, <2>4, <2>5, <3>2, AppendProperties
    <3> QED BY <1>1, <2>2, <3>1, <3>2, ListKept
  <2>13. walk'[t] \in Nat
    BY <2>3, <2>10
  <2>14. i >= walk'[t] /\ task'[t] = "notify" => InTime(c)'
    <3> HAVE i >= walk'[t] /\ task'[t] = "notify"
    <3>1. i \in walk'[t] .. Len(joins'[t])
      BY <2>12, <2>13
    <3> QED BY <2>2, <2>8, <2>12, <3>1 DEF InTime
  <2> QED BY <2>9, <2>11, <2>14
<1>2. IInv /\ [Next]_vars => [JoinersStay]_vars
  <2> SUFFICES ASSUME IInv, Next, NEW c \in Threads
               PROVE  /\ InTime(c) => InTime(c)' \/ c \in told' \/ task'[call[c].t] = "deleted"
                      /\ c \in told => c \in told' \/ JoinReceive(c)
    BY DEF JoinersStay
  <2> QED BY <1>1, MessageKept
<1> QED
  BY Invariance, <1>2, PTL DEF Spec

=============================================================================

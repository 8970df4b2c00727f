--------------------------- MODULE FileDescProofs ---------------------------
(***************************************************************************)
(* Invariants of FileDesc for any number of threads, files and descriptors, *)
(* and any files of the console.                                            *)
(***************************************************************************)
EXTENDS FileDesc, FiniteSetTheorems, TLAPS

LEMMA StdFacts ==
  /\ Std \subseteq FDs /\ 0 \in Std /\ ConsoleFiles \subseteq Files
  /\ IsFiniteSet(Std) /\ Cardinality(Std) \in Nat
  /\ Cardinality(Std) - 1 \in Std
  /\ IsFiniteSet(ConsoleFiles) /\ Cardinality(ConsoleFiles) = Cardinality(Std)
<1>. PICK n \in 1 .. NDFILE : Console \in [0 .. n - 1 -> Files]  BY FileDescAssumption
<1>1. Std = 0 .. n - 1 /\ n \in Nat /\ NDFILE \in Nat /\ n <= NDFILE /\ n >= 1
  BY FileDescAssumption DEF Std
<1>2. Std \subseteq FDs /\ 0 \in Std  BY <1>1 DEF FDs
<1>3. ConsoleFiles \subseteq Files  BY DEF ConsoleFiles, Std
<1>4. IsFiniteSet(Std) /\ Cardinality(Std) = n
  <2>1. 0 .. n - 1 = IF 0 <= n - 1 THEN 0 .. n - 1 ELSE {}  BY <1>1
  <2>2. Cardinality(0 .. n - 1) = n /\ IsFiniteSet(0 .. n - 1)
    BY <1>1, FS_Interval
  <2>. QED  BY <2>2, <1>1
<1>5. ExistsBijection(Std, ConsoleFiles)
  <2>1. Console \in Bijection(Std, ConsoleFiles)
    BY FileDescAssumption DEF Bijection, Injection, Surjection, IsInjective, ConsoleFiles, Std
  <2>. QED  BY <2>1 DEF ExistsBijection
<1>6. IsFiniteSet(ConsoleFiles) /\ Cardinality(ConsoleFiles) = Cardinality(Std)
  BY <1>4, <1>5, FS_Bijection
<1>. QED  BY <1>1, <1>2, <1>3, <1>4, <1>6

----------------------------------------------------------------------------
(* The count of open files.                                                 *)

Counting == {t \in Threads : call[t].at \in {"room", "fault", "uncount"}}

\* A file that is off the list stays allocated until the one call that took it off frees it.
UnlinkedOK ==
  /\ filehead \subseteq live
  /\ \A t \in Threads :
       call[t].at \in {"uncount", "free"} => call[t].fp \in live \ filehead
  /\ \A t, u \in Threads :
       /\ call[t].at \in {"uncount", "free"} /\ call[u].at \in {"uncount", "free"}
       /\ call[t].fp = call[u].fp
       => t = u

CountOK ==
  /\ IsFiniteSet(filehead) /\ IsFiniteSet(Counting)
  /\ nfiles = Cardinality(filehead) + Cardinality(Counting)

Counted == TypeOK /\ UnlinkedOK /\ CountOK

LEMMA InitCounted == Init => Counted
<1>. SUFFICES ASSUME Init PROVE Counted  OBVIOUS
<1>1. TypeOK
  <2>1. call \in [Threads -> Calls]
    BY StdFacts DEF Init, Idle, Calls, Points
  <2>2. fd_ofiles \in [FDs -> Files \cup {NULL}]
    BY FileDescAssumption DEF Init, ConsoleFiles, Std
  <2>. QED  BY <2>1, <2>2, StdFacts DEF Init, TypeOK
<1>2. UnlinkedOK  BY DEF Init, UnlinkedOK, Idle
<1>3. CountOK
  <2>1. Counting = {}  BY DEF Init, Counting, Idle
  <2>. QED  BY <2>1, StdFacts, FS_EmptySet DEF Init, CountOK
<1>. QED  BY <1>1, <1>2, <1>3 DEF Counted

----------------------------------------------------------------------------
(* What each action does to the calls and to the table.                     *)

CallSet(t, p, i, f, o, h) ==
  /\ call' \in [Threads -> Calls]
  /\ call'[t].at = p /\ call'[t].fd = i /\ call'[t].fp = f
  /\ call'[t].old = o /\ call'[t].then = h
  /\ \A u \in Threads : u # t => call'[u] = call[u]

LEMMA BecomeFacts ==
  ASSUME TypeOK, NEW t \in Threads, NEW c \in Calls, Become(t, c)
  PROVE  CallSet(t, c.at, c.fd, c.fp, c.old, c.then)
BY DEF Become, TypeOK, CallSet

LEMMA ReturnFacts ==
  ASSUME TypeOK, NEW t \in Threads, Return(t)
  PROVE  CallSet(t, "idle", 0, NULL, 0, "idle")
<1>1. Idle \in Calls  BY StdFacts DEF Idle, Calls, Points
<1>. QED  BY <1>1, BecomeFacts DEF Return, Idle

LEMMA CallFields ==
  ASSUME TypeOK, NEW t \in Threads
  PROVE  /\ call[t] \in Calls /\ call[t].at \in Points /\ call[t].fd \in FDs
         /\ call[t].fp \in Files \cup {NULL} /\ call[t].old \in FDs
         /\ call[t].then \in {"idle", "clear", "finish"}
BY DEF TypeOK, Calls

LEMMA GotoFacts ==
  ASSUME TypeOK, NEW t \in Threads, NEW p \in Points, Goto(t, p)
  PROVE  CallSet(t, p, call[t].fd, call[t].fp, call[t].old, call[t].then)
<1>. DEFINE c == [call[t] EXCEPT !.at = p]
<1>1. c \in Calls  BY CallFields DEF Calls
<1>2. c.at = p /\ c.fd = call[t].fd /\ c.fp = call[t].fp /\ c.old = call[t].old
      /\ c.then = call[t].then
  BY CallFields DEF Calls
<1>3. CallSet(t, c.at, c.fd, c.fp, c.old, c.then)
  <2>. HIDE DEF c
  <2>. QED  BY <1>1, BecomeFacts DEF Goto, c
<1>. QED  BY <1>2, <1>3 DEF CallSet

\* The other forms in which a call changes.
LEMMA FormFacts ==
  ASSUME TypeOK, NEW t \in Threads, NEW p \in Points, NEW i \in FDs, NEW o \in FDs,
         NEW f \in Files \cup {NULL}, NEW h \in {"idle", "clear", "finish"}
  PROVE  /\ Become(t, [call[t] EXCEPT !.at = p, !.fd = i])
              => CallSet(t, p, i, call[t].fp, call[t].old, call[t].then)
         /\ Become(t, [call[t] EXCEPT !.at = p, !.fp = f])
              => CallSet(t, p, call[t].fd, f, call[t].old, call[t].then)
         /\ Become(t, [call[t] EXCEPT !.at = p, !.then = h])
              => CallSet(t, p, call[t].fd, call[t].fp, call[t].old, h)
         /\ Become(t, [call[t] EXCEPT !.at = p, !.fd = i, !.fp = f, !.then = h])
              => CallSet(t, p, i, f, call[t].old, h)
         /\ Become(t, [call[t] EXCEPT !.at = p, !.old = o])
              => CallSet(t, p, call[t].fd, call[t].fp, o, call[t].then)
         /\ Become(t, [call[t] EXCEPT !.at = p, !.old = o, !.fd = i])
              => CallSet(t, p, i, call[t].fp, o, call[t].then)
         /\ Become(t, [call[t] EXCEPT !.at = p, !.fp = f, !.then = h])
              => CallSet(t, p, call[t].fd, f, call[t].old, h)
<1>0. call[t] \in Calls  BY CallFields
<1>1. ASSUME NEW c \in Calls, Become(t, c)
      PROVE  CallSet(t, c.at, c.fd, c.fp, c.old, c.then)
  BY <1>1, BecomeFacts
<1>2. /\ [call[t] EXCEPT !.at = p, !.fd = i] \in Calls
      /\ [call[t] EXCEPT !.at = p, !.fp = f] \in Calls
      /\ [call[t] EXCEPT !.at = p, !.then = h] \in Calls
      /\ [call[t] EXCEPT !.at = p, !.fd = i, !.fp = f, !.then = h] \in Calls
      /\ [call[t] EXCEPT !.at = p, !.old = o] \in Calls
      /\ [call[t] EXCEPT !.at = p, !.old = o, !.fd = i] \in Calls
      /\ [call[t] EXCEPT !.at = p, !.fp = f, !.then = h] \in Calls
  BY <1>0 DEF Calls
<1>a. Become(t, [call[t] EXCEPT !.at = p, !.fd = i])
        => CallSet(t, p, i, call[t].fp, call[t].old, call[t].then)
  <2>. DEFINE c == [call[t] EXCEPT !.at = p, !.fd = i]
  <2>1. c.at = p /\ c.fd = i /\ c.fp = call[t].fp /\ c.old = call[t].old /\ c.then = call[t].then
    BY <1>0 DEF Calls
  <2>. QED  BY <1>1, <1>2, <2>1
<1>b. Become(t, [call[t] EXCEPT !.at = p, !.fp = f])
        => CallSet(t, p, call[t].fd, f, call[t].old, call[t].then)
  <2>. DEFINE c == [call[t] EXCEPT !.at = p, !.fp = f]
  <2>1. c.at = p /\ c.fd = call[t].fd /\ c.fp = f /\ c.old = call[t].old /\ c.then = call[t].then
    BY <1>0 DEF Calls
  <2>. QED  BY <1>1, <1>2, <2>1
<1>c. Become(t, [call[t] EXCEPT !.at = p, !.then = h])
        => CallSet(t, p, call[t].fd, call[t].fp, call[t].old, h)
  <2>. DEFINE c == [call[t] EXCEPT !.at = p, !.then = h]
  <2>1. c.at = p /\ c.fd = call[t].fd /\ c.fp = call[t].fp /\ c.old = call[t].old /\ c.then = h
    BY <1>0 DEF Calls
  <2>. QED  BY <1>1, <1>2, <2>1
<1>d. Become(t, [call[t] EXCEPT !.at = p, !.fd = i, !.fp = f, !.then = h])
        => CallSet(t, p, i, f, call[t].old, h)
  <2>. DEFINE c == [call[t] EXCEPT !.at = p, !.fd = i, !.fp = f, !.then = h]
  <2>1. c.at = p /\ c.fd = i /\ c.fp = f /\ c.old = call[t].old /\ c.then = h
    BY <1>0 DEF Calls
  <2>. QED  BY <1>1, <1>2, <2>1
<1>e. Become(t, [call[t] EXCEPT !.at = p, !.old = o])
        => CallSet(t, p, call[t].fd, call[t].fp, o, call[t].then)
  <2>. DEFINE c == [call[t] EXCEPT !.at = p, !.old = o]
  <2>1. c.at = p /\ c.fd = call[t].fd /\ c.fp = call[t].fp /\ c.old = o /\ c.then = call[t].then
    BY <1>0 DEF Calls
  <2>. QED  BY <1>1, <1>2, <2>1
<1>f. Become(t, [call[t] EXCEPT !.at = p, !.old = o, !.fd = i])
        => CallSet(t, p, i, call[t].fp, o, call[t].then)
  <2>. DEFINE c == [call[t] EXCEPT !.at = p, !.old = o, !.fd = i]
  <2>1. c.at = p /\ c.fd = i /\ c.fp = call[t].fp /\ c.old = o /\ c.then = call[t].then
    BY <1>0 DEF Calls
  <2>. QED  BY <1>1, <1>2, <2>1
<1>g. Become(t, [call[t] EXCEPT !.at = p, !.fp = f, !.then = h])
        => CallSet(t, p, call[t].fd, f, call[t].old, h)
  <2>. DEFINE c == [call[t] EXCEPT !.at = p, !.fp = f, !.then = h]
  <2>1. c.at = p /\ c.fd = call[t].fd /\ c.fp = f /\ c.old = call[t].old /\ c.then = h
    BY <1>0 DEF Calls
  <2>. QED  BY <1>1, <1>2, <2>1
<1>. QED  BY <1>a, <1>b, <1>c, <1>d, <1>e, <1>f, <1>g

LEMMA FdAllocFacts ==
  ASSUME TypeOK, NEW t \in Threads, NEW want \in FDs, NEW next \in {"slot", "finish"},
         FdAlloc(t, want, next)
  PROVE  /\ UNCHANGED <<fd_mtx, fd_ofiles, nfiles, filehead, live, mine, broken, clash, dropped>>
         /\ fd_freefile' \in FDs
         /\ \A j \in FDs : j < fd_freefile' /\ Free(j) => j < fd_freefile
         /\ \/ CallSet(t, "idle", 0, NULL, 0, "idle")
            \/ \E i \in FDs : /\ CallSet(t, next, i, call[t].fp, call[t].old, call[t].then)
                              /\ Free(i)
<1>1. CASE /\ \E i \in FDs :
                /\ FirstFree(want, i)
                /\ fd_freefile' = IF want <= fd_freefile THEN i ELSE fd_freefile
                /\ Become(t, [call[t] EXCEPT !.at = next, !.fd = i])
           /\ UNCHANGED <<fd_mtx, fd_ofiles, nfiles, filehead, live, mine, history>>
  <2>. PICK i \in FDs :
              /\ FirstFree(want, i)
              /\ fd_freefile' = IF want <= fd_freefile THEN i ELSE fd_freefile
              /\ Become(t, [call[t] EXCEPT !.at = next, !.fd = i])
    BY <1>1
  <2>1. CallSet(t, next, i, call[t].fp, call[t].old, call[t].then)
    <3>1. next \in Points  BY DEF Points
    <3>. QED  BY <3>1, CallFields, FormFacts
  <2>2. fd_freefile \in FDs /\ FDs \subseteq Nat  BY DEF TypeOK, FDs
  <2>3. fd_freefile' \in FDs  BY <2>2
  <2>4. ASSUME NEW j \in FDs, j < fd_freefile', Free(j)  PROVE j < fd_freefile
    <3>1. SUFFICES ASSUME want <= fd_freefile, ~ (j < fd_freefile)  PROVE FALSE
      BY <2>4, <2>2
    <3>2. j >= want /\ j >= fd_freefile /\ j < i  BY <3>1, <2>2, <2>4
    <3>3. j \in Candidates(want)  BY <3>2, <2>4 DEF Candidates
    <3>4. i <= j  BY <3>3 DEF FirstFree
    <3>. QED  BY <3>2, <3>4, <2>2
  <2>5. Free(i)  BY DEF FirstFree, Candidates
  <2>. QED  BY <1>1, <2>1, <2>3, <2>4, <2>5 DEF history
<1>2. CASE Return(t) /\ UNCHANGED <<fd_mtx, table, mine, history>>
  BY <1>2, ReturnFacts DEF TypeOK, table, history
<1>. QED  BY <1>1, <1>2 DEF FdAlloc

LEMMA PointFacts ==
  /\ "idle" \in Points /\ "io" \in Points /\ "slot" \in Points /\ "counted" \in Points
  /\ "room" \in Points /\ "opening" \in Points /\ "close" \in Points /\ "unlink" \in Points
  /\ "uncount" \in Points /\ "free" \in Points /\ "clear" \in Points /\ "alloc" \in Points
  /\ "fault" \in Points /\ "dup2" \in Points /\ "reread" \in Points /\ "finish" \in Points
BY DEF Points

(* The calls after each action of a thread.                                 *)
LEMMA StartCalls ==
  ASSUME TypeOK, NEW t \in Threads
  PROVE  /\ \A i \in FDs : Become(t, [call[t] EXCEPT !.at = "close", !.fd = i,
                                         !.fp = fd_ofiles[i], !.then = "idle"])
              => CallSet(t, "close", i, fd_ofiles[i], call[t].old, "idle")
         /\ Look(t) => \E i \in Held(t) \cup Std :
              ~Free(i) /\ CallSet(t, "io", call[t].fd, fd_ofiles[i], call[t].old, call[t].then)
         /\ Dup(t) => \E i \in Held(t) \cup Std :
              ~Free(i) /\ CallSet(t, "alloc", call[t].fd, call[t].fp, i, call[t].then)
         /\ Dup2(t) => \E i \in Held(t) \cup Std : \E new \in FDs \ {i} :
              /\ ~Free(i) /\ (Free(new) \/ new \in Held(t))
              /\ CallSet(t, "dup2", new, call[t].fp, i, call[t].then)
<1>0. \A i \in FDs : fd_ofiles[i] \in Files \cup {NULL}  BY DEF TypeOK
<1>1. Held(t) \cup Std \subseteq FDs  BY StdFacts DEF Held
<1>2. \A i \in FDs : Become(t, [call[t] EXCEPT !.at = "close", !.fd = i,
                                  !.fp = fd_ofiles[i], !.then = "idle"])
        => CallSet(t, "close", i, fd_ofiles[i], call[t].old, "idle")
  BY <1>0, FormFacts, PointFacts, CallFields
<1>3. ASSUME Look(t)
      PROVE  \E i \in Held(t) \cup Std :
              ~Free(i) /\ CallSet(t, "io", call[t].fd, fd_ofiles[i], call[t].old, call[t].then)
  <2>. PICK i \in Held(t) \cup Std :
         ~Free(i) /\ Become(t, [call[t] EXCEPT !.at = "io", !.fp = fd_ofiles[i]])
    BY <1>3 DEF Look
  <2>. QED  BY <1>0, <1>1, FormFacts, PointFacts, CallFields
<1>4. ASSUME Dup(t)
      PROVE  \E i \in Held(t) \cup Std :
              ~Free(i) /\ CallSet(t, "alloc", call[t].fd, call[t].fp, i, call[t].then)
  <2>. PICK i \in Held(t) \cup Std :
         ~Free(i) /\ Become(t, [call[t] EXCEPT !.at = "alloc", !.old = i])
    BY <1>4 DEF Dup
  <2>. QED  BY <1>1, FormFacts, PointFacts, CallFields
<1>5. ASSUME Dup2(t)
      PROVE  \E i \in Held(t) \cup Std : \E new \in FDs \ {i} :
              /\ ~Free(i) /\ (Free(new) \/ new \in Held(t))
              /\ CallSet(t, "dup2", new, call[t].fp, i, call[t].then)
  <2>. PICK i \in Held(t) \cup Std, new \in FDs :
         /\ new # i /\ ~Free(i) /\ (Free(new) \/ new \in Held(t))
         /\ Become(t, [call[t] EXCEPT !.at = "dup2", !.old = i, !.fd = new])
    BY <1>5 DEF Dup2
  <2>. QED  BY <1>1, FormFacts, PointFacts, CallFields
<1>. QED  BY <1>2, <1>3, <1>4, <1>5

LEMMA CloseFacts ==
  ASSUME TypeOK, NEW t \in Threads, Close(t)
  PROVE  \E i \in Held(t) :
           /\ mine' = [mine EXCEPT ![t][i] = NULL]
           /\ UNCHANGED <<fd_mtx, nfiles, filehead, live, broken, dropped>>
           /\ \/ Free(i) /\ UNCHANGED <<fd_ofiles, fd_freefile, call, clash>>
              \/ /\ ~Free(i)
                 /\ fd_ofiles' = [fd_ofiles EXCEPT ![i] = NULL]
                 /\ fd_freefile' = IF i < fd_freefile THEN i ELSE fd_freefile
                 /\ CallSet(t, "close", i, fd_ofiles[i], call[t].old, "idle")
                 /\ clash' = (clash \/ Elsewhere(i, fd_ofiles[i]))
<1>. PICK i \in Held(t) :
       /\ mine' = [mine EXCEPT ![t][i] = NULL]
       /\ \/ Free(i) /\ UNCHANGED <<table, call, clash>>
          \/ /\ ~Free(i)
             /\ fd_ofiles' = [fd_ofiles EXCEPT ![i] = NULL]
             /\ fd_freefile' = IF i < fd_freefile THEN i ELSE fd_freefile
             /\ Become(t, [call[t] EXCEPT !.at = "close", !.fd = i,
                                           !.fp = fd_ofiles[i], !.then = "idle"])
             /\ clash' = (clash \/ Elsewhere(i, fd_ofiles[i]))
             /\ UNCHANGED <<nfiles, filehead, live>>
  BY DEF Close
<1>1. UNCHANGED <<fd_mtx, broken, dropped>>  BY DEF Close
<1>2. i \in FDs  BY DEF Held
<1>3. CASE Free(i) /\ UNCHANGED <<table, call, clash>>
  BY <1>1, <1>3 DEF table
<1>4. CASE ~ (Free(i) /\ UNCHANGED <<table, call, clash>>)
  BY <1>1, <1>2, <1>4, StartCalls
<1>. QED  BY <1>3, <1>4

LEMMA Dup2CloseFacts ==
  ASSUME TypeOK, NEW t \in Threads, Dup2Close(t)
  PROVE  LET f == fd_ofiles[call[t].fd] IN
         /\ UNCHANGED <<fd_mtx, fd_ofiles, fd_freefile, nfiles, filehead, live, broken, dropped>>
         /\ \/ /\ f = NULL
               /\ CallSet(t, "finish", call[t].fd, call[t].fp, call[t].old, call[t].then)
               /\ UNCHANGED <<mine, clash>>
            \/ /\ f # NULL
               /\ CallSet(t, "close", call[t].fd, f, call[t].old, "finish")
               /\ mine' = [mine EXCEPT ![t][call[t].fd] = NULL]
               /\ clash' = (clash \/ Elsewhere(call[t].fd, f) \/ mine[t][call[t].fd] # f)
<1>. DEFINE f == fd_ofiles[call[t].fd]
<1>0. f \in Files \cup {NULL} /\ call[t].fd \in FDs  BY CallFields DEF TypeOK
<1>1. UNCHANGED <<fd_mtx, fd_ofiles, fd_freefile, nfiles, filehead, live, broken, dropped>>
  BY DEF Dup2Close, table
<1>2. CASE f = NULL /\ Goto(t, "finish") /\ UNCHANGED <<mine, clash>>
  BY <1>1, <1>2, GotoFacts, PointFacts
<1>3. CASE /\ f # NULL
           /\ Become(t, [call[t] EXCEPT !.at = "close", !.fp = f, !.then = "finish"])
           /\ mine' = [mine EXCEPT ![t][call[t].fd] = NULL]
           /\ clash' = (clash \/ Elsewhere(call[t].fd, f) \/ mine[t][call[t].fd] # f)
  BY <1>0, <1>1, <1>3, FormFacts, PointFacts, CallFields
<1>. QED  BY <1>2, <1>3 DEF Dup2Close

LEMMA FinishDupFacts ==
  ASSUME TypeOK, NEW t \in Threads, FinishDup(t)
  PROVE  LET f == fd_ofiles[call[t].old] IN
         /\ UNCHANGED <<fd_mtx, fd_freefile, nfiles, filehead, live, dropped>>
         /\ \/ /\ f \in live
               /\ fd_ofiles' = [fd_ofiles EXCEPT ![call[t].fd] = f]
               /\ clash' = (clash \/ ~(Free(call[t].fd) \/ fd_ofiles[call[t].fd] = call[t].fp))
               /\ mine' = [mine EXCEPT ![t][call[t].fd] = f]
               /\ CallSet(t, "idle", 0, NULL, 0, "idle")
               /\ UNCHANGED broken
            \/ f \notin live /\ broken' = TRUE /\ UNCHANGED <<fd_ofiles, clash, mine, call>>
<1>1. ASSUME Return(t)  PROVE CallSet(t, "idle", 0, NULL, 0, "idle")
  BY <1>1, ReturnFacts
<1>. QED  BY <1>1 DEF FinishDup

LEMMA AdvanceCalls ==
  ASSUME TypeOK, NEW t \in Threads
  PROVE  /\ GetNfiles(t) =>
              \/ CallSet(t, "idle", 0, NULL, 0, "idle")
              \/ CallSet(t, "counted", call[t].fd, call[t].fp, call[t].old, call[t].then)
         /\ IncNfiles(t) =>
              CallSet(t, "room", call[t].fd, call[t].fp, call[t].old, call[t].then)
         /\ Insert(t) => \E f \in Files \ live :
              /\ live' = live \cup {f} /\ filehead' = filehead \cup {f}
              /\ fd_ofiles' = [fd_ofiles EXCEPT ![call[t].fd] = f]
              /\ CallSet(t, "opening", call[t].fd, f, call[t].old, call[t].then)
         /\ NoMemory(t) =>
              CallSet(t, "fault", call[t].fd, call[t].fp, call[t].old, call[t].then)
         /\ Opened(t) => CallSet(t, "idle", 0, NULL, 0, "idle")
         /\ OpenFails(t) => CallSet(t, "close", call[t].fd, call[t].fp, call[t].old, "clear")
         /\ Clear(t) => CallSet(t, "idle", 0, NULL, 0, "idle")
         /\ FoClose(t) =>
              CallSet(t, "unlink", call[t].fd, call[t].fp, call[t].old, call[t].then)
         /\ Unlink(t) =>
              CallSet(t, "uncount", call[t].fd, call[t].fp, call[t].old, call[t].then)
         /\ DecNfiles(t) =>
              CallSet(t, "free", call[t].fd, call[t].fp, call[t].old, call[t].then)
         /\ FreeFile(t) =>
              \/ call[t].then = "idle" /\ CallSet(t, "idle", 0, NULL, 0, "idle")
              \/ /\ call[t].then # "idle"
                 /\ CallSet(t, call[t].then, call[t].fd, call[t].fp, call[t].old, call[t].then)
         /\ Dup2Locked(t) =>
              \/ /\ Free(call[t].fd) /\ fd_mtx' = t
                 /\ CallSet(t, "finish", call[t].fd, call[t].fp, call[t].old, call[t].then)
              \/ /\ ~Free(call[t].fd) /\ fd_mtx' = fd_mtx
                 /\ CallSet(t, "reread", call[t].fd, call[t].fp, call[t].old, call[t].then)
         /\ IoDone(t) => CallSet(t, "idle", 0, NULL, 0, "idle")
<1>1. ASSUME Return(t)  PROVE CallSet(t, "idle", 0, NULL, 0, "idle")
  BY <1>1, ReturnFacts
<1>2. ASSUME NEW p \in Points, Goto(t, p)
      PROVE  CallSet(t, p, call[t].fd, call[t].fp, call[t].old, call[t].then)
  BY <1>2, GotoFacts
<1>3. call[t].then \in Points  BY CallFields, PointFacts
<1>4. ASSUME Insert(t)
      PROVE  \E f \in Files \ live :
              /\ live' = live \cup {f} /\ filehead' = filehead \cup {f}
              /\ fd_ofiles' = [fd_ofiles EXCEPT ![call[t].fd] = f]
              /\ CallSet(t, "opening", call[t].fd, f, call[t].old, call[t].then)
  <2>. PICK f \in Files \ live :
         /\ live' = live \cup {f} /\ filehead' = filehead \cup {f}
         /\ fd_ofiles' = [fd_ofiles EXCEPT ![call[t].fd] = f]
         /\ Become(t, [call[t] EXCEPT !.at = "opening", !.fp = f])
    BY <1>4 DEF Insert
  <2>. QED  BY FormFacts, PointFacts, CallFields
<1>5. OpenFails(t) => CallSet(t, "close", call[t].fd, call[t].fp, call[t].old, "clear")
  BY FormFacts, PointFacts, CallFields DEF OpenFails
<1>6. /\ NoMemory(t) =>
              CallSet(t, "fault", call[t].fd, call[t].fp, call[t].old, call[t].then)
      /\ GetNfiles(t) =>
              \/ CallSet(t, "idle", 0, NULL, 0, "idle")
              \/ CallSet(t, "counted", call[t].fd, call[t].fp, call[t].old, call[t].then)
      /\ IncNfiles(t) =>
              CallSet(t, "room", call[t].fd, call[t].fp, call[t].old, call[t].then)
      /\ FoClose(t) =>
              CallSet(t, "unlink", call[t].fd, call[t].fp, call[t].old, call[t].then)
      /\ Unlink(t) =>
              CallSet(t, "uncount", call[t].fd, call[t].fp, call[t].old, call[t].then)
      /\ DecNfiles(t) =>
              CallSet(t, "free", call[t].fd, call[t].fp, call[t].old, call[t].then)
  BY <1>1, <1>2, PointFacts DEF GetNfiles, IncNfiles, NoMemory, FoClose, Unlink, DecNfiles
<1>7. FreeFile(t) =>
              \/ call[t].then = "idle" /\ CallSet(t, "idle", 0, NULL, 0, "idle")
              \/ /\ call[t].then # "idle"
                 /\ CallSet(t, call[t].then, call[t].fd, call[t].fp, call[t].old, call[t].then)
  BY <1>1, <1>2, <1>3 DEF FreeFile
<1>8. Dup2Locked(t) =>
              \/ /\ Free(call[t].fd) /\ fd_mtx' = t
                 /\ CallSet(t, "finish", call[t].fd, call[t].fp, call[t].old, call[t].then)
              \/ /\ ~Free(call[t].fd) /\ fd_mtx' = fd_mtx
                 /\ CallSet(t, "reread", call[t].fd, call[t].fp, call[t].old, call[t].then)
  BY <1>2, PointFacts DEF Dup2Locked
<1>9. /\ Opened(t) => CallSet(t, "idle", 0, NULL, 0, "idle")
      /\ Clear(t) => CallSet(t, "idle", 0, NULL, 0, "idle")
      /\ IoDone(t) => CallSet(t, "idle", 0, NULL, 0, "idle")
  BY <1>1 DEF Opened, Clear, IoDone
<1>. QED  BY <1>4, <1>5, <1>6, <1>7, <1>8, <1>9

LEMMA MineTyped ==
  ASSUME TypeOK, NEW t \in Threads, NEW i \in FDs, NEW f \in Files \cup {NULL},
         mine' = [mine EXCEPT ![t][i] = f]
  PROVE  mine' \in [Threads -> [FDs -> Files \cup {NULL}]]
<1>1. mine[t] \in [FDs -> Files \cup {NULL}]  BY DEF TypeOK
<1>2. [mine[t] EXCEPT ![i] = f] \in [FDs -> Files \cup {NULL}]  BY <1>1
<1>. QED  BY <1>2 DEF TypeOK

----------------------------------------------------------------------------
LEMMA NextTyped ==
  ASSUME Counted, [Next]_vars
  PROVE  TypeOK'
<1>. USE DEF Counted
<1>1. ASSUME NEW t \in Threads, Start(t)  PROVE TypeOK'
  <2>1. CASE Open(t)
    <3>1. FdAlloc(t, 0, "slot") /\ 0 \in FDs  BY <2>1, StdFacts DEF Open
    <3>. QED  BY <3>1, FdAllocFacts DEF TypeOK, CallSet
  <2>2. CASE Close(t)
    <3>1. PICK i \in Held(t) :
           /\ mine' = [mine EXCEPT ![t][i] = NULL]
           /\ UNCHANGED <<fd_mtx, nfiles, filehead, live, broken, dropped>>
           /\ \/ Free(i) /\ UNCHANGED <<fd_ofiles, fd_freefile, call, clash>>
              \/ /\ ~Free(i)
                 /\ fd_ofiles' = [fd_ofiles EXCEPT ![i] = NULL]
                 /\ fd_freefile' = IF i < fd_freefile THEN i ELSE fd_freefile
                 /\ CallSet(t, "close", i, fd_ofiles[i], call[t].old, "idle")
                 /\ clash' = (clash \/ Elsewhere(i, fd_ofiles[i]))
      BY <2>2, CloseFacts
    <3>2. i \in FDs  BY DEF Held
    <3>3. mine' \in [Threads -> [FDs -> Files \cup {NULL}]]  BY <3>1, <3>2 DEF TypeOK
    <3>4. CASE Free(i) /\ UNCHANGED <<fd_ofiles, fd_freefile, call, clash>>
      BY <3>1, <3>3, <3>4 DEF TypeOK
    <3>5. CASE ~ (Free(i) /\ UNCHANGED <<fd_ofiles, fd_freefile, call, clash>>)
      <4>1. call' \in [Threads -> Calls]  BY <3>1, <3>5 DEF CallSet
      <4>2. clash' \in BOOLEAN  BY <3>1, <3>5 DEF TypeOK, Elsewhere
      <4>. QED  BY <3>1, <3>2, <3>3, <3>5, <4>1, <4>2 DEF TypeOK
    <3>. QED  BY <3>4, <3>5
  <2>3. CASE Look(t)
    <3>1. call' \in [Threads -> Calls]  BY <2>3, StartCalls DEF CallSet
    <3>. QED  BY <2>3, <3>1 DEF Look, TypeOK, table, history
  <2>4. CASE Dup(t)
    <3>1. call' \in [Threads -> Calls]  BY <2>4, StartCalls DEF CallSet
    <3>. QED  BY <2>4, <3>1 DEF Dup, TypeOK, table, history
  <2>5. CASE Dup2(t)
    <3>1. call' \in [Threads -> Calls]  BY <2>5, StartCalls DEF CallSet
    <3>. QED  BY <2>5, <3>1 DEF Dup2, TypeOK, table, history
  <2>. QED  BY <1>1, <2>1, <2>2, <2>3, <2>4, <2>5 DEF Start
<1>2. ASSUME NEW t \in Threads, Advance(t)  PROVE TypeOK'
  <2>. USE CallFields
  <2>1. CASE GetNfiles(t)
    BY <2>1, AdvanceCalls DEF GetNfiles, CallSet, TypeOK, table, history
  <2>2. CASE IncNfiles(t)
    BY <2>2, AdvanceCalls DEF IncNfiles, CallSet, TypeOK, history
  <2>3. CASE Insert(t)
    <3>1. clash' \in BOOLEAN  BY <2>3 DEF Insert, TypeOK, Free
    <3>2. PICK f \in Files \ live :
              /\ live' = live \cup {f} /\ filehead' = filehead \cup {f}
              /\ fd_ofiles' = [fd_ofiles EXCEPT ![call[t].fd] = f]
              /\ CallSet(t, "opening", call[t].fd, f, call[t].old, call[t].then)
      BY <2>3, AdvanceCalls
    <3>3. call' \in [Threads -> Calls]  BY <3>2 DEF CallSet
    <3>4. live' \in SUBSET Files /\ filehead' \in SUBSET Files
          /\ fd_ofiles' \in [FDs -> Files \cup {NULL}]
      BY <3>2 DEF TypeOK
    <3>5. UNCHANGED <<fd_mtx, fd_freefile, nfiles, mine, broken, dropped>>  BY <2>3 DEF Insert
    <3>. QED  BY <3>1, <3>3, <3>4, <3>5 DEF TypeOK
  <2>16. CASE NoMemory(t)
    BY <2>16, AdvanceCalls DEF NoMemory, CallSet, TypeOK, table, history
  <2>4. CASE Opened(t)
    <3>0. call[t].fp \in Files /\ call[t].fd \in FDs  BY <2>4 DEF Opened, TypeOK
    <3>1. mine' \in [Threads -> [FDs -> Files \cup {NULL}]]
      BY <2>4, <3>0, MineTyped DEF Opened
    <3>. QED  BY <2>4, <3>1, AdvanceCalls DEF Opened, CallSet, TypeOK, table, history
  <2>5. CASE OpenFails(t)
    BY <2>5, AdvanceCalls DEF OpenFails, CallSet, TypeOK, table, history
  <2>6. CASE Clear(t)
    BY <2>6, AdvanceCalls DEF Clear, CallSet, TypeOK
  <2>7. CASE FoClose(t)
    BY <2>7, AdvanceCalls DEF FoClose, CallSet, TypeOK, table, history
  <2>8. CASE Unlink(t)
    BY <2>8, AdvanceCalls DEF Unlink, CallSet, TypeOK, history
  <2>9. CASE DecNfiles(t)
    <3>1. nfiles' \in Nat
      <4>1. t \in Counting  BY <2>9 DEF DecNfiles, Locked, At, Counting
      <4>2. Cardinality(Counting) # 0  BY <4>1, FS_EmptySet DEF CountOK
      <4>3. Cardinality(Counting) \in Nat /\ Cardinality(filehead) \in Nat
        BY FS_CardinalityType DEF CountOK
      <4>. QED  BY <2>9, <4>2, <4>3 DEF DecNfiles, CountOK
    <3>. QED  BY <2>9, <3>1, AdvanceCalls DEF DecNfiles, CallSet, TypeOK, history
  <2>10. CASE FreeFile(t)
    BY <2>10, AdvanceCalls DEF FreeFile, CallSet, TypeOK, history
  <2>11. CASE UseFreed(t)
    BY <2>11 DEF UseFreed, TypeOK, table
  <2>12. CASE DupAlloc(t)
    <3>1. PICK want \in FDs : FdAlloc(t, want, "finish")  BY <2>12 DEF DupAlloc
    <3>. QED  BY <3>1, FdAllocFacts DEF TypeOK, CallSet
  <2>13. CASE Dup2Locked(t)
    <3>1. fd_mtx' \in Threads \cup {NULL} /\ call' \in [Threads -> Calls]
      BY <2>13, AdvanceCalls DEF CallSet, TypeOK
    <3>. QED  BY <2>13, <3>1 DEF Dup2Locked, TypeOK, table, history
  <2>14. CASE Dup2Close(t)
    <3>1. call' \in [Threads -> Calls]  BY <2>14, Dup2CloseFacts DEF CallSet
    <3>2. clash' \in BOOLEAN  BY <2>14, Dup2CloseFacts DEF TypeOK, Elsewhere
    <3>3. mine' \in [Threads -> [FDs -> Files \cup {NULL}]]
      <4>1. mine' = mine \/ mine' = [mine EXCEPT ![t][call[t].fd] = NULL]
        BY <2>14, Dup2CloseFacts
      <4>2. mine \in [Threads -> [FDs -> Files \cup {NULL}]] /\ call[t].fd \in FDs
        BY DEF TypeOK
      <4>. QED  BY <4>1, <4>2, MineTyped
    <3>. QED  BY <2>14, <3>1, <3>2, <3>3, Dup2CloseFacts DEF TypeOK
  <2>15. CASE FinishDup(t)
    <3>1. call' \in [Threads -> Calls]  BY <2>15, FinishDupFacts DEF CallSet, TypeOK
    <3>2. clash' \in BOOLEAN  BY <2>15, FinishDupFacts DEF TypeOK, Free
    <3>3. mine' \in [Threads -> [FDs -> Files \cup {NULL}]]
      <4>1. mine' = mine \/ (mine' = [mine EXCEPT ![t][call[t].fd] = fd_ofiles[call[t].old]])
        BY <2>15, FinishDupFacts
      <4>2. /\ mine \in [Threads -> [FDs -> Files \cup {NULL}]]
            /\ call[t].fd \in FDs /\ fd_ofiles[call[t].old] \in Files \cup {NULL}
        BY DEF TypeOK
      <4>. QED  BY <4>1, <4>2, MineTyped
    <3>4. fd_ofiles' \in [FDs -> Files \cup {NULL}]
      <4>1. fd_ofiles[call[t].old] \in Files \cup {NULL}  BY DEF TypeOK
      <4>. QED  BY <2>15, <4>1, FinishDupFacts DEF TypeOK
    <3>. QED  BY <2>15, <3>1, <3>2, <3>3, <3>4, FinishDupFacts DEF TypeOK
  <2>. QED
    BY <1>2, <2>1, <2>2, <2>3, <2>4, <2>5, <2>6, <2>7, <2>8, <2>9, <2>10, <2>11, <2>12, <2>13,
       <2>14, <2>15, <2>16 DEF Advance
<1>3. ASSUME NEW t \in Threads, IoDone(t)  PROVE TypeOK'
  BY <1>3, AdvanceCalls DEF IoDone, CallSet, TypeOK, table, history
<1>4. CASE UNCHANGED vars  BY <1>4 DEF vars, table, history, TypeOK
<1>. QED  BY <1>1, <1>2, <1>3, <1>4 DEF Next

----------------------------------------------------------------------------
(* The five sections that count, list or free a file, and all the others.   *)

Marked == {"room", "fault", "uncount", "free"}

LEMMA QuietStep ==
  ASSUME Counted, NEW t \in Threads, UNCHANGED <<nfiles, filehead, live>>,
         call[t].at \notin Marked, call'[t].at \notin Marked,
         \A u \in Threads : u # t => call'[u] = call[u]
  PROVE  UnlinkedOK' /\ CountOK'
<1>1. UnlinkedOK'  BY DEF Counted, UnlinkedOK, Marked
<1>2. Counting' = Counting  BY DEF Counting, Marked
<1>3. CountOK'  BY <1>2 DEF Counted, CountOK
<1>. QED  BY <1>1, <1>3

LEMMA IncCounted ==
  ASSUME Counted, NEW t \in Threads, IncNfiles(t)
  PROVE  UnlinkedOK' /\ CountOK'
<1>1. CallSet(t, "room", call[t].fd, call[t].fp, call[t].old, call[t].then)
  BY AdvanceCalls DEF Counted
<1>2. call[t].at = "counted" /\ nfiles' = nfiles + 1 /\ UNCHANGED <<filehead, live>>
  BY DEF IncNfiles, Locked, At
<1>3. UnlinkedOK'  BY <1>1, <1>2 DEF Counted, UnlinkedOK, CallSet
<1>4. Counting' = Counting \cup {t} /\ t \notin Counting
  BY <1>1, <1>2 DEF Counting, CallSet
<1>5. IsFiniteSet(Counting') /\ Cardinality(Counting') = Cardinality(Counting) + 1
  BY <1>4, FS_AddElement DEF Counted, CountOK
<1>6. Cardinality(Counting) \in Nat /\ Cardinality(filehead) \in Nat
  BY FS_CardinalityType DEF Counted, CountOK
<1>7. CountOK'  BY <1>2, <1>5, <1>6 DEF Counted, CountOK
<1>. QED  BY <1>3, <1>7

LEMMA InsertCounted ==
  ASSUME Counted, NEW t \in Threads, Insert(t)
  PROVE  UnlinkedOK' /\ CountOK'
<1>1. PICK f \in Files \ live :
        /\ live' = live \cup {f} /\ filehead' = filehead \cup {f}
        /\ CallSet(t, "opening", call[t].fd, f, call[t].old, call[t].then)
  BY AdvanceCalls DEF Counted
<1>2. call[t].at = "room" /\ nfiles' = nfiles  BY DEF Insert, Locked, At
<1>3. UnlinkedOK'  BY <1>1, <1>2 DEF Counted, UnlinkedOK, CallSet
<1>4. Counting' = Counting \ {t} /\ t \in Counting
  BY <1>1, <1>2 DEF Counting, CallSet
<1>5. IsFiniteSet(Counting') /\ Cardinality(Counting') = Cardinality(Counting) - 1
  BY <1>4, FS_RemoveElement DEF Counted, CountOK
<1>6. f \notin filehead  BY DEF Counted, UnlinkedOK
<1>7. IsFiniteSet(filehead') /\ Cardinality(filehead') = Cardinality(filehead) + 1
  BY <1>1, <1>6, FS_AddElement DEF Counted, CountOK
<1>8. Cardinality(Counting) \in Nat /\ Cardinality(filehead) \in Nat
  BY FS_CardinalityType DEF Counted, CountOK
<1>9. CountOK'  BY <1>2, <1>5, <1>7, <1>8 DEF Counted, CountOK
<1>. QED  BY <1>3, <1>9

LEMMA NoMemoryCounted ==
  ASSUME Counted, NEW t \in Threads, NoMemory(t)
  PROVE  UnlinkedOK' /\ CountOK'
<1>1. CallSet(t, "fault", call[t].fd, call[t].fp, call[t].old, call[t].then)
  BY AdvanceCalls DEF Counted
<1>2. call[t].at = "room" /\ UNCHANGED <<nfiles, filehead, live>>
  BY DEF NoMemory, At, table
<1>3. UnlinkedOK'  BY <1>1, <1>2 DEF Counted, UnlinkedOK, CallSet
<1>4. Counting' = Counting  BY <1>1, <1>2 DEF Counting, CallSet
<1>5. CountOK'  BY <1>2, <1>4 DEF Counted, CountOK
<1>. QED  BY <1>3, <1>5

LEMMA UnlinkCounted ==
  ASSUME Counted, NEW t \in Threads, Unlink(t)
  PROVE  UnlinkedOK' /\ CountOK'
<1>1. CallSet(t, "uncount", call[t].fd, call[t].fp, call[t].old, call[t].then)
  BY AdvanceCalls DEF Counted
<1>2. /\ call[t].at = "unlink" /\ call[t].fp \in filehead /\ nfiles' = nfiles
      /\ live' = live /\ filehead' = filehead \ {call[t].fp}
  BY DEF Unlink, Locked, At
<1>3. UnlinkedOK'  BY <1>1, <1>2 DEF Counted, UnlinkedOK, CallSet
<1>4. Counting' = Counting \cup {t} /\ t \notin Counting
  BY <1>1, <1>2 DEF Counting, CallSet
<1>5. IsFiniteSet(Counting') /\ Cardinality(Counting') = Cardinality(Counting) + 1
  BY <1>4, FS_AddElement DEF Counted, CountOK
<1>6. IsFiniteSet(filehead') /\ Cardinality(filehead') = Cardinality(filehead) - 1
  BY <1>2, FS_RemoveElement DEF Counted, CountOK
<1>7. Cardinality(Counting) \in Nat /\ Cardinality(filehead) \in Nat
  BY FS_CardinalityType DEF Counted, CountOK
<1>8. CountOK'  BY <1>2, <1>5, <1>6, <1>7 DEF Counted, CountOK
<1>. QED  BY <1>3, <1>8

LEMMA DecCounted ==
  ASSUME Counted, NEW t \in Threads, DecNfiles(t)
  PROVE  UnlinkedOK' /\ CountOK'
<1>1. CallSet(t, "free", call[t].fd, call[t].fp, call[t].old, call[t].then)
  BY AdvanceCalls DEF Counted
<1>2. call[t].at = "uncount" /\ nfiles' = nfiles - 1 /\ UNCHANGED <<filehead, live>>
  BY DEF DecNfiles, Locked, At
<1>3. UnlinkedOK'  BY <1>1, <1>2 DEF Counted, UnlinkedOK, CallSet
<1>4. Counting' = Counting \ {t} /\ t \in Counting
  BY <1>1, <1>2 DEF Counting, CallSet
<1>5. IsFiniteSet(Counting') /\ Cardinality(Counting') = Cardinality(Counting) - 1
  BY <1>4, FS_RemoveElement DEF Counted, CountOK
<1>6. Cardinality(Counting) \in Nat /\ Cardinality(filehead) \in Nat
  BY FS_CardinalityType DEF Counted, CountOK
<1>7. CountOK'  BY <1>2, <1>5, <1>6 DEF Counted, CountOK
<1>. QED  BY <1>3, <1>7

LEMMA FreeFileCounted ==
  ASSUME Counted, NEW t \in Threads, FreeFile(t)
  PROVE  UnlinkedOK' /\ CountOK'
<1>1. /\ call'[t].at \in {"idle", "clear", "finish"}
      /\ \A u \in Threads : u # t => call'[u] = call[u]
  BY AdvanceCalls, CallFields DEF Counted, CallSet
<1>2. /\ call[t].at = "free" /\ live' = live \ {call[t].fp}
      /\ UNCHANGED <<nfiles, filehead>>
  BY DEF FreeFile, At
<1>3. filehead' \subseteq live'  BY <1>2 DEF Counted, UnlinkedOK
<1>4. ASSUME NEW u \in Threads, call'[u].at \in {"uncount", "free"}
      PROVE  call'[u].fp \in live' \ filehead'
  <2>1. u # t /\ call'[u] = call[u]  BY <1>1, <1>4
  <2>2. call[u].fp \in live \ filehead /\ call[u].fp # call[t].fp
    BY <1>2, <1>4, <2>1 DEF Counted, UnlinkedOK
  <2>. QED  BY <1>2, <2>1, <2>2
<1>5. UnlinkedOK'  BY <1>1, <1>3, <1>4 DEF Counted, UnlinkedOK
<1>6. Counting' = Counting  BY <1>1, <1>2 DEF Counting
<1>7. CountOK'  BY <1>2, <1>6 DEF Counted, CountOK
<1>. QED  BY <1>5, <1>7

LEMMA NextCounted ==
  ASSUME Counted, [Next]_vars
  PROVE  Counted'
<1>0. TypeOK /\ TypeOK'  BY NextTyped DEF Counted
<1>1. ASSUME NEW t \in Threads, Start(t)  PROVE UnlinkedOK' /\ CountOK'
  <2>0. call[t].at = "idle"
    BY <1>1 DEF Start, Open, Close, Look, Dup, Dup2, Locked, At
  <2>1. CASE Open(t)
    <3>1. FdAlloc(t, 0, "slot") /\ 0 \in FDs  BY <2>1, StdFacts DEF Open
    <3>2. /\ UNCHANGED <<nfiles, filehead, live>> /\ call'[t].at \notin Marked
          /\ \A u \in Threads : u # t => call'[u] = call[u]
      BY <1>0, <3>1, FdAllocFacts DEF CallSet, Marked
    <3>. QED  BY <2>0, <3>2, QuietStep DEF Marked
  <2>2. CASE Close(t)
    <3>2. /\ UNCHANGED <<nfiles, filehead, live>> /\ call'[t].at \notin Marked
          /\ \A u \in Threads : u # t => call'[u] = call[u]
      BY <1>0, <2>0, <2>2, CloseFacts DEF CallSet, Marked
    <3>. QED  BY <2>0, <3>2, QuietStep DEF Marked
  <2>3. CASE Look(t) \/ Dup(t) \/ Dup2(t)
    <3>1. UNCHANGED <<nfiles, filehead, live>>
      BY <2>3 DEF Look, Dup, Dup2, table
    <3>2. /\ call'[t].at \notin Marked
          /\ \A u \in Threads : u # t => call'[u] = call[u]
      BY <1>0, <2>3, StartCalls DEF CallSet, Marked
    <3>. QED  BY <2>0, <3>1, <3>2, QuietStep DEF Marked
  <2>. QED  BY <1>1, <2>1, <2>2, <2>3 DEF Start
<1>2. ASSUME NEW t \in Threads, Advance(t)  PROVE UnlinkedOK' /\ CountOK'
  <2>1. CASE GetNfiles(t) \/ Opened(t) \/ OpenFails(t) \/ Clear(t) \/ FoClose(t) \/ Dup2Locked(t)
    <3>1. UNCHANGED <<nfiles, filehead, live>> /\ call[t].at \notin Marked
      BY <2>1 DEF GetNfiles, Opened, OpenFails, Clear, FoClose, Dup2Locked, table, Locked, At, Marked
    <3>2. /\ call'[t].at \notin Marked
          /\ \A u \in Threads : u # t => call'[u] = call[u]
      BY <1>0, <2>1, AdvanceCalls DEF CallSet, Marked
    <3>. QED  BY <3>1, <3>2, QuietStep
  <2>2. CASE DupAlloc(t)
    <3>1. PICK want \in FDs : FdAlloc(t, want, "finish")  BY <2>2 DEF DupAlloc
    <3>2. /\ UNCHANGED <<nfiles, filehead, live>> /\ call'[t].at \notin Marked
          /\ \A u \in Threads : u # t => call'[u] = call[u]
      BY <1>0, <3>1, FdAllocFacts DEF CallSet, Marked
    <3>3. call[t].at \notin Marked  BY <2>2 DEF DupAlloc, Locked, At, Marked
    <3>. QED  BY <3>2, <3>3, QuietStep
  <2>3. CASE Dup2Close(t)
    <3>1. /\ UNCHANGED <<nfiles, filehead, live>> /\ call'[t].at \notin Marked
          /\ \A u \in Threads : u # t => call'[u] = call[u]
      BY <1>0, <2>3, Dup2CloseFacts DEF CallSet, Marked
    <3>2. call[t].at \notin Marked  BY <2>3 DEF Dup2Close, At, Marked
    <3>. QED  BY <3>1, <3>2, QuietStep
  <2>4. CASE FinishDup(t)
    <3>1. call[t].at = "finish"  BY <2>4 DEF FinishDup, Locked, At
    <3>2. /\ UNCHANGED <<nfiles, filehead, live>> /\ call'[t].at \notin Marked
          /\ \A u \in Threads : u # t => call'[u] = call[u]
      BY <1>0, <2>4, <3>1, FinishDupFacts DEF CallSet, Marked
    <3>. QED  BY <3>1, <3>2, QuietStep DEF Marked
  <2>5. CASE UseFreed(t)
    BY <2>5 DEF UseFreed, table, Counted, UnlinkedOK, CountOK, Counting
  <2>. QED
    BY <1>2, <2>1, <2>2, <2>3, <2>4, <2>5, IncCounted, InsertCounted, NoMemoryCounted, UnlinkCounted,
       DecCounted, FreeFileCounted DEF Advance
<1>3. ASSUME NEW t \in Threads, IoDone(t)  PROVE UnlinkedOK' /\ CountOK'
  <2>1. UNCHANGED <<nfiles, filehead, live>> /\ call[t].at \notin Marked
    BY <1>3 DEF IoDone, table, At, Marked
  <2>2. /\ call'[t].at \notin Marked
        /\ \A u \in Threads : u # t => call'[u] = call[u]
    BY <1>0, <1>3, AdvanceCalls DEF CallSet, Marked
  <2>. QED  BY <2>1, <2>2, QuietStep
<1>4. CASE UNCHANGED vars
  <2>1. UNCHANGED <<call, nfiles, filehead, live>>  BY <1>4 DEF vars, table
  <2>2. UnlinkedOK /\ CountOK  BY DEF Counted
  <2>3. UnlinkedOK'  BY <2>1, <2>2 DEF UnlinkedOK
  <2>4. Counting' = Counting  BY <2>1 DEF Counting
  <2>5. CountOK'  BY <2>1, <2>2, <2>4 DEF CountOK
  <2>. QED  BY <1>0, <2>3, <2>5 DEF Counted
<1>. QED  BY <1>0, <1>1, <1>2, <1>3, <1>4 DEF Next, Counted

(* FilesCounted: nfiles is the number of open files, in every interleaving  *)
(* of the sections that count them, list them and free them; TypeOK rests   *)
(* on the same invariant (nfiles never goes below zero).                    *)
THEOREM FilesStayCounted == Spec => [](TypeOK /\ FilesCounted)
<1>1. Counted => TypeOK /\ FilesCounted
  BY DEF Counted, CountOK, Counting, FilesCounted
<1>. QED  BY InitCounted, NextCounted, <1>1, PTL DEF Spec

----------------------------------------------------------------------------
(* No free descriptor below fd_freefile is lost.                            *)

LEMMA NextFound ==
  ASSUME Counted, FreeIsFound, [Next]_vars
  PROVE  FreeIsFound'
<1>0. TypeOK /\ FDs \subseteq Nat /\ fd_freefile \in FDs
  BY DEF Counted, TypeOK, FDs
<1>1. ASSUME UNCHANGED <<fd_ofiles, fd_freefile, dropped>>  PROVE FreeIsFound'
  BY <1>1 DEF FreeIsFound, Free
<1>2. ASSUME NEW t \in Threads, NEW want \in FDs, NEW next \in {"slot", "finish"},
             FdAlloc(t, want, next)
      PROVE  FreeIsFound'
  BY <1>0, <1>2, FdAllocFacts DEF FreeIsFound, Free
<1>3. ASSUME NEW t \in Threads, NEW f \in Files,
             UNCHANGED <<fd_freefile, dropped>>,
             fd_ofiles' = [fd_ofiles EXCEPT ![call[t].fd] = f]
      PROVE  FreeIsFound'
  BY <1>0, <1>3, FileDescAssumption DEF FreeIsFound, Free, TypeOK
<1>4. ASSUME NEW t \in Threads, Start(t)  PROVE FreeIsFound'
  <2>1. CASE Open(t)
    <3>1. FdAlloc(t, 0, "slot") /\ 0 \in FDs  BY <2>1, StdFacts DEF Open
    <3>. QED  BY <1>2, <3>1
  <2>2. CASE Close(t)
    <3>1. PICK i \in Held(t) :
           /\ dropped' = dropped
           /\ \/ UNCHANGED <<fd_ofiles, fd_freefile>>
              \/ /\ fd_ofiles' = [fd_ofiles EXCEPT ![i] = NULL]
                 /\ fd_freefile' = IF i < fd_freefile THEN i ELSE fd_freefile
      BY <1>0, <2>2, CloseFacts
    <3>2. i \in FDs  BY DEF Held
    <3>3. CASE /\ fd_ofiles' = [fd_ofiles EXCEPT ![i] = NULL]
               /\ fd_freefile' = IF i < fd_freefile THEN i ELSE fd_freefile
      <4>1. SUFFICES ASSUME NEW j \in FDs, j < fd_freefile', fd_ofiles'[j] = NULL
                     PROVE  j \in dropped
        BY <3>1 DEF FreeIsFound, Free
      <4>2. j # i /\ j < fd_freefile  BY <1>0, <3>2, <3>3, <4>1
      <4>3. fd_ofiles[j] = NULL  BY <3>3, <4>1, <4>2 DEF Counted, TypeOK
      <4>. QED  BY <4>2, <4>3 DEF FreeIsFound, Free
    <3>. QED  BY <1>1, <3>1, <3>3
  <2>3. CASE Look(t) \/ Dup(t) \/ Dup2(t)
    BY <1>1, <2>3 DEF Look, Dup, Dup2, table, history
  <2>. QED  BY <1>4, <2>1, <2>2, <2>3 DEF Start
<1>5. ASSUME NEW t \in Threads, Advance(t)  PROVE FreeIsFound'
  <2>1. CASE \/ GetNfiles(t) \/ IncNfiles(t) \/ Opened(t) \/ OpenFails(t) \/ FoClose(t)
             \/ Unlink(t) \/ DecNfiles(t) \/ FreeFile(t) \/ UseFreed(t) \/ Dup2Locked(t)
             \/ NoMemory(t)
    BY <1>1, <2>1 DEF NoMemory, GetNfiles, IncNfiles, Opened, OpenFails, FoClose, Unlink, DecNfiles,
       FreeFile, UseFreed, Dup2Locked, table, history
  <2>2. CASE Insert(t)
    <3>1. PICK f \in Files : fd_ofiles' = [fd_ofiles EXCEPT ![call[t].fd] = f]
      BY <2>2 DEF Insert
    <3>. QED  BY <1>3, <2>2, <3>1 DEF Insert
  <2>3. CASE Clear(t)
    <3>1. /\ fd_ofiles' = [fd_ofiles EXCEPT ![call[t].fd] = NULL]
          /\ fd_freefile' = fd_freefile
          /\ dropped' = IF call[t].fd < fd_freefile THEN dropped \cup {call[t].fd}
                        ELSE dropped
      BY <2>3 DEF Clear
    <3>2. SUFFICES ASSUME NEW j \in FDs, j < fd_freefile, fd_ofiles'[j] = NULL
                   PROVE  j \in dropped'
      BY <3>1 DEF FreeIsFound, Free
    <3>3. CASE j = call[t].fd  BY <3>1, <3>2, <3>3
    <3>4. CASE j # call[t].fd
      <4>1. fd_ofiles[j] = NULL  BY <3>1, <3>2, <3>4 DEF Counted, TypeOK
      <4>. QED  BY <3>1, <3>2, <4>1 DEF FreeIsFound, Free
    <3>. QED  BY <3>3, <3>4
  <2>4. CASE DupAlloc(t)
    <3>1. PICK want \in FDs : FdAlloc(t, want, "finish")  BY <2>4 DEF DupAlloc
    <3>. QED  BY <1>2, <3>1
  <2>5. CASE Dup2Close(t)
    BY <1>0, <1>1, <2>5, Dup2CloseFacts
  <2>6. CASE FinishDup(t)
    <3>1. UNCHANGED <<fd_freefile, dropped>>  BY <2>6 DEF FinishDup
    <3>2. CASE fd_ofiles' = fd_ofiles  BY <1>1, <3>1, <3>2
    <3>3. CASE fd_ofiles' # fd_ofiles
      <4>1. PICK f \in live : fd_ofiles' = [fd_ofiles EXCEPT ![call[t].fd] = f]
        BY <1>0, <2>6, <3>3, FinishDupFacts
      <4>2. f \in Files  BY <1>0 DEF TypeOK
      <4>. QED  BY <1>3, <3>1, <4>1, <4>2
    <3>. QED  BY <3>2, <3>3
  <2>. QED  BY <1>5, <2>1, <2>2, <2>3, <2>4, <2>5, <2>6 DEF Advance
<1>6. ASSUME NEW t \in Threads, IoDone(t)  PROVE FreeIsFound'
  BY <1>1, <1>6 DEF IoDone, table, history
<1>7. CASE UNCHANGED vars  BY <1>1, <1>7 DEF vars, table, history
<1>. QED  BY <1>4, <1>5, <1>6, <1>7 DEF Next

(* FreeIsFound: whatever is opened, closed, refused and duplicated, fdalloc *)
(* finds every free descriptor except those a failed open dropped.          *)
THEOREM FreeStaysFound == Spec => []FreeIsFound
<1>1. Init => FreeIsFound
  <2>. SUFFICES ASSUME Init, NEW i \in FDs, i < fd_freefile, Free(i)  PROVE FALSE
    BY DEF FreeIsFound
  <2>1. i \in Std
    <3>. PICK n \in 1 .. NDFILE : Console \in [0 .. n - 1 -> Files]  BY FileDescAssumption
    <3>1. Std = 0 .. n - 1 /\ n \in Nat  BY FileDescAssumption DEF Std
    <3>2. Cardinality(Std) - 1 \in 0 .. n - 1  BY <3>1, StdFacts
    <3>. QED  BY <3>1, <3>2, FileDescAssumption DEF Init, FDs
  <2>2. fd_ofiles[i] \in Files  BY <2>1, StdFacts DEF Init, ConsoleFiles, Free
  <2>. QED  BY <2>2, FileDescAssumption DEF Free
<1>. QED  BY <1>1, InitCounted, NextCounted, NextFound, PTL DEF Spec

----------------------------------------------------------------------------
(* The files threads use: while no descriptor was lost (clash), a file that *)
(* a call opens or closes is referred to by that call alone.                *)

\* The thread is opening or closing a file nobody else refers to.
Busy(t) == call[t].at \in {"opening", "close", "unlink", "uncount", "free"}

\* The file lies in a descriptor that no thread holds; after closef it is freed.
Storing(t) ==
  \/ call[t].at \in {"opening", "clear"}
  \/ Busy(t) /\ call[t].then # "idle"
  \/ call[t].at = "finish" /\ call[t].fp # NULL

HeldOK(t) ==
  \A i \in Held(t) : i \notin Std /\ fd_ofiles[i] = mine[t][i] /\ mine[t][i] \in filehead

StoringOK(t) ==
  Storing(t) => /\ call[t].fd \notin Std /\ call[t].fd \notin Held(t)
                /\ fd_ofiles[call[t].fd] = call[t].fp /\ call[t].fp # NULL

BusyOK(t) ==
  Busy(t) => /\ call[t].fp \in live /\ call[t].fp \notin ConsoleFiles
             /\ \A i \in FDs : mine[t][i] # call[t].fp
             /\ call[t].at \in {"opening", "close", "unlink"} => call[t].fp \in filehead

SourceOK(t) ==
  /\ call[t].at = "io" =>
       call[t].fp \in ConsoleFiles \/ \E i \in Held(t) : call[t].fp = mine[t][i]
  /\ call[t].at \in {"alloc", "dup2", "reread", "finish"} \/ (Busy(t) /\ call[t].then = "finish")
       => call[t].old \in Held(t) \cup Std
  /\ call[t].at \in {"dup2", "reread"} => call[t].old # call[t].fd
  /\ call[t].at \in {"idle", "alloc", "dup2", "reread"} => call[t].fp = NULL
  /\ call[t].at \in {"idle", "slot", "counted", "room", "opening"} => call[t].then = "idle"

Apart(t, u) ==
  /\ Held(t) \cap Held(u) = {}
  /\ Storing(t) => call[t].fd \notin Held(u)
  /\ Storing(t) /\ Storing(u) => call[t].fd # call[u].fd
  /\ Busy(t) => \A i \in FDs : mine[u][i] # call[t].fp
  /\ Busy(t) /\ Busy(u) => call[t].fp # call[u].fp

ConsoleOK == \A i \in Std : fd_ofiles[i] = Console[i] /\ Console[i] \in filehead

Safe ==
  /\ ~broken /\ ConsoleOK
  /\ \A t \in Threads : HeldOK(t) /\ StoringOK(t) /\ BusyOK(t) /\ SourceOK(t)
  /\ \A t, u \in Threads : t # u => Apart(t, u)

LEMMA InitSafe == Init => Safe
<1>. SUFFICES ASSUME Init PROVE Safe  OBVIOUS
<1>1. \A t \in Threads : call[t] = Idle /\ Held(t) = {}  BY DEF Init, Held
<1>2. \A t \in Threads : ~Busy(t) /\ ~Storing(t)  BY <1>1 DEF Busy, Storing, Idle
<1>3. ConsoleOK  BY StdFacts DEF ConsoleOK, Init, ConsoleFiles
<1>4. \A t \in Threads : HeldOK(t) /\ StoringOK(t) /\ BusyOK(t)
  BY <1>1, <1>2 DEF HeldOK, StoringOK, BusyOK
<1>5. \A t \in Threads : SourceOK(t)  BY <1>1, <1>2 DEF SourceOK, Idle
<1>6. \A t, u \in Threads : Apart(t, u)  BY <1>1, <1>2 DEF Apart
<1>. QED  BY <1>3, <1>4, <1>5, <1>6 DEF Safe, Init

\* What a step that touches one call leaves of the others.
LEMMA OtherKept ==
  ASSUME NEW t \in Threads, NEW u \in Threads, call'[u] = call[u]
  PROVE  (Busy(u)' <=> Busy(u)) /\ (Storing(u)' <=> Storing(u))
BY DEF Busy, Storing

\* A step that changes the call of t only, and lets it neither take nor store a file.
LEMMA CallStep ==
  ASSUME Counted, Safe, NEW t \in Threads,
         UNCHANGED <<fd_ofiles, mine, filehead, live, broken>>,
         \A u \in Threads : u # t => call'[u] = call[u],
         Busy(t)' => /\ Busy(t) /\ call'[t].fp = call[t].fp
                     /\ call'[t].at \in {"opening", "close", "unlink"}
                          => call[t].at \in {"opening", "close", "unlink"},
         Storing(t)' => Storing(t) /\ call'[t].fp = call[t].fp /\ call'[t].fd = call[t].fd,
         SourceOK(t)'
  PROVE  Safe'
<1>1. \A u \in Threads : Held(u)' = Held(u)  BY DEF Held
<1>2. ConsoleOK' /\ ~broken'  BY DEF Safe, ConsoleOK
<1>3. ASSUME NEW u \in Threads
      PROVE  HeldOK(u)' /\ StoringOK(u)' /\ BusyOK(u)' /\ SourceOK(u)'
  <2>0. HeldOK(u) /\ StoringOK(u) /\ BusyOK(u) /\ SourceOK(u)  BY DEF Safe
  <2>1. HeldOK(u)'  BY <1>1, <2>0 DEF HeldOK
  <2>2. CASE u = t
    <3>1. StoringOK(t)'  BY <1>1, <2>0, <2>2 DEF StoringOK
    <3>2. BusyOK(t)'  BY <2>0, <2>2 DEF BusyOK
    <3>. QED  BY <2>1, <2>2, <3>1, <3>2
  <2>3. CASE u # t
    <3>1. call'[u] = call[u] /\ Held(u)' = Held(u)  BY <1>1, <2>3
    <3>2. (Busy(u)' <=> Busy(u)) /\ (Storing(u)' <=> Storing(u))  BY <3>1, OtherKept
    <3>3. StoringOK(u)'  BY <2>0, <3>1, <3>2 DEF StoringOK
    <3>4. BusyOK(u)'  BY <2>0, <3>1, <3>2 DEF BusyOK
    <3>5. SourceOK(u)'  BY <2>0, <3>1, <3>2 DEF SourceOK
    <3>. QED  BY <2>1, <3>3, <3>4, <3>5
  <2>. QED  BY <2>2, <2>3
<1>4. ASSUME NEW u \in Threads, NEW v \in Threads, u # v  PROVE Apart(u, v)'
  <2>0. Apart(u, v)  BY <1>4 DEF Safe
  <2>1. \A w \in Threads : Busy(w)' => Busy(w) /\ call'[w].fp = call[w].fp
    BY OtherKept
  <2>2. \A w \in Threads : Storing(w)' => Storing(w) /\ call'[w].fd = call[w].fd
    BY OtherKept
  <2>. QED  BY <1>1, <2>0, <2>1, <2>2 DEF Apart
<1>. QED  BY <1>2, <1>3, <1>4 DEF Safe

\* A thread that comes to a point where it refers to no file of its own.
LEMMA RestFacts ==
  ASSUME Counted, Safe, NEW t \in Threads, CallSet(t, "idle", 0, NULL, 0, "idle")
  PROVE  ~Busy(t)' /\ ~Storing(t)' /\ SourceOK(t)'
BY DEF CallSet, Busy, Storing, SourceOK

\* Threads that keep their call and their descriptors keep their obligations.
LEMMA SourceKept ==
  ASSUME NEW u \in Threads, SourceOK(u), call'[u] = call[u], UNCHANGED mine
  PROVE  SourceOK(u)'
<1>1. Held(u)' = Held(u)  BY DEF Held
<1>. QED  BY <1>1, OtherKept DEF SourceOK

LEMMA FdAllocSafe ==
  ASSUME Counted, Safe, NEW t \in Threads, NEW want \in FDs,
         NEW next \in {"slot", "finish"}, FdAlloc(t, want, next),
         next = "slot" => call[t].at = "idle",
         next = "finish" => call[t].at = "alloc"
  PROVE  Safe'
<1>0. TypeOK /\ SourceOK(t)  BY DEF Counted, Safe
<1>1. UNCHANGED <<fd_ofiles, mine, filehead, live, broken>>  BY <1>0, FdAllocFacts
<1>2. Held(t)' = Held(t)  BY <1>1 DEF Held
<1>3. CASE CallSet(t, "idle", 0, NULL, 0, "idle")
  <2>1. \A u \in Threads : u # t => call'[u] = call[u]  BY <1>3 DEF CallSet
  <2>. QED  BY <1>1, <1>3, <2>1, RestFacts, CallStep
<1>4. CASE \E i \in FDs : CallSet(t, next, i, call[t].fp, call[t].old, call[t].then)
  <2>1. call'[t].at = next /\ call'[t].fp = call[t].fp /\ call'[t].old = call[t].old
        /\ call'[t].then = call[t].then
        /\ \A u \in Threads : u # t => call'[u] = call[u]
    BY <1>4 DEF CallSet
  <2>2. call[t].fp = NULL  BY <1>0 DEF SourceOK
  <2>3. ~Busy(t)' /\ ~Storing(t)'  BY <2>1, <2>2 DEF Busy, Storing
  <2>4. SourceOK(t)'  BY <1>0, <1>2, <2>1, <2>2, <2>3 DEF SourceOK
  <2>. QED  BY <1>1, <2>1, <2>3, <2>4, CallStep
<1>. QED  BY <1>0, <1>3, <1>4, FdAllocFacts

LEMMA QuietSafe ==
  ASSUME Counted, Safe, NEW t \in Threads,
         \/ GetNfiles(t) \/ IncNfiles(t) \/ OpenFails(t) \/ FoClose(t) \/ DecNfiles(t)
         \/ NoMemory(t) \/ Look(t) \/ Dup(t) \/ Dup2(t) \/ Dup2Locked(t) \/ IoDone(t)
  PROVE  Safe'
<1>0. /\ TypeOK /\ SourceOK(t) /\ HeldOK(t) /\ StoringOK(t) /\ BusyOK(t) /\ ConsoleOK
      /\ UNCHANGED <<fd_ofiles, mine, filehead, live, broken>>
  BY DEF Counted, Safe, GetNfiles, IncNfiles, NoMemory, OpenFails, FoClose, DecNfiles, Look, Dup, Dup2,
         Dup2Locked, IoDone, table, history
<1>1. Held(t)' = Held(t)  BY <1>0 DEF Held
<1>2. ASSUME \A u \in Threads : u # t => call'[u] = call[u],
             ~Busy(t)', ~Storing(t)', SourceOK(t)'
      PROVE  Safe'
  BY <1>0, <1>2, CallStep
<1>3. ASSUME CallSet(t, "idle", 0, NULL, 0, "idle")  PROVE Safe'
  BY <1>2, <1>3, RestFacts DEF CallSet
<1>4. CASE GetNfiles(t) \/ IncNfiles(t) \/ NoMemory(t)
  <2>1. CASE CallSet(t, "idle", 0, NULL, 0, "idle")  BY <1>3, <2>1
  <2>2. CASE \E p \in {"counted", "room", "fault"} :
               CallSet(t, p, call[t].fd, call[t].fp, call[t].old, call[t].then)
    <3>1. call[t].then = "idle"
      BY <1>0, <1>4 DEF GetNfiles, IncNfiles, NoMemory, Locked, At, SourceOK
    <3>2. ~Busy(t)' /\ ~Storing(t)'  BY <2>2 DEF CallSet, Busy, Storing
    <3>3. SourceOK(t)'  BY <2>2, <3>1, <3>2 DEF CallSet, SourceOK
    <3>. QED  BY <1>2, <2>2, <3>2, <3>3 DEF CallSet
  <2>. QED  BY <1>0, <1>4, <2>1, <2>2, AdvanceCalls
<1>5. CASE OpenFails(t)
  <2>1. /\ CallSet(t, "close", call[t].fd, call[t].fp, call[t].old, "clear")
        /\ call[t].at = "opening"
    BY <1>0, <1>5, AdvanceCalls DEF OpenFails, At
  <2>2. Busy(t) /\ Storing(t)  BY <2>1 DEF Busy, Storing
  <2>3. SourceOK(t)'  BY <1>0, <1>1, <2>1 DEF CallSet, SourceOK, Busy
  <2>. QED  BY <1>0, <2>1, <2>2, <2>3, CallStep DEF CallSet
<1>6. CASE FoClose(t) \/ DecNfiles(t)
  <2>1. /\ \/ call[t].at = "close" /\ call'[t].at = "unlink"
           \/ call[t].at = "uncount" /\ call'[t].at = "free"
        /\ CallSet(t, call'[t].at, call[t].fd, call[t].fp, call[t].old, call[t].then)
    BY <1>0, <1>6, AdvanceCalls DEF FoClose, DecNfiles, At, Locked, CallSet
  <2>2. Busy(t)  BY <2>1 DEF Busy
  <2>3. Storing(t)' => Storing(t)  BY <2>1, <2>2 DEF CallSet, Storing, Busy
  <2>4. SourceOK(t)'  BY <1>0, <1>1, <2>1, <2>2 DEF CallSet, SourceOK
  <2>5. /\ call'[t].fp = call[t].fp /\ call'[t].fd = call[t].fd
        /\ call'[t].at \in {"opening", "close", "unlink"} => call[t].at = "close"
        /\ \A u \in Threads : u # t => call'[u] = call[u]
    BY <2>1 DEF CallSet
  <2>. QED  BY <1>0, <2>2, <2>3, <2>4, <2>5, CallStep
<1>7. CASE Look(t)
  <2>1. PICK i \in Held(t) \cup Std :
          ~Free(i) /\ CallSet(t, "io", call[t].fd, fd_ofiles[i], call[t].old, call[t].then)
    BY <1>0, <1>7, StartCalls
  <2>2. ~Busy(t)' /\ ~Storing(t)'  BY <2>1 DEF CallSet, Busy, Storing
  <2>3. fd_ofiles[i] \in ConsoleFiles \/ (i \in Held(t) /\ fd_ofiles[i] = mine[t][i])
    BY <1>0 DEF HeldOK, ConsoleOK, ConsoleFiles
  <2>4. SourceOK(t)'  BY <1>0, <1>1, <2>1, <2>2, <2>3 DEF CallSet, SourceOK
  <2>. QED  BY <1>2, <2>1, <2>2, <2>4 DEF CallSet
<1>8. CASE Dup(t) \/ Dup2(t)
  <2>0. call[t].fp = NULL /\ call[t].at = "idle"
    BY <1>0, <1>8 DEF Dup, Dup2, Locked, At, SourceOK
  <2>1. PICK i \in Held(t) \cup Std, new \in FDs, p \in {"alloc", "dup2"} :
          /\ CallSet(t, p, new, call[t].fp, i, call[t].then)
          /\ p = "dup2" => new # i
    <3>1. CASE Dup(t)
      <4>1. call[t].fd \in FDs  BY <1>0, CallFields
      <4>. QED  BY <1>0, <3>1, <4>1, StartCalls
    <3>2. CASE Dup2(t)
      <4>1. PICK i \in Held(t) \cup Std : \E new \in FDs \ {i} :
                  CallSet(t, "dup2", new, call[t].fp, i, call[t].then)
        BY <1>0, <3>2, StartCalls
      <4>. QED  BY <4>1
    <3>. QED  BY <1>8, <3>1, <3>2
  <2>2. ~Busy(t)' /\ ~Storing(t)'  BY <2>0, <2>1 DEF CallSet, Busy, Storing
  <2>3. SourceOK(t)'  BY <1>0, <1>1, <2>0, <2>1, <2>2 DEF CallSet, SourceOK
  <2>. QED  BY <1>2, <2>1, <2>2, <2>3 DEF CallSet
<1>9. CASE Dup2Locked(t)
  <2>0. call[t].fp = NULL /\ call[t].at = "dup2" /\ call[t].old # call[t].fd
        /\ call[t].old \in Held(t) \cup Std
    BY <1>0, <1>9 DEF Dup2Locked, Locked, At, SourceOK
  <2>1. PICK p \in {"finish", "reread"} :
          CallSet(t, p, call[t].fd, call[t].fp, call[t].old, call[t].then)
    BY <1>0, <1>9, AdvanceCalls
  <2>2. ~Busy(t)' /\ ~Storing(t)'  BY <2>0, <2>1 DEF CallSet, Busy, Storing
  <2>3. SourceOK(t)'  BY <1>1, <2>0, <2>1, <2>2 DEF CallSet, SourceOK
  <2>. QED  BY <1>2, <2>1, <2>2, <2>3 DEF CallSet
<1>10. CASE IoDone(t)  BY <1>0, <1>3, <1>10, AdvanceCalls
<1>. QED  BY <1>4, <1>5, <1>6, <1>7, <1>8, <1>9, <1>10

LEMMA UnlinkSafe ==
  ASSUME Counted, Safe, NEW t \in Threads, Unlink(t)
  PROVE  Safe'
<1>0. TypeOK /\ BusyOK(t) /\ SourceOK(t) /\ StoringOK(t)  BY DEF Counted, Safe
<1>1. CallSet(t, "uncount", call[t].fd, call[t].fp, call[t].old, call[t].then)
  BY <1>0, AdvanceCalls
<1>2. /\ call[t].at = "unlink" /\ filehead' = filehead \ {call[t].fp}
      /\ UNCHANGED <<fd_ofiles, mine, live, broken>>
  BY DEF Unlink, Locked, At, history
<1>3. Busy(t) /\ Busy(t)' /\ (Storing(t)' <=> Storing(t))
  BY <1>1, <1>2 DEF CallSet, Busy, Storing
<1>4. \A u \in Threads : Held(u)' = Held(u)  BY <1>2 DEF Held
<1>5. ConsoleOK' /\ ~broken'
  BY <1>0, <1>2, <1>3 DEF Safe, ConsoleOK, BusyOK, ConsoleFiles
<1>6. ASSUME NEW u \in Threads
      PROVE  HeldOK(u)' /\ StoringOK(u)' /\ BusyOK(u)' /\ SourceOK(u)'
  <2>0. HeldOK(u) /\ StoringOK(u) /\ BusyOK(u) /\ SourceOK(u)  BY DEF Safe
  <2>1. \A i \in FDs : mine[u][i] # call[t].fp
    <3>1. CASE u = t  BY <1>0, <1>3, <3>1 DEF BusyOK
    <3>2. CASE u # t  BY <1>3, <3>2 DEF Safe, Apart
    <3>. QED  BY <3>1, <3>2
  <2>2. HeldOK(u)'  BY <1>2, <1>4, <2>0, <2>1 DEF HeldOK, Held
  <2>3. CASE u = t
    <3>1. StoringOK(t)'  BY <1>0, <1>1, <1>2, <1>3, <1>4 DEF CallSet, StoringOK
    <3>2. BusyOK(t)'  BY <1>0, <1>1, <1>2, <1>3 DEF CallSet, BusyOK
    <3>3. SourceOK(t)'  BY <1>0, <1>1, <1>2, <1>3, <1>4 DEF CallSet, SourceOK
    <3>. QED  BY <2>2, <2>3, <3>1, <3>2, <3>3
  <2>4. CASE u # t
    <3>1. call'[u] = call[u] /\ Held(u)' = Held(u)  BY <1>1, <1>4, <2>4 DEF CallSet
    <3>2. (Busy(u)' <=> Busy(u)) /\ (Storing(u)' <=> Storing(u))  BY <3>1, OtherKept
    <3>3. StoringOK(u)'  BY <1>2, <2>0, <3>1, <3>2 DEF StoringOK
    <3>4. Busy(u) => call[u].fp # call[t].fp  BY <1>3, <2>4 DEF Safe, Apart
    <3>5. BusyOK(u)'  BY <1>2, <2>0, <3>1, <3>2, <3>4 DEF BusyOK
    <3>6. SourceOK(u)'  BY <1>2, <2>0, <3>1, SourceKept
    <3>. QED  BY <2>2, <3>3, <3>5, <3>6
  <2>. QED  BY <2>3, <2>4
<1>7. ASSUME NEW u \in Threads, NEW v \in Threads, u # v  PROVE Apart(u, v)'
  <2>0. Apart(u, v)  BY <1>7 DEF Safe
  <2>1. \A w \in Threads : /\ (Busy(w)' <=> Busy(w)) /\ (Storing(w)' <=> Storing(w))
                           /\ call'[w].fp = call[w].fp /\ call'[w].fd = call[w].fd
    BY <1>1, <1>3, OtherKept DEF CallSet
  <2>. QED  BY <1>2, <1>4, <2>0, <2>1 DEF Apart
<1>. QED  BY <1>5, <1>6, <1>7 DEF Safe

\* A step of t that leaves alone what thread u refers to.
OthersKept(t) ==
  \A u \in Threads \ {t} :
    /\ call'[u] = call[u] /\ mine'[u] = mine[u]
    /\ \A i \in Held(u) : fd_ofiles'[i] = fd_ofiles[i] /\ mine[u][i] \in filehead'
    /\ Storing(u) => fd_ofiles'[call[u].fd] = fd_ofiles[call[u].fd]
    /\ Busy(u) => /\ call[u].fp \in live'
                  /\ call[u].fp \in filehead => call[u].fp \in filehead'

LEMMA SafeStep ==
  ASSUME Safe, NEW t \in Threads, ~broken', ConsoleOK', OthersKept(t),
         HeldOK(t)', StoringOK(t)', BusyOK(t)', SourceOK(t)',
         \A u \in Threads \ {t} : Apart(t, u)' /\ Apart(u, t)'
  PROVE  Safe'
<1>1. ASSUME NEW u \in Threads, u # t
      PROVE  HeldOK(u)' /\ StoringOK(u)' /\ BusyOK(u)' /\ SourceOK(u)'
  <2>0. HeldOK(u) /\ StoringOK(u) /\ BusyOK(u) /\ SourceOK(u)  BY DEF Safe
  <2>1. call'[u] = call[u] /\ mine'[u] = mine[u]  BY <1>1 DEF OthersKept
  <2>2. (Busy(u)' <=> Busy(u)) /\ (Storing(u)' <=> Storing(u)) /\ Held(u)' = Held(u)
    BY <2>1, OtherKept DEF Held
  <2>3. HeldOK(u)'  BY <1>1, <2>0, <2>1, <2>2 DEF HeldOK, OthersKept
  <2>4. StoringOK(u)'  BY <1>1, <2>0, <2>1, <2>2 DEF StoringOK, OthersKept
  <2>5. BusyOK(u)'  BY <1>1, <2>0, <2>1, <2>2 DEF BusyOK, OthersKept
  <2>6. SourceOK(u)'  BY <2>0, <2>1, <2>2 DEF SourceOK
  <2>. QED  BY <2>3, <2>4, <2>5, <2>6
<1>2. ASSUME NEW u \in Threads, NEW v \in Threads, u # v, u # t, v # t  PROVE Apart(u, v)'
  <2>0. Apart(u, v)  BY <1>2 DEF Safe
  <2>1. \A w \in {u, v} : call'[w] = call[w] /\ mine'[w] = mine[w]  BY <1>2 DEF OthersKept
  <2>2. \A w \in {u, v} : /\ (Busy(w)' <=> Busy(w)) /\ (Storing(w)' <=> Storing(w))
                          /\ Held(w)' = Held(w)
    BY <2>1, OtherKept DEF Held
  <2>. QED  BY <2>0, <2>1, <2>2 DEF Apart
<1>3. \A u, v \in Threads : u # v => Apart(u, v)'  BY <1>2
<1>. QED  BY <1>1, <1>3 DEF Safe

LEMMA InsertSafe ==
  ASSUME Counted, Safe, NEW t \in Threads, Insert(t), ~clash'
  PROVE  Safe'
<1>0. TypeOK /\ HeldOK(t) /\ SourceOK(t) /\ filehead \subseteq live /\ ConsoleOK
  BY DEF Counted, Safe, UnlinkedOK
<1>. DEFINE i == call[t].fd
<1>1. PICK f \in Files \ live :
        /\ live' = live \cup {f} /\ filehead' = filehead \cup {f}
        /\ fd_ofiles' = [fd_ofiles EXCEPT ![i] = f]
        /\ CallSet(t, "opening", i, f, call[t].old, call[t].then)
  BY <1>0, AdvanceCalls
<1>2. call[t].at = "room" /\ fd_ofiles[i] = NULL /\ mine' = mine /\ broken' = broken
  BY DEF Insert, Locked, At, Free
<1>3. i \in FDs /\ f # NULL /\ fd_ofiles'[i] = f
  BY <1>0, <1>1, CallFields, FileDescAssumption DEF TypeOK
<1>4. \A j \in FDs : j # i => fd_ofiles'[j] = fd_ofiles[j]  BY <1>1 DEF Counted, TypeOK
<1>5. \A u \in Threads : Held(u)' = Held(u) /\ i \notin Held(u)
  <2>. TAKE u \in Threads
  <2>1. HeldOK(u) /\ Held(u)' = Held(u)  BY <1>2 DEF Safe, Held
  <2>. QED  BY <1>2, <2>1, FileDescAssumption DEF HeldOK, Held
<1>6. i \notin Std
  BY <1>0, <1>2, <1>3, FileDescAssumption DEF ConsoleOK, TypeOK
<1>7. \A u \in Threads : /\ Storing(u) => call[u].fd # i
                         /\ Busy(u) => call[u].fp # f
                         /\ \A j \in FDs : mine[u][j] # f
  <2>. TAKE u \in Threads
  <2>1. StoringOK(u) /\ BusyOK(u) /\ HeldOK(u)  BY DEF Safe
  <2>2. Storing(u) => call[u].fd # i  BY <1>2, <2>1 DEF StoringOK
  <2>3. Busy(u) => call[u].fp # f  BY <1>1, <2>1 DEF BusyOK
  <2>4. \A j \in FDs : mine[u][j] # f
    BY <1>0, <1>1, <1>3, <2>1 DEF HeldOK, Held
  <2>. QED  BY <2>2, <2>3, <2>4
<1>8. ConsoleOK'  BY <1>0, <1>1, <1>4, <1>6, StdFacts DEF ConsoleOK
<1>9. f \notin ConsoleFiles  BY <1>0, <1>1 DEF ConsoleOK, ConsoleFiles
<1>10. OthersKept(t)
  <2>. SUFFICES ASSUME NEW u \in Threads \ {t}
                PROVE  /\ call'[u] = call[u] /\ mine'[u] = mine[u]
                       /\ \A j \in Held(u) : fd_ofiles'[j] = fd_ofiles[j] /\ mine[u][j] \in filehead'
                       /\ Storing(u) => fd_ofiles'[call[u].fd] = fd_ofiles[call[u].fd]
                       /\ Busy(u) => /\ call[u].fp \in live'
                                     /\ call[u].fp \in filehead => call[u].fp \in filehead'
    BY DEF OthersKept
  <2>1. HeldOK(u) /\ BusyOK(u) /\ call[u].fd \in FDs  BY <1>0, CallFields DEF Safe
  <2>2. call'[u] = call[u] /\ mine'[u] = mine[u]  BY <1>1, <1>2 DEF CallSet
  <2>3. \A j \in Held(u) : fd_ofiles'[j] = fd_ofiles[j] /\ mine[u][j] \in filehead'
    BY <1>1, <1>4, <1>5, <2>1 DEF HeldOK, Held
  <2>4. Storing(u) => fd_ofiles'[call[u].fd] = fd_ofiles[call[u].fd]
    BY <1>4, <1>7, <2>1
  <2>5. Busy(u) => /\ call[u].fp \in live'
                   /\ call[u].fp \in filehead => call[u].fp \in filehead'
    BY <1>1, <2>1 DEF BusyOK
  <2>. QED  BY <2>2, <2>3, <2>4, <2>5
<1>11. call'[t].at = "opening" /\ call'[t].fd = i /\ call'[t].fp = f
       /\ call'[t].then = "idle"
  BY <1>0, <1>1, <1>2 DEF CallSet, SourceOK
<1>12. HeldOK(t)'  BY <1>0, <1>1, <1>2, <1>4, <1>5 DEF HeldOK, Held
<1>13. StoringOK(t)'  BY <1>3, <1>5, <1>6, <1>11 DEF StoringOK
<1>14. BusyOK(t)'  BY <1>1, <1>2, <1>7, <1>9, <1>11 DEF BusyOK
<1>15. SourceOK(t)'  BY <1>11 DEF SourceOK
<1>16. ASSUME NEW u \in Threads \ {t}  PROVE Apart(t, u)' /\ Apart(u, t)'
  <2>0. Apart(t, u) /\ Apart(u, t)  BY DEF Safe
  <2>1. call'[u] = call[u] /\ mine' = mine  BY <1>2, <1>10 DEF OthersKept
  <2>2. (Busy(u)' <=> Busy(u)) /\ (Storing(u)' <=> Storing(u))  BY <2>1, OtherKept
  <2>3. Apart(t, u)'  BY <1>5, <1>7, <1>11, <2>0, <2>1, <2>2 DEF Apart
  <2>4. Apart(u, t)'  BY <1>5, <1>7, <1>11, <2>0, <2>1, <2>2 DEF Apart
  <2>. QED  BY <2>3, <2>4
<1>. QED  BY <1>2, <1>8, <1>10, <1>12, <1>13, <1>14, <1>15, <1>16, SafeStep DEF Safe

MineSet(t, i, f) == mine' = [mine EXCEPT ![t][i] = f]

LEMMA MineAt ==
  ASSUME TypeOK, NEW t \in Threads, NEW i \in FDs, NEW f \in Files \cup {NULL},
         MineSet(t, i, f)
  PROVE  /\ mine'[t][i] = f
         /\ \A j \in FDs : j # i => mine'[t][j] = mine[t][j]
         /\ \A u \in Threads : u # t => mine'[u] = mine[u] /\ Held(u)' = Held(u)
<1>1. mine \in [Threads -> [FDs -> Files \cup {NULL}]]  BY DEF TypeOK
<1>2. mine'[t] = [mine[t] EXCEPT ![i] = f]  BY <1>1 DEF MineSet
<1>3. mine'[t][i] = f /\ \A j \in FDs : j # i => mine'[t][j] = mine[t][j]
  BY <1>1, <1>2
<1>4. \A u \in Threads : u # t => mine'[u] = mine[u]  BY <1>1 DEF MineSet
<1>5. \A u \in Threads : u # t => Held(u)' = Held(u)  BY <1>4 DEF Held
<1>. QED  BY <1>3, <1>4, <1>5

LEMMA MineGiven ==
  ASSUME TypeOK, NEW t \in Threads, NEW i \in FDs, NEW f \in Files, f # NULL,
         MineSet(t, i, f)
  PROVE  Held(t)' = Held(t) \cup {i}
<1>1. mine'[t][i] = f /\ \A j \in FDs : j # i => mine'[t][j] = mine[t][j]
  BY MineAt
<1>. QED  BY <1>1 DEF Held

LEMMA MineDropped ==
  ASSUME TypeOK, NEW t \in Threads, NEW i \in FDs, MineSet(t, i, NULL)
  PROVE  Held(t)' = Held(t) \ {i}
<1>1. mine'[t][i] = NULL /\ \A j \in FDs : j # i => mine'[t][j] = mine[t][j]
  BY MineAt
<1>. QED  BY <1>1 DEF Held

LEMMA OpenedSafe ==
  ASSUME Counted, Safe, NEW t \in Threads, Opened(t)
  PROVE  Safe'
<1>0. /\ TypeOK /\ HeldOK(t) /\ SourceOK(t) /\ StoringOK(t) /\ BusyOK(t)
      /\ ConsoleOK
  BY DEF Counted, Safe
<1>. DEFINE i == call[t].fd
            f == call[t].fp
<1>1. /\ call[t].at = "opening" /\ mine' = [mine EXCEPT ![t][i] = f]
      /\ UNCHANGED <<fd_ofiles, filehead, live, broken>>
  BY DEF Opened, At, table, history
<1>2. CallSet(t, "idle", 0, NULL, 0, "idle")  BY <1>0, AdvanceCalls
<1>3. i \in FDs /\ f \in Files \cup {NULL}  BY <1>0, CallFields
<1>4. Busy(t) /\ Storing(t)  BY <1>1 DEF Busy, Storing
<1>5. i \notin Std /\ fd_ofiles[i] = f /\ f # NULL /\ f \in filehead
  BY <1>0, <1>1, <1>4 DEF StoringOK, BusyOK
<1>6. /\ mine'[t][i] = f
      /\ \A j \in FDs : j # i => mine'[t][j] = mine[t][j]
      /\ \A u \in Threads : u # t => mine'[u] = mine[u] /\ Held(u)' = Held(u)
      /\ Held(t)' = Held(t) \cup {i}
  <2>1. f \in Files /\ MineSet(t, i, f)  BY <1>1, <1>3, <1>5 DEF MineSet
  <2>2. Held(t)' = Held(t) \cup {i}  BY <1>0, <1>3, <1>5, <2>1, MineGiven
  <2>. QED  BY <1>0, <1>3, <2>1, <2>2, MineAt
<1>. HIDE DEF i, f
<1>7. ~Busy(t)' /\ ~Storing(t)' /\ SourceOK(t)'  BY <1>2, RestFacts
<1>8. ConsoleOK' /\ ~broken'  BY <1>0, <1>1 DEF ConsoleOK, Safe
<1>9. ASSUME NEW u \in Threads \ {t}
      PROVE  /\ call'[u] = call[u] /\ mine'[u] = mine[u]
             /\ \A j \in Held(u) : fd_ofiles'[j] = fd_ofiles[j] /\ mine[u][j] \in filehead'
             /\ Storing(u) => fd_ofiles'[call[u].fd] = fd_ofiles[call[u].fd]
             /\ Busy(u) => /\ call[u].fp \in live'
                           /\ call[u].fp \in filehead => call[u].fp \in filehead'
  <2>1. HeldOK(u) /\ BusyOK(u)  BY DEF Safe
  <2>2. call'[u] = call[u] /\ mine'[u] = mine[u]  BY <1>2, <1>6 DEF CallSet
  <2>3. \A j \in Held(u) : mine[u][j] \in filehead'  BY <1>1, <2>1 DEF HeldOK
  <2>4. Busy(u) => call[u].fp \in live'  BY <1>1, <2>1 DEF BusyOK
  <2>. QED  BY <1>1, <2>2, <2>3, <2>4
<1>10. OthersKept(t)  BY <1>9 DEF OthersKept
<1>11. HeldOK(t)'  BY <1>0, <1>1, <1>5, <1>6 DEF HeldOK, Held
<1>12. StoringOK(t)' /\ BusyOK(t)'  BY <1>7 DEF StoringOK, BusyOK
<1>13. ASSUME NEW u \in Threads \ {t}  PROVE Apart(t, u)' /\ Apart(u, t)'
  <2>0. Apart(t, u) /\ Apart(u, t)  BY DEF Safe
  <2>1. call'[u] = call[u]  BY <1>10 DEF OthersKept
  <2>2. (Busy(u)' <=> Busy(u)) /\ (Storing(u)' <=> Storing(u))  BY <2>1, OtherKept
  <2>3. /\ i \notin Held(u)
        /\ Storing(u) => call[u].fd # i
        /\ Busy(u) => call[u].fp # f
    BY <1>4, <2>0 DEF Apart, i, f
  <2>4. Apart(t, u)'  BY <1>6, <1>7, <2>0, <2>3 DEF Apart
  <2>5. Apart(u, t)'  BY <1>6, <1>7, <2>0, <2>1, <2>2, <2>3 DEF Apart
  <2>. QED  BY <2>4, <2>5
<1>. QED  BY <1>7, <1>8, <1>10, <1>11, <1>12, <1>13, SafeStep

LEMMA ClearSafe ==
  ASSUME Counted, Safe, NEW t \in Threads, Clear(t)
  PROVE  Safe'
<1>0. TypeOK /\ HeldOK(t) /\ SourceOK(t) /\ StoringOK(t) /\ ConsoleOK
  BY DEF Counted, Safe
<1>. DEFINE i == call[t].fd
<1>1. /\ call[t].at = "clear" /\ fd_ofiles' = [fd_ofiles EXCEPT ![i] = NULL]
      /\ UNCHANGED <<mine, filehead, live, broken>>
  BY DEF Clear, At
<1>2. CallSet(t, "idle", 0, NULL, 0, "idle")  BY <1>0, AdvanceCalls
<1>3. Storing(t) /\ i \in FDs  BY <1>0, <1>1, CallFields DEF Storing
<1>4. i \notin Std /\ i \notin Held(t)  BY <1>0, <1>3 DEF StoringOK
<1>5. \A j \in FDs : j # i => fd_ofiles'[j] = fd_ofiles[j]  BY <1>0, <1>1 DEF TypeOK
<1>. HIDE DEF i
<1>6. ~Busy(t)' /\ ~Storing(t)' /\ SourceOK(t)'  BY <1>2, RestFacts
<1>7. ConsoleOK' /\ ~broken'  BY <1>0, <1>1, <1>4, <1>5, StdFacts DEF ConsoleOK, Safe
<1>8. \A u \in Threads : Held(u)' = Held(u)  BY <1>1 DEF Held
<1>9. ASSUME NEW u \in Threads \ {t}
      PROVE  /\ call'[u] = call[u] /\ mine'[u] = mine[u]
             /\ \A j \in Held(u) : fd_ofiles'[j] = fd_ofiles[j] /\ mine[u][j] \in filehead'
             /\ Storing(u) => fd_ofiles'[call[u].fd] = fd_ofiles[call[u].fd]
             /\ Busy(u) => /\ call[u].fp \in live'
                           /\ call[u].fp \in filehead => call[u].fp \in filehead'
  <2>1. HeldOK(u) /\ BusyOK(u) /\ Apart(t, u) /\ Apart(u, t) /\ call[u].fd \in FDs
    BY <1>0, CallFields DEF Safe
  <2>2. call'[u] = call[u] /\ mine'[u] = mine[u]  BY <1>1, <1>2 DEF CallSet
  <2>3. i \notin Held(u) /\ (Storing(u) => call[u].fd # i)
    BY <1>3, <2>1 DEF Apart, i
  <2>4. \A j \in Held(u) : fd_ofiles'[j] = fd_ofiles[j] /\ mine[u][j] \in filehead'
    BY <1>1, <1>5, <2>1, <2>3 DEF HeldOK, Held
  <2>5. Storing(u) => fd_ofiles'[call[u].fd] = fd_ofiles[call[u].fd]
    BY <1>5, <2>1, <2>3
  <2>6. Busy(u) => call[u].fp \in live'  BY <1>1, <2>1 DEF BusyOK
  <2>. QED  BY <1>1, <2>2, <2>4, <2>5, <2>6
<1>10. OthersKept(t)  BY <1>9 DEF OthersKept
<1>11. HeldOK(t)'  BY <1>0, <1>1, <1>4, <1>5, <1>8 DEF HeldOK, Held
<1>12. StoringOK(t)' /\ BusyOK(t)'  BY <1>6 DEF StoringOK, BusyOK
<1>13. ASSUME NEW u \in Threads \ {t}  PROVE Apart(t, u)' /\ Apart(u, t)'
  <2>0. Apart(t, u) /\ Apart(u, t)  BY DEF Safe
  <2>1. call'[u] = call[u]  BY <1>10 DEF OthersKept
  <2>2. (Busy(u)' <=> Busy(u)) /\ (Storing(u)' <=> Storing(u))  BY <2>1, OtherKept
  <2>3. Apart(t, u)'  BY <1>6, <1>8, <2>0 DEF Apart
  <2>4. Apart(u, t)'  BY <1>1, <1>6, <1>8, <2>0, <2>1, <2>2 DEF Apart
  <2>. QED  BY <2>3, <2>4
<1>. QED  BY <1>6, <1>7, <1>10, <1>11, <1>12, <1>13, SafeStep

LEMMA FreeFileSafe ==
  ASSUME Counted, Safe, NEW t \in Threads, FreeFile(t)
  PROVE  Safe'
<1>0. TypeOK /\ HeldOK(t) /\ SourceOK(t) /\ StoringOK(t) /\ BusyOK(t) /\ ConsoleOK
      /\ UnlinkedOK
  BY DEF Counted, Safe
<1>. DEFINE f == call[t].fp
<1>1. /\ call[t].at = "free" /\ live' = live \ {f}
      /\ UNCHANGED <<fd_ofiles, mine, filehead, broken>>
  BY DEF FreeFile, At, history
<1>2. \A u \in Threads : u # t => call'[u] = call[u]
  BY <1>0, AdvanceCalls DEF CallSet
<1>3. Busy(t)  BY <1>1 DEF Busy
<1>4. \A u \in Threads : Held(u)' = Held(u)  BY <1>1 DEF Held
<1>5. ConsoleOK' /\ ~broken'  BY <1>0, <1>1 DEF ConsoleOK, Safe
<1>6. ~Busy(t)' /\ SourceOK(t)' /\ StoringOK(t)'
      /\ (Storing(t)' => Storing(t) /\ call'[t].fd = call[t].fd)
  <2>1. CASE CallSet(t, "idle", 0, NULL, 0, "idle")
    BY <2>1, RestFacts DEF StoringOK
  <2>2. CASE /\ call[t].then # "idle"
             /\ CallSet(t, call[t].then, call[t].fd, call[t].fp, call[t].old, call[t].then)
    <3>1. call[t].then \in {"clear", "finish"}  BY <1>0, <2>2, CallFields
    <3>2. Storing(t)  BY <1>3, <2>2 DEF Storing
    <3>3. /\ call'[t].at = call[t].then /\ call'[t].fd = call[t].fd
          /\ call'[t].fp = call[t].fp /\ call'[t].old = call[t].old
          /\ call'[t].then = call[t].then
      BY <2>2 DEF CallSet
    <3>4. ~Busy(t)'  BY <3>1, <3>3 DEF Busy
    <3>5. StoringOK(t)'  BY <1>0, <1>1, <1>4, <3>2, <3>3 DEF StoringOK
    <3>6. SourceOK(t)'  BY <1>0, <1>3, <1>4, <3>1, <3>3, <3>4 DEF SourceOK
    <3>. QED  BY <3>2, <3>3, <3>4, <3>5, <3>6
  <2>. QED  BY <1>0, <2>1, <2>2, AdvanceCalls
<1>7. ASSUME NEW u \in Threads \ {t}
      PROVE  /\ call'[u] = call[u] /\ mine'[u] = mine[u]
             /\ \A j \in Held(u) : fd_ofiles'[j] = fd_ofiles[j] /\ mine[u][j] \in filehead'
             /\ Storing(u) => fd_ofiles'[call[u].fd] = fd_ofiles[call[u].fd]
             /\ Busy(u) => /\ call[u].fp \in live'
                           /\ call[u].fp \in filehead => call[u].fp \in filehead'
  <2>1. HeldOK(u) /\ BusyOK(u) /\ Apart(t, u)  BY DEF Safe
  <2>2. call'[u] = call[u] /\ mine'[u] = mine[u]  BY <1>1, <1>2
  <2>3. \A j \in Held(u) : mine[u][j] \in filehead'  BY <1>1, <2>1 DEF HeldOK
  <2>4. Busy(u) => call[u].fp \in live'  BY <1>1, <1>3, <2>1 DEF BusyOK, Apart
  <2>. QED  BY <1>1, <2>2, <2>3, <2>4
<1>8. OthersKept(t)  BY <1>7 DEF OthersKept
<1>9. HeldOK(t)'  BY <1>0, <1>1, <1>4 DEF HeldOK
<1>10. BusyOK(t)'  BY <1>6 DEF BusyOK
<1>11. ASSUME NEW u \in Threads \ {t}  PROVE Apart(t, u)' /\ Apart(u, t)'
  <2>0. Apart(t, u) /\ Apart(u, t)  BY DEF Safe
  <2>1. call'[u] = call[u]  BY <1>2
  <2>2. (Busy(u)' <=> Busy(u)) /\ (Storing(u)' <=> Storing(u))  BY <2>1, OtherKept
  <2>3. Apart(t, u)'  BY <1>4, <1>6, <2>0, <2>1, <2>2 DEF Apart
  <2>4. Apart(u, t)'  BY <1>1, <1>4, <1>6, <2>0, <2>1, <2>2 DEF Apart
  <2>. QED  BY <2>3, <2>4
<1>. QED  BY <1>5, <1>6, <1>8, <1>9, <1>10, <1>11, SafeStep

\* close and dup2 give a descriptor's file to closef: its only reference, without a clash.
LEMMA GiveUp ==
  ASSUME Counted, Safe, NEW t \in Threads, NEW i \in Held(t),
         mine' = [mine EXCEPT ![t][i] = NULL],
         UNCHANGED <<filehead, live, broken>>,
         ~Elsewhere(i, fd_ofiles[i]),
         \A j \in FDs : j # i => fd_ofiles'[j] = fd_ofiles[j],
         call[t].at \in {"idle", "reread"},
         NEW h \in {"idle", "finish"},
         CallSet(t, "close", i, fd_ofiles[i], call[t].old, h),
         h = "finish" => /\ fd_ofiles' = fd_ofiles /\ call[t].at = "reread"
                         /\ call[t].fd = i
  PROVE  Safe'
<1>0. TypeOK /\ HeldOK(t) /\ SourceOK(t) /\ ConsoleOK /\ filehead \subseteq live
  BY DEF Counted, Safe, UnlinkedOK
<1>. DEFINE f == fd_ofiles[i]
<1>1. /\ i \in FDs /\ i \notin Std /\ f = mine[t][i] /\ f \in filehead /\ f # NULL
  BY <1>0 DEF HeldOK, Held
<1>2. /\ mine'[t][i] = NULL
      /\ \A j \in FDs : j # i => mine'[t][j] = mine[t][j]
      /\ \A u \in Threads : u # t => mine'[u] = mine[u] /\ Held(u)' = Held(u)
      /\ Held(t)' = Held(t) \ {i}
  <2>1. MineSet(t, i, NULL)  BY DEF MineSet
  <2>2. Held(t)' = Held(t) \ {i}  BY <1>0, <1>1, <2>1, MineDropped
  <2>. QED  BY <1>0, <1>1, <2>1, <2>2, MineAt
<1>3. \A j \in FDs \ {i} : fd_ofiles[j] # f  BY DEF Elsewhere
<1>4. /\ call'[t].at = "close" /\ call'[t].fd = i /\ call'[t].fp = f
      /\ call'[t].old = call[t].old /\ call'[t].then = h
      /\ \A u \in Threads : u # t => call'[u] = call[u]
  BY DEF CallSet
<1>. HIDE DEF f
<1>5. Busy(t)' /\ (Storing(t)' => h = "finish")  BY <1>4 DEF Busy, Storing
<1>6. ConsoleOK' /\ ~broken'  BY <1>0, <1>1, StdFacts DEF ConsoleOK, Safe
<1>7. ASSUME NEW u \in Threads \ {t}
      PROVE  /\ i \notin Held(u)
             /\ Storing(u) => call[u].fd # i
             /\ Busy(u) => call[u].fp # f
             /\ \A j \in FDs : mine[u][j] # f
  <2>1. Apart(t, u) /\ Apart(u, t) /\ HeldOK(u)  BY DEF Safe
  <2>2. i \notin Held(u) /\ (Storing(u) => call[u].fd # i)  BY <2>1 DEF Apart
  <2>3. Busy(u) => call[u].fp # f  BY <1>1, <2>1 DEF Apart
  <2>4. \A j \in FDs : mine[u][j] # f  BY <1>1, <1>3, <2>1, <2>2 DEF HeldOK, Held
  <2>. QED  BY <2>2, <2>3, <2>4
<1>8. ASSUME NEW u \in Threads \ {t}
      PROVE  /\ call'[u] = call[u] /\ mine'[u] = mine[u]
             /\ \A j \in Held(u) : fd_ofiles'[j] = fd_ofiles[j] /\ mine[u][j] \in filehead'
             /\ Storing(u) => fd_ofiles'[call[u].fd] = fd_ofiles[call[u].fd]
             /\ Busy(u) => /\ call[u].fp \in live'
                           /\ call[u].fp \in filehead => call[u].fp \in filehead'
  <2>1. HeldOK(u) /\ BusyOK(u) /\ call[u].fd \in FDs  BY <1>0, CallFields DEF Safe
  <2>2. call'[u] = call[u] /\ mine'[u] = mine[u]  BY <1>2, <1>4
  <2>3. \A j \in Held(u) : fd_ofiles'[j] = fd_ofiles[j] /\ mine[u][j] \in filehead'
    BY <1>7, <2>1 DEF HeldOK, Held
  <2>4. Storing(u) => fd_ofiles'[call[u].fd] = fd_ofiles[call[u].fd]  BY <1>7, <2>1
  <2>5. Busy(u) => call[u].fp \in live'  BY <2>1 DEF BusyOK
  <2>. QED  BY <2>2, <2>3, <2>4, <2>5
<1>9. OthersKept(t)  BY <1>8 DEF OthersKept
<1>10. HeldOK(t)'
  <2>1. \A j \in Held(t) \ {i} : j \notin Std /\ fd_ofiles'[j] = mine'[t][j]
                                  /\ mine'[t][j] \in filehead'
    BY <1>0, <1>2 DEF HeldOK, Held
  <2>. QED  BY <1>2, <2>1 DEF HeldOK
<1>11. StoringOK(t)'
  <2>. SUFFICES ASSUME h = "finish"
                PROVE  /\ call'[t].fd \notin Std /\ call'[t].fd \notin Held(t)'
                       /\ fd_ofiles'[call'[t].fd] = call'[t].fp /\ call'[t].fp # NULL
    BY <1>5 DEF StoringOK
  <2>. QED  BY <1>1, <1>2, <1>4 DEF f
<1>12. BusyOK(t)'
  <2>1. f \notin ConsoleFiles
    BY <1>0, <1>1, <1>3, StdFacts DEF ConsoleOK, ConsoleFiles
  <2>2. \A j \in FDs : mine'[t][j] # f
    BY <1>0, <1>1, <1>2, <1>3 DEF HeldOK, Held
  <2>. QED  BY <1>0, <1>1, <1>4, <2>1, <2>2 DEF BusyOK
<1>13. SourceOK(t)'
  <2>1. h = "finish" => call[t].old \in Held(t)' \cup Std
    BY <1>0, <1>2 DEF SourceOK
  <2>. QED  BY <1>4, <2>1 DEF SourceOK
<1>14. ASSUME NEW u \in Threads \ {t}  PROVE Apart(t, u)' /\ Apart(u, t)'
  <2>0. Apart(t, u) /\ Apart(u, t)  BY DEF Safe
  <2>1. call'[u] = call[u]  BY <1>4
  <2>2. (Busy(u)' <=> Busy(u)) /\ (Storing(u)' <=> Storing(u))  BY <2>1, OtherKept
  <2>3. Apart(t, u)'  BY <1>2, <1>4, <1>7, <2>0, <2>1, <2>2 DEF Apart
  <2>4. Busy(u)' => \A j \in FDs : mine'[t][j] # call'[u].fp
    <3>1. SUFFICES ASSUME Busy(u), NEW j \in FDs  PROVE mine'[t][j] # call[u].fp
      BY <2>1, <2>2
    <3>2. mine[t][j] # call[u].fp /\ call[u].fp \in live  BY <2>0, <3>1 DEF Apart, Safe, BusyOK
    <3>3. call[u].fp # NULL  BY <1>0, <3>2, FileDescAssumption DEF TypeOK
    <3>. QED  BY <1>2, <3>2, <3>3
  <2>5. Apart(u, t)'  BY <1>2, <1>4, <1>7, <2>0, <2>1, <2>2, <2>4 DEF Apart
  <2>. QED  BY <2>3, <2>5
<1>. QED  BY <1>6, <1>9, <1>10, <1>11, <1>12, <1>13, <1>14, SafeStep

LEMMA CloseSafe ==
  ASSUME Counted, Safe, NEW t \in Threads, Close(t), ~clash'
  PROVE  Safe'
<1>0. TypeOK /\ HeldOK(t)  BY DEF Counted, Safe
<1>1. PICK i \in Held(t) :
        /\ mine' = [mine EXCEPT ![t][i] = NULL]
        /\ UNCHANGED <<fd_mtx, nfiles, filehead, live, broken, dropped>>
        /\ \/ Free(i) /\ UNCHANGED <<fd_ofiles, fd_freefile, call, clash>>
           \/ /\ ~Free(i)
              /\ fd_ofiles' = [fd_ofiles EXCEPT ![i] = NULL]
              /\ fd_freefile' = IF i < fd_freefile THEN i ELSE fd_freefile
              /\ CallSet(t, "close", i, fd_ofiles[i], call[t].old, "idle")
              /\ clash' = (clash \/ Elsewhere(i, fd_ofiles[i]))
  BY <1>0, CloseFacts
<1>2. ~Free(i)  BY <1>0 DEF HeldOK, Held, Free
<1>3. \A j \in FDs : j # i => fd_ofiles'[j] = fd_ofiles[j]
  BY <1>0, <1>1, <1>2 DEF TypeOK
<1>4. ~Elsewhere(i, fd_ofiles[i])  BY <1>1, <1>2
<1>5. call[t].at = "idle"  BY DEF Close, Locked, At
<1>. QED  BY <1>1, <1>2, <1>3, <1>4, <1>5, GiveUp

LEMMA Dup2CloseSafe ==
  ASSUME Counted, Safe, NEW t \in Threads, Dup2Close(t), ~clash'
  PROVE  Safe'
<1>0. TypeOK /\ SourceOK(t) /\ call[t].fd \in FDs  BY CallFields DEF Counted, Safe
<1>1. call[t].at = "reread"  BY DEF Dup2Close, At
<1>2. UNCHANGED <<fd_ofiles, filehead, live, broken>>  BY <1>0, Dup2CloseFacts
<1>3. CASE /\ CallSet(t, "finish", call[t].fd, call[t].fp, call[t].old, call[t].then)
           /\ UNCHANGED <<mine, clash>>
  <2>1. ~Busy(t)' /\ ~Storing(t)'
    BY <1>0, <1>1, <1>3 DEF CallSet, Busy, Storing, SourceOK
  <2>2. Held(t)' = Held(t)  BY <1>3 DEF Held
  <2>3. SourceOK(t)'  BY <1>0, <1>1, <1>3, <2>1, <2>2 DEF CallSet, SourceOK
  <2>. QED  BY <1>2, <1>3, <2>1, <2>3, CallStep DEF CallSet
<1>4. ASSUME NEW i \in FDs, i = call[t].fd, fd_ofiles[i] # NULL,
             CallSet(t, "close", i, fd_ofiles[i], call[t].old, "finish"),
             mine' = [mine EXCEPT ![t][i] = NULL],
             clash' = (clash \/ Elsewhere(i, fd_ofiles[i]) \/ mine[t][i] # fd_ofiles[i])
      PROVE  Safe'
  <2>1. i \in Held(t) /\ ~Elsewhere(i, fd_ofiles[i])  BY <1>4 DEF Held
  <2>. QED  BY <1>1, <1>2, <1>4, <2>1, GiveUp
<1>. QED  BY <1>0, <1>3, <1>4, Dup2CloseFacts

LEMMA FinishDupSafe ==
  ASSUME Counted, Safe, NEW t \in Threads, FinishDup(t), ~clash'
  PROVE  Safe'
<1>0. TypeOK /\ HeldOK(t) /\ SourceOK(t) /\ StoringOK(t) /\ ConsoleOK
      /\ filehead \subseteq live
  BY DEF Counted, Safe, UnlinkedOK
<1>1. call[t].at = "finish"  BY DEF FinishDup, Locked, At
<1>2. PICK o \in Held(t) \cup Std : o = call[t].old  BY <1>0, <1>1 DEF SourceOK
<1>3. PICK f : /\ f = fd_ofiles[o] /\ f \in filehead /\ f \in Files
               /\ f \in ConsoleFiles \/ \E j \in Held(t) : f = mine[t][j]
  <2>1. fd_ofiles[o] \in filehead
    BY <1>0, <1>2 DEF HeldOK, ConsoleOK
  <2>2. fd_ofiles[o] \in ConsoleFiles \/ \E j \in Held(t) : fd_ofiles[o] = mine[t][j]
    BY <1>0, <1>2 DEF HeldOK, ConsoleOK, ConsoleFiles
  <2>. QED  BY <1>0, <2>1, <2>2 DEF TypeOK
<1>4. PICK i \in FDs : i = call[t].fd  BY <1>0, CallFields
<1>5. /\ fd_ofiles' = [fd_ofiles EXCEPT ![i] = f]
      /\ clash' = (clash \/ ~(Free(i) \/ fd_ofiles[i] = call[t].fp))
      /\ mine' = [mine EXCEPT ![t][i] = f]
      /\ CallSet(t, "idle", 0, NULL, 0, "idle")
      /\ UNCHANGED <<filehead, live, broken>>
  BY <1>0, <1>2, <1>3, <1>4, FinishDupFacts
<1>6. f # NULL  BY <1>3, FileDescAssumption
<1>7. /\ mine'[t][i] = f
      /\ \A j \in FDs : j # i => mine'[t][j] = mine[t][j]
      /\ \A u \in Threads : u # t => mine'[u] = mine[u] /\ Held(u)' = Held(u)
      /\ Held(t)' = Held(t) \cup {i}
  <2>1. MineSet(t, i, f)  BY <1>5 DEF MineSet
  <2>2. Held(t)' = Held(t) \cup {i}  BY <1>0, <1>3, <1>6, <2>1, MineGiven
  <2>. QED  BY <1>0, <1>3, <2>1, <2>2, MineAt
<1>8. fd_ofiles'[i] = f /\ \A j \in FDs : j # i => fd_ofiles'[j] = fd_ofiles[j]
  BY <1>0, <1>5 DEF TypeOK
<1>9. Free(i) \/ (Storing(t) /\ fd_ofiles[i] = call[t].fp)
  BY <1>1, <1>4, <1>5 DEF Storing, Free
<1>10. i \notin Std
  BY <1>0, <1>4, <1>9, FileDescAssumption DEF StoringOK, ConsoleOK, TypeOK, Free
<1>11. ASSUME NEW u \in Threads \ {t}
       PROVE  i \notin Held(u) /\ (Storing(u) => call[u].fd # i)
  <2>1. Apart(t, u) /\ HeldOK(u) /\ StoringOK(u)  BY DEF Safe
  <2>2. CASE Free(i)  BY <2>1, <2>2 DEF HeldOK, StoringOK, Held, Free
  <2>3. CASE Storing(t)  BY <1>4, <2>1, <2>3 DEF Apart
  <2>. QED  BY <1>9, <2>2, <2>3
<1>12. ASSUME NEW u \in Threads \ {t}, Busy(u)  PROVE f # call[u].fp
  <2>1. Apart(u, t) /\ BusyOK(u)  BY DEF Safe
  <2>. QED  BY <1>3, <1>12, <2>1 DEF Apart, BusyOK, Held
<1>13. ~Busy(t)' /\ ~Storing(t)' /\ SourceOK(t)'  BY <1>5, RestFacts
<1>14. ConsoleOK' /\ ~broken'  BY <1>0, <1>5, <1>8, <1>10, StdFacts DEF ConsoleOK, Safe
<1>15. ASSUME NEW u \in Threads \ {t}
       PROVE  /\ call'[u] = call[u] /\ mine'[u] = mine[u]
              /\ \A j \in Held(u) : fd_ofiles'[j] = fd_ofiles[j] /\ mine[u][j] \in filehead'
              /\ Storing(u) => fd_ofiles'[call[u].fd] = fd_ofiles[call[u].fd]
              /\ Busy(u) => /\ call[u].fp \in live'
                            /\ call[u].fp \in filehead => call[u].fp \in filehead'
  <2>1. HeldOK(u) /\ BusyOK(u) /\ call[u].fd \in FDs  BY <1>0, CallFields DEF Safe
  <2>2. call'[u] = call[u] /\ mine'[u] = mine[u]  BY <1>5, <1>7 DEF CallSet
  <2>3. \A j \in Held(u) : fd_ofiles'[j] = fd_ofiles[j] /\ mine[u][j] \in filehead'
    BY <1>5, <1>8, <1>11, <2>1 DEF HeldOK, Held
  <2>4. Storing(u) => fd_ofiles'[call[u].fd] = fd_ofiles[call[u].fd]  BY <1>8, <1>11, <2>1
  <2>5. Busy(u) => call[u].fp \in live'  BY <1>5, <2>1 DEF BusyOK
  <2>. QED  BY <1>5, <2>2, <2>3, <2>4, <2>5
<1>16. OthersKept(t)  BY <1>15 DEF OthersKept
<1>17. HeldOK(t)'
  <2>1. \A j \in Held(t) \ {i} : j \notin Std /\ fd_ofiles'[j] = mine'[t][j]
                                  /\ mine'[t][j] \in filehead'
    BY <1>0, <1>5, <1>7, <1>8 DEF HeldOK, Held
  <2>. QED  BY <1>3, <1>5, <1>7, <1>8, <1>10, <2>1 DEF HeldOK
<1>18. StoringOK(t)' /\ BusyOK(t)'  BY <1>13 DEF StoringOK, BusyOK
<1>19. ASSUME NEW u \in Threads \ {t}  PROVE Apart(t, u)' /\ Apart(u, t)'
  <2>0. Apart(t, u) /\ Apart(u, t)  BY DEF Safe
  <2>1. call'[u] = call[u]  BY <1>16 DEF OthersKept
  <2>2. (Busy(u)' <=> Busy(u)) /\ (Storing(u)' <=> Storing(u))  BY <2>1, OtherKept
  <2>3. Apart(t, u)'  BY <1>7, <1>11, <1>13, <2>0 DEF Apart
  <2>4. Apart(u, t)'  BY <1>7, <1>11, <1>12, <1>13, <2>0, <2>1, <2>2 DEF Apart
  <2>. QED  BY <2>3, <2>4
<1>. QED  BY <1>13, <1>14, <1>16, <1>17, <1>18, <1>19, SafeStep

LEMMA NoFreedUse ==
  ASSUME Counted, Safe, NEW t \in Threads
  PROVE  ~UseFreed(t)
<1>0. /\ HeldOK(t) /\ SourceOK(t) /\ BusyOK(t) /\ ConsoleOK /\ filehead \subseteq live
  BY DEF Counted, Safe, UnlinkedOK
<1>1. call[t].at \in {"opening", "close", "free"} => call[t].fp \in live
  BY <1>0 DEF Busy, BusyOK
<1>2. call[t].at = "io" => call[t].fp \in live
  BY <1>0 DEF SourceOK, HeldOK, ConsoleOK, ConsoleFiles
<1>3. call[t].at = "unlink" => call[t].fp \in filehead  BY <1>0 DEF Busy, BusyOK
<1>. QED  BY <1>1, <1>2, <1>3 DEF UseFreed, Locked, At

UnlessClash == clash \/ Safe

LEMMA NextSafe ==
  ASSUME Counted, UnlessClash, [Next]_vars
  PROVE  UnlessClash'
<1>. SUFFICES ASSUME ~clash'  PROVE Safe'
  BY DEF UnlessClash
<1>0. clash => clash'
  <2>1. ASSUME NEW t \in Threads, Start(t), clash  PROVE clash'
    BY <2>1, StdFacts, FdAllocFacts, CloseFacts
       DEF Start, Open, Look, Dup, Dup2, history, Counted
  <2>2. ASSUME NEW t \in Threads, Advance(t), clash  PROVE clash'
    <3>1. CASE DupAlloc(t)
      <4>1. PICK want \in FDs : FdAlloc(t, want, "finish")  BY <3>1 DEF DupAlloc
      <4>. QED  BY <2>2, <4>1, FdAllocFacts DEF Counted
    <3>2. CASE Dup2Close(t) \/ FinishDup(t)
      BY <2>2, <3>2, Dup2CloseFacts, FinishDupFacts DEF Counted
    <3>3. CASE Insert(t) \/ Clear(t) \/ UseFreed(t)
      BY <2>2, <3>3 DEF Insert, Clear, UseFreed
    <3>4. CASE \/ GetNfiles(t) \/ IncNfiles(t) \/ Opened(t) \/ OpenFails(t) \/ FoClose(t)
               \/ Unlink(t) \/ DecNfiles(t) \/ FreeFile(t) \/ Dup2Locked(t) \/ NoMemory(t)
      BY <2>2, <3>4 DEF NoMemory, GetNfiles, IncNfiles, Opened, OpenFails, FoClose, Unlink, DecNfiles,
         FreeFile, Dup2Locked, history
    <3>. QED  BY <2>2, <3>1, <3>2, <3>3, <3>4 DEF Advance
  <2>3. ASSUME NEW t \in Threads, IoDone(t), clash  PROVE clash'
    BY <2>3 DEF IoDone, history
  <2>. QED  BY <2>1, <2>2, <2>3 DEF Next, vars, history
<1>1. Safe  BY <1>0 DEF UnlessClash
<1>2. ASSUME NEW t \in Threads, Start(t)  PROVE Safe'
  <2>1. CASE Open(t)
    <3>1. FdAlloc(t, 0, "slot") /\ 0 \in FDs /\ call[t].at = "idle"
      BY <2>1, StdFacts DEF Open, Locked, At
    <3>. QED  BY <1>1, <3>1, FdAllocSafe
  <2>2. CASE Close(t)  BY <1>1, <2>2, CloseSafe
  <2>3. CASE Look(t) \/ Dup(t) \/ Dup2(t)  BY <1>1, <2>3, QuietSafe
  <2>. QED  BY <1>2, <2>1, <2>2, <2>3 DEF Start
<1>3. ASSUME NEW t \in Threads, Advance(t)  PROVE Safe'
  <2>1. CASE DupAlloc(t)
    <3>1. PICK want \in FDs : FdAlloc(t, want, "finish")  BY <2>1 DEF DupAlloc
    <3>2. call[t].at = "alloc"  BY <2>1 DEF DupAlloc, Locked, At
    <3>. QED  BY <1>1, <3>1, <3>2, FdAllocSafe
  <2>2. CASE GetNfiles(t) \/ IncNfiles(t) \/ OpenFails(t) \/ FoClose(t) \/ DecNfiles(t)
             \/ Dup2Locked(t) \/ NoMemory(t)
    BY <1>1, <2>2, QuietSafe
  <2>3. CASE Insert(t) \/ Opened(t) \/ Clear(t) \/ Unlink(t) \/ FreeFile(t)
    BY <1>1, <2>3, InsertSafe, OpenedSafe, ClearSafe, UnlinkSafe, FreeFileSafe
  <2>4. CASE UseFreed(t) \/ Dup2Close(t) \/ FinishDup(t)
    BY <1>1, <2>4, NoFreedUse, Dup2CloseSafe, FinishDupSafe
  <2>. QED  BY <1>3, <2>1, <2>2, <2>3, <2>4 DEF Advance
<1>4. ASSUME NEW t \in Threads, IoDone(t)  PROVE Safe'
  BY <1>1, <1>4, QuietSafe
<1>5. CASE UNCHANGED vars
  <2>1. UNCHANGED <<fd_ofiles, filehead, live, call, mine, broken>>
    BY <1>5 DEF vars, table, history
  <2>2. \A t \in Threads : /\ (Busy(t)' <=> Busy(t)) /\ (Storing(t)' <=> Storing(t))
                           /\ Held(t)' = Held(t)
    BY <2>1, OtherKept DEF Held
  <2>3. ConsoleOK' /\ ~broken'  BY <1>1, <2>1 DEF Safe, ConsoleOK
  <2>4. ASSUME NEW t \in Threads
        PROVE  HeldOK(t)' /\ StoringOK(t)' /\ BusyOK(t)' /\ SourceOK(t)'
    <3>0. HeldOK(t) /\ StoringOK(t) /\ BusyOK(t) /\ SourceOK(t)  BY <1>1 DEF Safe
    <3>. QED  BY <2>1, <2>2, <3>0 DEF HeldOK, StoringOK, BusyOK, SourceOK
  <2>5. ASSUME NEW t \in Threads, NEW u \in Threads, t # u  PROVE Apart(t, u)'
    <3>0. Apart(t, u)  BY <1>1, <2>5 DEF Safe
    <3>. QED  BY <2>1, <2>2, <3>0 DEF Apart
  <2>. QED  BY <2>3, <2>4, <2>5 DEF Safe
<1>. QED  BY <1>2, <1>3, <1>4, <1>5 DEF Next

(* OwnFile and UseIsSafe: a thread that has lost no descriptor finds its    *)
(* files allocated, listed and in place, and freed memory is used only      *)
(* after a clash - for every number of threads, files and descriptors.      *)
THEOREM FilesAreOwn == Spec => [](OwnFile /\ UseIsSafe)
<1>1. Init => UnlessClash  BY InitSafe DEF UnlessClash
<1>2. Counted /\ UnlessClash => OwnFile /\ UseIsSafe
  <2>. SUFFICES ASSUME Counted, Safe, ~clash  PROVE OwnFile /\ UseIsSafe
    BY DEF UnlessClash, OwnFile, UseIsSafe
  <2>1. filehead \subseteq live /\ ~broken  BY DEF Counted, UnlinkedOK, Safe
  <2>2. \A t \in Threads : HeldOK(t)  BY DEF Safe
  <2>3. OwnFile  BY <2>1, <2>2 DEF OwnFile, HeldOK
  <2>. QED  BY <2>1, <2>3 DEF UseIsSafe
<1>. QED  BY InitCounted, NextCounted, NextSafe, <1>1, <1>2, PTL DEF Spec

----------------------------------------------------------------------------
(* The mutex of the table, where CallsReturn makes its exception.           *)

DupWaits == fd_mtx # NULL => WaitsForItself(fd_mtx)

LEMMA InitDupWaits == Init => DupWaits
BY DEF Init, DupWaits

\* Who waits for fd_mtx and holds it takes no step: no section can be entered.
LEMMA TakenForGood ==
  ASSUME TypeOK, DupWaits, [Next]_vars, fd_mtx # NULL
  PROVE  /\ UNCHANGED <<fd_mtx, fd_freefile, nfiles, filehead>>
         /\ call'[fd_mtx] = call[fd_mtx]
<1>1. fd_mtx \in Threads /\ call[fd_mtx].at = "finish"
  BY DEF TypeOK, DupWaits, WaitsForItself
<1>2. CASE UNCHANGED vars
  BY <1>2 DEF vars, table
<1>3. ASSUME NEW t \in Threads, Start(t) \/ Advance(t) \/ IoDone(t)
      PROVE  /\ UNCHANGED <<fd_mtx, fd_freefile, nfiles, filehead>>
             /\ t # fd_mtx /\ \A u \in Threads : u # t => call'[u] = call[u]
  <2>1. \/ Opened(t) \/ OpenFails(t) \/ Clear(t) \/ FoClose(t) \/ FreeFile(t)
        \/ UseFreed(t) \/ Dup2Close(t) \/ IoDone(t) \/ NoMemory(t)
    BY <1>3 DEF Start, Advance, Open, Close, Look, Dup, Dup2, GetNfiles, IncNfiles, Insert,
                Unlink, DecNfiles, DupAlloc, Dup2Locked, FinishDup, Locked
  <2>2. UNCHANGED <<fd_mtx, fd_freefile, nfiles, filehead>>
    BY <2>1 DEF NoMemory, Opened, OpenFails, Clear, FoClose, FreeFile, UseFreed, Dup2Close, IoDone,
            table
  <2>3. CASE UseFreed(t)
    <3>1. call' = call /\ call[t].at # "finish"
      BY <2>3 DEF UseFreed, Locked, At
    <3>. QED  BY <1>1, <2>2, <3>1
  <2>4. CASE ~UseFreed(t)
    <3>1. call[t].at # "finish"
      BY <2>1, <2>4 DEF NoMemory, Opened, OpenFails, Clear, FoClose, FreeFile, Dup2Close, IoDone, At
    <3>2. \E c : Become(t, c)
      BY <2>1, <2>4 DEF NoMemory, Opened, OpenFails, Clear, FoClose, FreeFile, Dup2Close, IoDone,
                        Return, Goto
    <3>3. \A u \in Threads : u # t => call'[u] = call[u]
      BY <3>2 DEF Become, TypeOK
    <3>. QED  BY <1>1, <2>2, <3>1, <3>3
  <2>. QED  BY <2>3, <2>4
<1>. QED  BY <1>1, <1>2, <1>3 DEF Next

\* Only dup2 takes the mutex and keeps it, and then waits for it.
LEMMA NextDupWaits ==
  ASSUME TypeOK, DupWaits, [Next]_vars
  PROVE  DupWaits'
<1>1. CASE fd_mtx # NULL
  BY <1>1, TakenForGood DEF DupWaits, WaitsForItself
<1>2. CASE fd_mtx = NULL /\ UNCHANGED vars
  BY <1>2 DEF vars, DupWaits
<1>3. ASSUME fd_mtx = NULL, NEW t \in Threads, Start(t) \/ Advance(t) \/ IoDone(t)
      PROVE  DupWaits'
  <2>1. CASE Dup2Locked(t)
    <3>1. fd_mtx' = fd_mtx \/ (fd_mtx' = t /\ Goto(t, "finish"))
      BY <2>1 DEF Dup2Locked
    <3>2. Goto(t, "finish") => call'[t].at = "finish"
      BY GotoFacts, PointFacts DEF CallSet
    <3>. QED  BY <1>3, <3>1, <3>2 DEF DupWaits, WaitsForItself
  <2>2. CASE ~Dup2Locked(t)
    <3>1. fd_mtx' = fd_mtx
      BY <1>3, <2>2
         DEF Start, Advance, Open, Close, Look, Dup, Dup2, GetNfiles, IncNfiles, Insert,
             NoMemory, Opened, OpenFails, Clear, FoClose, Unlink, DecNfiles, FreeFile, UseFreed,
             DupAlloc, Dup2Close, FinishDup, FdAlloc, IoDone
    <3>. QED  BY <1>3, <3>1 DEF DupWaits
  <2>. QED  BY <2>1, <2>2
<1>. QED  BY <1>1, <1>2, <1>3 DEF Next

(* Of all sections only that of a dup2 onto a free descriptor leaves fd_mtx *)
(* taken, and its thread then waits for the mutex it holds: every other     *)
(* call finds the mutex free, whatever error it returns with.               *)
THEOREM MutexIsGivenBack ==
  Spec => [](\A t \in Threads : fd_mtx = t => call[t].at = "finish")
<1>1. Counted /\ DupWaits => \A t \in Threads : fd_mtx = t => call[t].at = "finish"
  BY FileDescAssumption DEF DupWaits, WaitsForItself
<1>2. Counted => TypeOK  BY DEF Counted
<1>. QED  BY InitCounted, NextCounted, InitDupWaits, NextDupWaits, <1>1, <1>2, PTL DEF Spec

(* Once that has happened it is for good: no thread gets the mutex again,   *)
(* and so nothing is listed, counted or looked for any more.                *)
THEOREM DeadMutexStays ==
  Spec => [][fd_mtx # NULL => UNCHANGED <<fd_mtx, fd_freefile, nfiles, filehead>>]_vars
<1>1. Counted /\ DupWaits /\ [Next]_vars =>
        [fd_mtx # NULL => UNCHANGED <<fd_mtx, fd_freefile, nfiles, filehead>>]_vars
  BY TakenForGood DEF Counted
<1>2. Counted => TypeOK  BY DEF Counted
<1>. QED  BY InitCounted, NextCounted, InitDupWaits, NextDupWaits, <1>1, <1>2, PTL DEF Spec

=============================================================================

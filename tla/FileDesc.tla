------------------------------ MODULE FileDesc ------------------------------
(***************************************************************************)
(* The file descriptor table of src/sys/syscalls: open, close, dup, dup2,   *)
(* fcntl(F_DUPFD) and the calls that use an open file.  fd_mtx is a binary  *)
(* semaphore that a thread cannot take twice (mutex.c:36-80).  A call takes *)
(* it for one short section at a time, so what happens between two sections *)
(* of one call is interleaved here with the sections of every other.        *)
(*                                                                         *)
(* A section that takes and gives fd_mtx is one action; the only section    *)
(* that leaves it taken is dup2's, onto a descriptor that is free.          *)
(*                                                                         *)
(* A thread uses a descriptor as a program may: one that a call returned to *)
(* it and that it has not closed, or one of the console's, which the start- *)
(* up opens (console.c:59-69), all threads share and none closes.  f_count  *)
(* is left out: nothing reads it since closef no longer does; so is         *)
(* fd_lastfile, read only by the loop that lowers it, and fd_ofileflags.    *)
(* The list of open files is a set: nobody walks it, and the file it is     *)
(* extended at is the console's, in descriptor 0.                           *)
(***************************************************************************)
EXTENDS Naturals, FiniteSets

CONSTANTS
  Threads,    \* threads that make system calls
  Files,      \* addresses malloc can give a struct file
  NDFILE,     \* descriptors in the table
  Console,    \* the console's files, one for each of the first descriptors
  NULL,       \* an empty descriptor; no thread
  GoOn        \* do threads start calls after a clash? (bounds the state space)

ASSUME FileDescAssumption ==
  /\ NDFILE \in Nat \ {0}
  /\ NULL \notin Files /\ NULL \notin Threads
  /\ \E n \in 1 .. NDFILE : Console \in [0 .. n - 1 -> Files]
  /\ \A i, j \in DOMAIN Console : Console[i] = Console[j] => i = j
  /\ IsFiniteSet(DOMAIN Console)

FDs == 0 .. NDFILE - 1
Std == DOMAIN Console
ConsoleFiles == {Console[i] : i \in Std}

VARIABLES
  fd_mtx,       \* who holds the mutex, or NULL
  fd_ofiles,    \* descriptor -> struct file, or NULL
  fd_freefile,  \* where the search for a free descriptor starts
  nfiles,       \* the count of open files
  filehead,     \* the files on the list of open files
  live,         \* the struct files that are allocated
  call,         \* what each thread is doing
  mine,         \* thread, descriptor -> the file it opened there, or NULL
  broken,       \* history: freed memory was used
  clash,        \* history: a file lost its descriptor to another one
  dropped       \* history: descriptors a failed open left below fd_freefile

table == <<fd_ofiles, fd_freefile, nfiles, filehead, live>>
history == <<broken, clash, dropped>>
vars == <<fd_mtx, table, call, mine, history>>

----------------------------------------------------------------------------
(* Calls.  at: the next section; fd: the descriptor; fp: the file; old: the *)
(* descriptor dup copies; then: what follows closef.                        *)

Points ==
  {"idle", "io",                                         \* read, write, ...
   "slot", "counted", "room", "opening",                 \* open
   "fault",                                              \* no memory for a file
   "close", "unlink", "uncount", "free",                 \* closef
   "clear",                                              \* a failed open
   "alloc", "dup2", "reread", "finish"}                  \* dup, dup2, F_DUPFD

Idle == [at |-> "idle", fd |-> 0, fp |-> NULL, old |-> 0, then |-> "idle"]

Calls == [at : Points, fd : FDs, fp : Files \cup {NULL}, old : FDs,
          then : {"idle", "clear", "finish"}]

Free(i) == fd_ofiles[i] = NULL

\* The slots fdalloc tries, and the one it takes.
Candidates(want) == {i \in FDs : i >= want /\ i >= fd_freefile /\ Free(i)}
FirstFree(want, i) == i \in Candidates(want) /\ \A j \in Candidates(want) : i <= j

\* The descriptors that calls returned to t and that it has not closed.
Held(t) == {i \in FDs : mine[t][i] # NULL}

\* A file that lies in a descriptor other than i.
Elsewhere(i, f) == \E j \in FDs \ {i} : fd_ofiles[j] = f

TypeOK ==
  /\ fd_mtx \in Threads \cup {NULL}
  /\ fd_ofiles \in [FDs -> Files \cup {NULL}]
  /\ fd_freefile \in FDs
  /\ nfiles \in Nat
  /\ filehead \in SUBSET Files /\ live \in SUBSET Files
  /\ call \in [Threads -> Calls]
  /\ mine \in [Threads -> [FDs -> Files \cup {NULL}]]
  /\ broken \in BOOLEAN /\ clash \in BOOLEAN
  /\ dropped \in SUBSET FDs

Init ==
  /\ fd_mtx = NULL
  /\ fd_ofiles = [i \in FDs |-> IF i \in Std THEN Console[i] ELSE NULL]
  /\ fd_freefile = Cardinality(Std) - 1
  /\ nfiles = Cardinality(Std) /\ filehead = ConsoleFiles /\ live = ConsoleFiles
  /\ call = [t \in Threads |-> Idle]
  /\ mine = [t \in Threads |-> [i \in FDs |-> NULL]]
  /\ broken = FALSE /\ clash = FALSE /\ dropped = {}

\* A call wrote to address 0, which stops the program.
Faulted == \E t \in Threads : call[t].at = "fault"

\* Thread t is at point p of a program that is neither corrupted nor stopped.
At(t, p) == ~broken /\ ~Faulted /\ call[t].at = p
Locked(t, p) == At(t, p) /\ fd_mtx = NULL
Become(t, c) == call' = [call EXCEPT ![t] = c]
Goto(t, p) == Become(t, [call[t] EXCEPT !.at = p])
Return(t) == Become(t, Idle)

----------------------------------------------------------------------------
(* open *)

\* fdalloc: finds a free descriptor and gives the mutex back.  Nothing marks
\* the descriptor, which stays NULL until the file is stored in it.
FdAlloc(t, want, next) ==
  \/ /\ \E i \in FDs :
          /\ FirstFree(want, i)
          /\ fd_freefile' = IF want <= fd_freefile THEN i ELSE fd_freefile
          /\ Become(t, [call[t] EXCEPT !.at = next, !.fd = i])
     /\ UNCHANGED <<fd_mtx, fd_ofiles, nfiles, filehead, live, mine, history>>
  \/ /\ Candidates(want) = {}
     /\ Return(t)
     /\ UNCHANGED <<fd_mtx, table, mine, history>>

Open(t) == Locked(t, "idle") /\ FdAlloc(t, 0, "slot")

\* Mutant of GetNfiles: the ENFILE path keeps the mutex.
GetNfilesLocked(t) ==
  /\ Locked(t, "slot")
  /\ \/ nfiles >= NDFILE /\ Return(t) /\ fd_mtx' = t
     \/ nfiles < NDFILE /\ Goto(t, "counted") /\ UNCHANGED fd_mtx
  /\ UNCHANGED <<table, mine, history>>

\* falloc: get_nfiles, and ENFILE when it says the table is full.
GetNfiles(t) ==
  /\ Locked(t, "slot")
  /\ \/ nfiles >= NDFILE /\ Return(t)
     \/ nfiles < NDFILE /\ Goto(t, "counted")
  /\ UNCHANGED <<fd_mtx, table, mine, history>>

IncNfiles(t) ==
  /\ Locked(t, "counted")
  /\ nfiles' = nfiles + 1
  /\ Goto(t, "room")
  /\ UNCHANGED <<fd_mtx, fd_ofiles, fd_freefile, filehead, live, mine, history>>

\* falloc stores a new file, on the list and in the descriptor.
Insert(t) ==
  /\ Locked(t, "room")
  /\ \E f \in Files \ live :
       /\ live' = live \cup {f}
       /\ filehead' = filehead \cup {f}
       /\ fd_ofiles' = [fd_ofiles EXCEPT ![call[t].fd] = f]
       /\ Become(t, [call[t] EXCEPT !.at = "opening", !.fp = f])
  /\ clash' = (clash \/ ~Free(call[t].fd))
  /\ UNCHANGED <<fd_mtx, fd_freefile, nfiles, mine, broken, dropped>>

\* malloc has no room for it: bzero writes to address 0.
NoMemory(t) ==
  /\ At(t, "room")
  /\ Goto(t, "fault")
  /\ UNCHANGED <<fd_mtx, table, mine, history>>

\* normalize_path, devopen and fo_open succeed, or one of them fails.
Opened(t) ==
  /\ At(t, "opening")
  /\ call[t].fp \in live
  /\ mine' = [mine EXCEPT ![t][call[t].fd] = call[t].fp]
  /\ Return(t)
  /\ UNCHANGED <<fd_mtx, table, history>>

OpenFails(t) ==
  /\ At(t, "opening")
  /\ call[t].fp \in live
  /\ Become(t, [call[t] EXCEPT !.at = "close", !.then = "clear"])
  /\ UNCHANGED <<fd_mtx, table, mine, history>>

\* Mutant of Clear: empties the descriptor where the search starts.
ClearFirst(t) ==
  /\ At(t, "clear")
  /\ fd_ofiles' = [fd_ofiles EXCEPT ![fd_freefile] = NULL]
  /\ Return(t)
  /\ UNCHANGED <<fd_mtx, fd_freefile, nfiles, filehead, live, mine, history>>

\* After closef a failed open empties its descriptor, without the mutex and
\* without lowering fd_freefile.
Clear(t) ==
  /\ At(t, "clear")
  /\ fd_ofiles' = [fd_ofiles EXCEPT ![call[t].fd] = NULL]
  /\ dropped' = IF call[t].fd < fd_freefile THEN dropped \cup {call[t].fd}
                ELSE dropped
  /\ Return(t)
  /\ UNCHANGED <<fd_mtx, fd_freefile, nfiles, filehead, live, mine, broken, clash>>

----------------------------------------------------------------------------
(* close, and closef, which frees the file whoever else refers to it *)

\* Mutant of Close: the search for a free descriptor does not start lower.
CloseHigh(t) ==
  /\ Locked(t, "idle")
  /\ \E i \in Held(t) :
       /\ mine' = [mine EXCEPT ![t][i] = NULL]
       /\ ~Free(i)
       /\ fd_ofiles' = [fd_ofiles EXCEPT ![i] = NULL]
       /\ Become(t, [call[t] EXCEPT !.at = "close", !.fd = i,
                                     !.fp = fd_ofiles[i], !.then = "idle"])
       /\ clash' = (clash \/ Elsewhere(i, fd_ofiles[i]))
  /\ UNCHANGED <<fd_mtx, fd_freefile, nfiles, filehead, live, broken, dropped>>

Close(t) ==
  /\ Locked(t, "idle")
  /\ \E i \in Held(t) :
       /\ mine' = [mine EXCEPT ![t][i] = NULL]
       /\ \/ Free(i) /\ UNCHANGED <<table, call, clash>>
          \/ /\ ~Free(i)
             /\ fd_ofiles' = [fd_ofiles EXCEPT ![i] = NULL]
             /\ fd_freefile' = IF i < fd_freefile THEN i ELSE fd_freefile
             /\ Become(t, [call[t] EXCEPT !.at = "close", !.fd = i,
                                           !.fp = fd_ofiles[i], !.then = "idle"])
             /\ clash' = (clash \/ Elsewhere(i, fd_ofiles[i]))
             /\ UNCHANGED <<nfiles, filehead, live>>
  /\ UNCHANGED <<fd_mtx, broken, dropped>>

\* Mutant of FoClose: the device frees the file itself.
FoCloseFrees(t) ==
  /\ At(t, "close")
  /\ call[t].fp \in live
  /\ live' = live \ {call[t].fp}
  /\ Goto(t, "unlink")
  /\ UNCHANGED <<fd_mtx, fd_ofiles, fd_freefile, nfiles, filehead, mine, history>>

\* closef calls fo_close, outside the mutex.
FoClose(t) ==
  /\ At(t, "close")
  /\ call[t].fp \in live
  /\ Goto(t, "unlink")
  /\ UNCHANGED <<fd_mtx, table, mine, history>>

\* ffree: off the list, out of the count, and freed.
Unlink(t) ==
  /\ Locked(t, "unlink")
  /\ call[t].fp \in filehead
  /\ filehead' = filehead \ {call[t].fp}
  /\ Goto(t, "uncount")
  /\ UNCHANGED <<fd_mtx, fd_ofiles, fd_freefile, nfiles, live, mine, history>>

\* Mutant of DecNfiles: the count stays.
DecNfilesNot(t) ==
  /\ Locked(t, "uncount")
  /\ Goto(t, "free")
  /\ UNCHANGED <<fd_mtx, table, mine, history>>

DecNfiles(t) ==
  /\ Locked(t, "uncount")
  /\ nfiles' = nfiles - 1
  /\ Goto(t, "free")
  /\ UNCHANGED <<fd_mtx, fd_ofiles, fd_freefile, filehead, live, mine, history>>

FreeFile(t) ==
  /\ At(t, "free")
  /\ call[t].fp \in live
  /\ live' = live \ {call[t].fp}
  /\ IF call[t].then = "idle" THEN Return(t) ELSE Goto(t, call[t].then)
  /\ UNCHANGED <<fd_mtx, fd_ofiles, fd_freefile, nfiles, filehead, mine, history>>

\* A call goes on with a file that has been freed, or unlinks one twice.
UseFreed(t) ==
  /\ ~broken /\ ~Faulted
  /\ \/ call[t].at \in {"opening", "close", "free", "io"} /\ call[t].fp \notin live
     \/ Locked(t, "unlink") /\ call[t].fp \notin filehead
  /\ broken' = TRUE
  /\ UNCHANGED <<fd_mtx, table, call, mine, clash, dropped>>

----------------------------------------------------------------------------
(* read, write and the other calls that use a file: the file is looked up   *)
(* under the mutex and used without it.                                     *)

Look(t) ==
  /\ Locked(t, "idle")
  /\ \E i \in Held(t) \cup Std :
       /\ ~Free(i)
       /\ Become(t, [call[t] EXCEPT !.at = "io", !.fp = fd_ofiles[i]])
  /\ UNCHANGED <<fd_mtx, table, mine, history>>

IoDone(t) ==
  /\ At(t, "io")
  /\ call[t].fp \in live
  /\ Return(t)
  /\ UNCHANGED <<fd_mtx, table, mine, history>>

----------------------------------------------------------------------------
(* dup, fcntl(F_DUPFD) and dup2 *)

\* dup and F_DUPFD see that the old descriptor is open; fdalloc comes later.
Dup(t) ==
  /\ Locked(t, "idle")
  /\ \E i \in Held(t) \cup Std :
       /\ ~Free(i)
       /\ Become(t, [call[t] EXCEPT !.at = "alloc", !.old = i])
  /\ UNCHANGED <<fd_mtx, table, mine, history>>

\* dup asks for any descriptor, F_DUPFD for one from its argument upwards.
DupAlloc(t) == Locked(t, "alloc") /\ \E want \in FDs : FdAlloc(t, want, "finish")

\* dup2(old, new): new is one of the thread's own descriptors or a free one.
Dup2(t) ==
  /\ Locked(t, "idle")
  /\ \E i \in Held(t) \cup Std : \E new \in FDs \ {i} :
       /\ ~Free(i)
       /\ Free(new) \/ new \in Held(t)
       /\ Become(t, [call[t] EXCEPT !.at = "dup2", !.old = i, !.fd = new])
  /\ UNCHANGED <<fd_mtx, table, mine, history>>

\* Its second section: when new is free, finishdup comes with fd_mtx taken.
Dup2Locked(t) ==
  /\ Locked(t, "dup2")
  /\ IF Free(call[t].fd)
     THEN fd_mtx' = t /\ Goto(t, "finish")
     ELSE fd_mtx' = fd_mtx /\ Goto(t, "reread")
  /\ UNCHANGED <<table, mine, history>>

\* closef(fdp->fd_ofiles[new]), read again without the mutex.
Dup2Close(t) ==
  /\ At(t, "reread")
  /\ LET f == fd_ofiles[call[t].fd] IN
     \/ f = NULL /\ Goto(t, "finish") /\ UNCHANGED <<mine, clash>>
     \/ /\ f # NULL
        /\ Become(t, [call[t] EXCEPT !.at = "close", !.fp = f, !.then = "finish"])
        /\ mine' = [mine EXCEPT ![t][call[t].fd] = NULL]
        /\ clash' = (clash \/ Elsewhere(call[t].fd, f) \/ mine[t][call[t].fd] # f)
  /\ UNCHANGED <<fd_mtx, table, broken, dropped>>

\* finishdup copies whatever the old descriptor now refers to.
FinishDup(t) ==
  /\ Locked(t, "finish")
  /\ LET i == call[t].fd
         f == fd_ofiles[call[t].old] IN
     \/ /\ f \in live
        /\ fd_ofiles' = [fd_ofiles EXCEPT ![i] = f]
        /\ clash' = (clash \/ ~(Free(i) \/ fd_ofiles[i] = call[t].fp))
        /\ mine' = [mine EXCEPT ![t][i] = f]
        /\ Return(t)
        /\ UNCHANGED broken
     \/ /\ f \notin live
        /\ broken' = TRUE
        /\ UNCHANGED <<fd_ofiles, clash, mine, call>>
  /\ UNCHANGED <<fd_mtx, fd_freefile, nfiles, filehead, live, dropped>>

----------------------------------------------------------------------------

Start(t) ==
  /\ GoOn \/ ~clash
  /\ Open(t) \/ Close(t) \/ Look(t) \/ Dup(t) \/ Dup2(t)

Advance(t) ==
  \/ GetNfiles(t) \/ IncNfiles(t) \/ Insert(t) \/ NoMemory(t)
  \/ Opened(t) \/ OpenFails(t) \/ Clear(t)
  \/ FoClose(t) \/ Unlink(t) \/ DecNfiles(t) \/ FreeFile(t) \/ UseFreed(t)
  \/ DupAlloc(t) \/ Dup2Locked(t) \/ Dup2Close(t) \/ FinishDup(t)

Next == \E t \in Threads : Start(t) \/ Advance(t) \/ IoDone(t)

Spec == Init /\ [][Next]_vars

(* The scheduler runs every thread that can run, and device operations      *)
(* other than a read or a write return.  A read may wait for ever.          *)
FairSpec == Spec /\ \A t \in Threads : WF_vars(Advance(t))

----------------------------------------------------------------------------
(* Properties *)

(* A thread that has not lost a descriptor to another one (clash) finds     *)
(* under every descriptor it holds the file that it opened, allocated and   *)
(* on the list of open files: whatever other threads open, close, fail to   *)
(* open or duplicate meanwhile.                                             *)
OwnFile ==
  ~clash =>
    \A t \in Threads : \A i \in Held(t) :
      fd_ofiles[i] = mine[t][i] /\ mine[t][i] \in live /\ mine[t][i] \in filehead

(* Freed memory is used only after a clash: two calls were given one        *)
(* descriptor (fdalloc reserves nothing), or a file was closed while        *)
(* another descriptor referred to it (closef ignores f_count).              *)
UseIsSafe == broken => clash

(* nfiles is the number of open files, in every interleaving: those on the  *)
(* list and those counted before they are on it (or when there was no       *)
(* memory for one) or after they left it.                                   *)
FilesCounted ==
  nfiles = Cardinality(filehead)
             + Cardinality({t \in Threads : call[t].at \in {"room", "fault", "uncount"}})

(* No free descriptor lies below fd_freefile, where fdalloc would not find  *)
(* it again, except those a failed open emptied behind another open.        *)
FreeIsFound ==
  \A i \in FDs : i < fd_freefile /\ Free(i) => i \in dropped

(* Every call returns, except behind a dup2 onto a free descriptor, which   *)
(* waits for the mutex it holds, a read or write that waits for its device, *)
(* and in a program that a failed malloc or freed memory has stopped.       *)
WaitsForItself(t) == fd_mtx = t /\ call[t].at = "finish"

CallsReturn ==
  \A t \in Threads :
    (call[t].at \notin {"idle", "io"}) ~>
      (call[t].at = "idle" \/ broken \/ Faulted \/ \E u \in Threads : WaitsForItself(u))

=============================================================================

# A verification project for LuOS9p

LuOS9p is a small operating system for the ESP8266: FreeRTOS and lwIP below, a Lua
interpreter on top, and in between the code these modules are about: a parameter store
in flash, a thin POSIX layer (threads, mutexes, descriptors, SPIFFS), drivers, an
HTTP/WebSocket server and a 9P (Styx) file server. Almost all of it runs in several
FreeRTOS tasks of one priority, on a device that is switched off without notice. The
TLA+ modules here model the parts whose correctness depends on orders of events that a
test hardly reaches. TLC checks them on small instances; TLAPS proves the results that
do not depend on the instance. `PROJECT.json` maps every definition to its lines.

## The system

| part | state it keeps | operations | what is hard about it |
|---|---|---|---|
| parameter store, `modules/core/sysparam.c` | two flash regions with a header each, a log of entries in each, RAM copies `cur_base`, `end_addr`, `force_compact` | boot, create, set, delete, compact, read, iterate | power cuts between any two flash operations, failing flash operations, renumbering of ids while a set holds one, a full region |
| handle lists, `sys/list/list.c` | an array with a free list threaded through it, a mutex | add, get, remove, first, next, destroy | moves of the array, walks that others interleave with changes, failing `malloc`, handles used after removal |
| threads, `pthread/pthread.c` | `thread_list`, a structure per thread with its gate `init_mtx`, join list, clean list and signal table; a FreeRTOS task each | create, join, stop, suspend, resume, free, signals, cleanup handlers | the structure is freed by the thread itself while others hold pointers to it; the handshake of creation; stopping a task anywhere |
| thread mutexes, conditions, once, keys, `pthread/{mutex,cond,once,key}.c` | `mutex_list`, `key_list`, FreeRTOS semaphores | lock, unlock, trylock, wait, signal, once, get/set | what the end of a thread does to mutexes |
| Lua threads, `Lua/modules/thread.c` | a `lthread` per thread, its status | start, create, stop, suspend, resume, list | the structure is owned by the cleanup handler of the thread, by `thread.stop` and by the creator at once |
| descriptors, `sys/syscalls/{descrip,open,generic}.c` | the table of open files, the count `nfiles`, the position of the search `fd_freefile`, a mutex | open, close, dup, dup2, fcntl, read, write | descriptors found free but not reserved; a mutex that is taken and given several times within a call |
| SPIFFS, mount, terminal, network files, `sys/syscalls/*_ops.c` | lazily created mutexes, SPIFFS handles | open, read, write, ioctl, select | little state of its own |
| UART and console, `sys/drivers/esp8266/uart.c` | receive queue, interrupt mask | init, interrupt, read, raise SIGINT | interrupt against tasks |
| Styx server, `modules/styx/libstyx/styxserver.c`, `modules/styx/luastyx` | the tree of files with reference and open counts, clients and their fids, two generators of qids | the 9P requests, the end of a client | files removed under other fids; clients that vanish; names shared by cloned fids; walking a fid onto itself |
| HTTP and WebSocket servers, `Lua/modules/httpd.inc.c`, `Lua/modules/httpd` | `nc_clients`, `ws_clients` in most-recently-used order, `is_httpd_run`, the Lua stack with a chunk for each script that is being answered | loop or callback, stop, accept, receive, a piece of an answer, upgrade, poll | network errors at every call; a stop from another thread; full tables; answers that interleave on one Lua stack |
| timer loop, `Lua/modules/tloop.c` | a queue of length one, a mutex | start, tick, stop | errors in callbacks with the mutex taken |
| boot loader, `platform/.../rboot.c` | the configuration sector | choose an image, rewrite the sector | power cuts |

Threads, mutexes, keys, join lists and clean lists are all handle lists; Lua threads are
threads with a cleanup handler; the servers are Lua modules that run threads; the drivers
take thread mutexes and raise signals that thread code delivers. Parts that are vendored
(FreeRTOS, lwIP, Lua, SPIFFS, mbed TLS, lpeg, newlib), generated (fonts) or straight-line
register access are not modelled; FreeRTOS appears as the promises its callers use.

For each part, what makes it correct:

- parameter store: a successful set is what a boot finds; a power cut loses at most the
  set in progress; a set is refused only when there is no room; entries that readers see
  are complete;
- handle lists: a handle names one item from `list_add` to `list_remove`; a walk sees what
  stays; the free list is exact;
- threads: a call that returns means what it says (created, joined); a thread finds itself
  on the list; nothing that was freed is used; nobody waits for ever;
- mutexes: one holder, who keeps it until he gives it or ends; none left behind;
- descriptors: what a call opened stays there until it is closed; nothing freed is used; the
  count and the search position stay right;
- Styx server: the counts of a file are those of its fids; the tree stays a tree with names
  of their own among siblings; what is to go when it is closed goes;
- web server: a connection has one owner and is closed once; an answer that was begun ends;
  a script goes on with its own chunk;
- boot loader: there is always an image to boot.

## Modules

| module | models | |
|---|---|---|
| `Sysparam` | `modules/core/sysparam.c` | every flash operation of boot, set, delete and compaction |
| `ParamStore` | | the promise that `Sysparam` is proved to implement |
| `SysparamProofs` | | theorems about `Sysparam`, and that it implements `ParamStore` |
| `SysparamLogProofs` | | theorems about the sizes of its logs, and its values while nothing fails |
| `HandleList` | `sys/list/list.c` | the array and its free list, and readers that walk it |
| `HandleTable` | | the promise that `HandleList` is proved to implement |
| `HandleListProofs` | | theorems about `HandleList` |
| `Pthread` | `pthread/pthread.c`, `pthread/mutex.c` | creation, handshake, end, join, stop, suspend, resume, mutexes |
| `PthreadProofs` | | theorems about `Pthread` |
| `FileDesc` | `sys/syscalls/{descrip,open,generic}.c` | the sections of open, close, dup, dup2 and of calls that use a file |
| `FileDescProofs` | | theorems about `FileDesc` |
| `Styx` | `modules/styx/libstyx/styxserver.c`, `luastyx/lstyx.c`, `luastyx/lstyx_dev.c` | the requests of several clients on one tree |
| `FileTree` | | the promise about the tree that `Styx` is proved to implement |
| `StyxProofs` | | theorems about `Styx` |
| `WebServer` | `Lua/modules/httpd.inc.c`, `Lua/modules/httpd` | the task of the HTTP and WebSocket servers, a piece of work at a time |
| `WebServerProofs` | | theorems about `WebServer` |
| `SetInduction` | | induction over the numbers with sets for predicates, for the loops and sums that `StyxProofs`, `WebServerProofs` and `SysparamLogProofs` reason about |
| `MC...` | | instances for TLC: model values, symmetry, a view |

A definition marked "Mutant of" is a plausible mistake in the code. No specification uses
it; with it in the place of the definition it names, the property that `PROJECT.json`
pairs with it fails.

### Sysparam

One action is one flash operation of the writer, who holds `_sysparam_info.sem`; what the
writer reads before it is part of the action, but for a scan that meets a torn header and
changes nothing else (`ScanToEnd`). `header`, `log` and `left` are the flash, `cur` and `force`
the RAM copies, `op` the locals of `sysparam_set_data` and `_compact_params`, `pc`
the operation that comes next. `Plan` is the decision tree of `sysparam_set_data` between
writing, compacting at one of three calls, and refusing.

- `Crash` cuts the power between any two operations and may leave the header being
  written `torn`, with its length still erased: the next scan sees an entry of impossible
  length. Other headers are programmed as a whole; a region header that is half written is
  not modelled.
- Each operation may fail if `Faults` lists it. The code then zeroes an entry header or a
  region header, and that may fail too. A region header is afterwards the old one, zero, or
  the one that was to be written (`FailedHeader`). An entry header that was not zeroed lies at
  `end_addr`, which stays: `left` is what is there, in part, in whole or zeroed. Scans read on
  over it, the next header is written over it and comes out right only if it still has its
  bits (`WriteHeader`, `WriteOverLeft`), and after a power cut it is part of the log. A failed
  payload, valid bit or deletion may or may not have reached the flash.
- The boot is `sysparam_init` with the call of `sysparam_create_area` that
  `app_main.c:241-247` makes when it finds nothing.
- Lengths count flash words, an address is `<<region, position in the log>>`, and
  `end_addr` is the end of the log of the current region.
- Readers hold no semaphore in the code. Here they read between sets only (`Get`).

`ParamStore` says what a set may do to the surviving values: stage the new value, promote
it, drop the old value of the same key, stop anywhere. It also says what the code does not
promise: a value hidden by an interrupted set may resurface.

### HandleList

Every operation holds `list->mutex` throughout and is one action. The walks of
`pthreadTask` and of the signal functions are readers that call `list_first`, `list_get`
and `list_next` with the mutex given in between. A pointer into the array carries the
length of the array it leads into, so one into a replaced array can be told. `Width` is the
range of the `u8_t` counter; the model stops before it wraps. Every list of the firmware
starts its indexes at 1, and every destroyed list has its items freed.

Callers remove only handles that are live, which `list_remove` does not test: a second
removal frees the item again, and nothing holds after it. When `malloc` of the array fails,
`list_add` has counted the entry it did not make; the next array has it, uninitialized
(`Made`, `Listed` and `Freed` tell the entries apart, `NoneFailed` whether it happened).

### Pthread

One action runs from one access to shared data (list, structure, semaphore, queue) to the
next, because tasks of one priority are time-sliced and may alternate anywhere. `task` is
the place of each task in `pthreadTask`, `call` the place of its start routine in a function
of `pthread.c`, `gate` is `init_mtx`. The lists are used as `HandleTable` describes them:
`table` is `thread_list`, a new thread gets any free id, freed ids are used again.
Structures are not: each element of `Threads` stands for one allocation.

- A step that would use a structure or a join list that is gone, or a task field that was
  never stored, is `Stray`: `strayed` becomes true and nothing more is said. That keeps the
  properties about the code and not about what freed memory happens to hold.
- A thread may end at any time, also before its creator has been told of its start.
  `TaskFails`: `xTaskCreate` may run out of memory. `Calls`: what threads call besides
  creating, locking and unlocking.
- `Freeing` is `_pthread_free`: a step for each mutex of the system (`FreeMutex`; `passed` are
  those done), one to look the thread up again, and one each for the join list (`joinable`
  tells whether it is there), the clean list with the gate, and the removal from the list. A
  thread goes through it at its end. It also follows `StopTask`, because the only caller of
  `_pthread_stop` (`thread.stop`) goes on with `_pthread_free` of the same id.
- Unlocking is left to the holder, as FreeRTOS demands of a mutex. The drivers create
  recursive mutexes only (`tty_ops.c`, `spiffs_ops.c`).
- Early returns that change nothing (an id that is not found, no memory for a join
  structure) are left out; so are signals and the data of the cleanup handlers.

### FileDesc

`fd_mtx` is a binary semaphore. A call takes and gives it several times, and each such
section is an action; so is the work in between that changes shared state without it
(`FoClose`, `FreeFile`, `Clear`). `fd_ofiles`, `fd_freefile` and `nfiles` are the code's
variables, `filehead` its list as a set, `live` what `malloc` has given out, `call` the
place of each thread with its locals. `mine` says which file a thread opened where, and is
there to state properties: a program uses and closes what it opened, and the console's
descriptors are everybody's.

- `fdalloc` (`FdAlloc`) finds a free descriptor and marks nothing; when two calls were given
  one descriptor, or a duplicate's file was freed under it, `clash` becomes true. With
  `GoOn = FALSE` no new calls begin after that, which bounds the states; the theorems hold
  with either value.
- A step that uses a freed file is `UseFreed`: `broken` becomes true and nothing follows. So
  does nothing when `malloc` has no room for a file, and `bzero` writes to the null pointer it
  gave (`NoMemory`, `descrip.c:225`).
- Devices either do what they are asked or refuse: `OpenFails` stands for a path, a device
  or a file that is not there.
- `f_count`, `fd_lastfile` and the flags of descriptors are left out: nothing reads them.

### Styx

One task serves all clients, one request after another (`styxprocess`), so a request is one
action and the requests of the clients interleave. `files` is `ftab` with the tree's links
as parents, `fids` the fids of each client, `heap` the names of devices that are allocated,
`nq` and `qidgen` the counters of qids for files of clients and of the server.

- `DevWalk` is `devwalk` over the whole list of names: a name leads up, down, to a device,
  or nowhere. A walk that fails half way leaves the new fid gone and the counts as they were.
- `spoilt` notes what clients did that the server is not made for: cloning a device's fid
  (`"shared"`), walking a fid to its own number (`"selfwalk"`), removing a file under another
  fid (`"removed"`), and a walk that stops the server (`"request"`). Inferno's clients send
  none of these but the third. The model goes on after the first and third and stops after
  the other two.
- `Twstat` reads the name after freeing its buffer: the name of the file becomes the one
  sent or `Mangled`. The test file it adds takes a qid from `qidgen`, and the rename is
  refused while that qid is in use; the first three renames are (`Refused`).
- Permissions are granted, memory does not run out, and contents are left out; the entries
  `fs`, `rpc` and `cgi` of the root are not walked to.

`FileTree` says what may become of the tree: one file comes, goes or changes its name at a
time; a directory goes only when empty; siblings have different names, but for a mangled one.

### WebServer

One task runs `httpd_task`; an action runs from one call of lwIP or Lua to the next, and
`Stop` may come from another thread before each. `run` is `is_httpd_run`, `mode` who calls
the task, `nodes` is `nc_clients` and `ws` is `ws_clients`, `peer` says which netconns are
open and to whom, `stack` is the Lua stack of the task with the connection each chunk
answers, `poll` and `saved` are locals of `ws_task` and `ws_sub_task`.

- Every call of lwIP ends in one of `Outcomes`; `check_conn` and `print_err` set `run` to 4
  in all but the first. Where the code sets it back (`PollAborted`, `ServePiece`), a stop
  that came in between is undone.
- Only the first connection is answered (`Serve`), a piece in each round; websockets are
  polled when none is left (`Websockets`).
- `nc_sock_add` does not write the type of a connection, and `nc_sock_del` closes by it:
  `MayClose` has both outcomes, `lost` the connections that stay open.
- Using a freed node, nil, or the pcb of a connection that its peer has reset, which lwIP
  makes NULL (`httpd.inc.c:399`, `websock.c:335`), is `Wild`: nothing follows. Every upgrade,
  taken or refused, reads the state of the node it has just freed (`httpd.inc.c:482`); that
  harms or does not (`UseFreedNode`).
- `cut`: a script ended while a later one was not done, and took its chunk off the stack.

## What is checked

| run | shows | bounds |
|---|---|---|
| `sysparam_recovery` | the log is sound in both regions at every step; what is mounted is what a boot recovers; a set is refused only when there is no room; the surviving values obey `ParamStore` | 3 keys, 2 ids, 2 sizes of value, a region of 10 words, 1 mishap of any kind |
| `sysparam_undisturbed` | OK means stored, one value per key | 2 keys, 2 ids, 15 words, a value as large as the free space after compaction, no mishaps, no deletions |
| `list_table` | free list exact, walks miss no item that stays, no item lost; `HandleTable` implemented | 3 items, up to 4 entries, a reader, failing `malloc` |
| `pthread_handshake` | locks are kept, and not left behind by a thread that has ended | 3 threads that create each other and end at any time, 3 ids, 1 recursive mutex, depth 2 |
| `pthread_control` | what a returning create or join means; in which cases freed memory is used | 3 threads that join, stop, suspend and resume each other, end at any time, and fail to create; one joiner for each |
| `pthread_live` | creations come back, joiners in time are told | 3 threads that create and join, two joiners for each, fair tasks |
| `file_descriptors` | files stay with who opened them, count and search position right, calls return | 2 threads, 3 descriptors (the console's and two), 4 files, fair threads |
| `styx_server` | counts exact, fids lead to files, names freed once, temporary files go; `FileTree` implemented | 2 clients of 2 fids, 2 fids at once, 2 files created beside the server's 4, walks of up to two names |
| `web_server` | one owner for each connection, answers before websockets, scripts and polls keep to their own | 4 netconns, 3 peers, 2 connections and 2 websockets at once, answers of up to 2 pieces |
| `web_server_live` | a connection that asked with a GET is closed in the end or becomes a websocket, the loop recovers | 3 netconns, 1 peer, answers of up to 3 pieces, a fair task |

Why the bounds are enough. Parameter store: two keys and two sizes are what it takes for
one key's set to move, renumber or crowd out another's, and a third key for the two ids to
run out; the regions hold two complete pairs and one more entry, so that every branch of
`Plan` is taken, and every run of sets goes through many compactions in both directions. One
mishap reaches every intermediate state, and the boot after it restores the invariant that a
second one would start from. A power cut behind a failed write that left something at
`end_addr` is a second one: that and any number of mishaps are left to the theorems. Lists:
three items exercise a free list with a middle. Threads: a creator, a thread that ends and a third that controls or joins it; three
ids let an id be used again; `MaxJoins` and `MaxDepth` bound a join list and a lock depth,
whose further entries behave like the second. Descriptors: two free ones let two threads
hold one each, or race for the first; the theorems hold for any number. Styx: two fids meet
on one file, of one client or of two, and two new files can be parent and child, or siblings
that want one name. Web server: four netconns fill the table of websockets with one to be
added, or the table of connections with a websocket present, the listener counted; pieces
after the first behave like the second.

Deadlock is checked in `sysparam_undisturbed` and the list run. Boots may end without a
store, threads may be suspended, joined or locked out for ever, the Styx
server may stop on a request, and the models stop where memory is corrupted; then nothing is
left to do, and the other runs do not check it. `sysparam_recovery` uses a view that hides
the contents of a stale region, which no action reads. The runs for safety treat as
interchangeable equal keys, equal items, the two later threads, Styx clients and fids, and
peers; runs with liveness use no symmetry.

Fairness: `FairSpec` gives each task weak fairness for the steps its own code takes without
a choice (`Advance`): `configUSE_PREEMPTION` is 1, all these tasks have one priority and
FreeRTOS slices time between them, so a task that stays ready runs. What a start routine
chooses to do (`Choose`) is not fair: a thread may run for ever or never call anything. A
task that waits for a gate or a queue is ready as soon as that is given. In `FileDesc` the
sections of a call that has begun are fair, the beginning of a call and the return of a
device are not. In `WebServer` the task is fair as one: accepting and receiving have
timeouts (`recv_timeout`, `send_timeout`), so each of its calls comes back.

### Where the code and its words differ

Each is a run whose one property fails.

- `sysparam_wrong_id`: a compaction does not renumber the id of a key without a value, and
  the value is written under an id that is not its own.
- `pthread_late_join`: who joins a thread whose walk over its join list has passed waits for
  ever.

Seen while modelling and not a run:

- parameter store: a set that compacts because there are unused keys, and is then refused,
  has dropped the old value of its key (`sysparam.c:881`, `900`); when an interrupted set has
  left a second value of a key, a set may be refused although compacting would make room, in
  spite of the comment at 897, because the surplus value is not counted as compactable and
  hides an unused key (`FullMeansFull` excepts such logs); after a power
  cut between writing the new value and deleting the old one, the next successful set of
  that key is hidden behind the interrupted one (`OkMeansStored` fails with `"power"`); after
  a failure of the second header write of a compaction, successful sets go to a region that
  no boot mounts (`MountedIsRecovered` speaks only of what happens before); a boot that fails
  between its header writes leaves an area that is neither found nor empty, so that it is
  never created.
- lists: after a `list_add` that found no memory, a walk may return a handle that no entry
  has; the test of an index (`Accepted`) admits the position behind the array.
- threads: the failure of `xTaskCreate` frees a structure twice (`CreateTaskFails`); a resume
  that comes before the new thread's own `vTaskSuspend` is lost; `thread.stop` frees the
  structure of a Lua thread twice.
- descriptors: two `open`s may be given one descriptor, and one file is then nobody's; an
  `open` that fails may leave a descriptor that no later `open` finds; `dup2` onto a free
  descriptor waits for the mutex it holds.
- Styx: see `spoilt`; the first renames after the start are refused.
- web server: a connection that sends no `GET` may stay open for ever; in callback mode the
  broken state is not left and each call makes a new listener; `httpd.stop` may be undone.

## What is proved

All theorems hold for every value of the constants that the named assumptions of the
modules admit.

`SysparamProofs`, from `ConstAssumption`:

- `EntriesComplete`: types, and entries that readers accept were written completely, under
  every failure and any number of power cuts. Invariant: types; the set in progress names
  a region and positions that exist; the entry being written is the last of the current log
  and is invalid until its payload is there (`EntriesInv`).
- `StoreRecovered`: until a failed write of a compaction leaves the region in use without a
  header, or the copy with one, the region in use is the one a boot recovers, and there is always
  an active region.
  Invariant `HeadersInv`: except between the two header writes, the current region is active
  and, since the scan meets region 0 first, region 0 is not active when region 1 is current.
  A failed header write touches one header only (`OtherHeader`), a cut appends at most the
  header at `end_addr`, which readers do not accept (`LeftOK` in the types, `CrashLog`).
- `TornIsCompacted`: nothing is appended behind a torn header. Invariant `TornInv`: the RAM
  flag `force` is true whenever the current log ends in one, and the region being compacted
  into has none.
- `KeysStayUnique`: in every region that may be mounted no name has two live keys, ids go up
  from key to key and none passes `MAX_KEY_ID`, whatever fails or is cut short. Invariant
  `KeysInv`: the same of both regions; a compaction gives its n-th key an id no larger than
  it had, and a smaller one once it has dropped a key, and what it has copied comes from keys
  it has passed; the key being written has a new name and the next id. A compaction that is
  started because ids are used up therefore leaves one over: there are fewer values than keys
  then, and values of two keys differ, so some key has none (`UnusedExists`, by counting).
- `StoreKeepsPromise`: every step of `Sysparam` is a step of `ParamStore` or a stutter, until
  a value is written under the id of another key or a failed write leaves the region in use
  without a header or its copy with one (`spoilt`; all happen, and nothing is promised after
  that). So a set or a delete, and
  a power cut or an error in the middle of it, never change what readers of another name get.
  What they get is what a boot would find now (`Durable`): a new value shows, or is hidden
  behind the old one, with the write that makes its entry valid, the old one goes with its
  deletion, and all that a compaction does shows with one header write. Invariant: `EntriesInv`,
  `HeadersInv` and `KeysInv`, and `SetInv` about the set in progress. The value
  that it will delete is the one readers get for its name (`OldFirst`, `OldKnown`, `OldGoes`);
  the id it writes under is that of its name, unless `spoilt` says otherwise (`OwnKey`, `OwnAhead`);
  and what a compaction has copied has, for each other name, the value that readers get
  (`CarriedOK`). Each step is one lemma: `StoreBoot`, `StoreBegin`, `StoreCompact`,
  `StoreWrite`, `StoreCrash`. The assumption that `Missing` is no name and no value is made
  for this theorem and the next.
- `ReadersAreSafe`, drawn from the same lemma about steps (`StoreStep`): until then what readers
  of a name get changes only in steps of a set of that name, and becomes the new value, one
  that was hidden behind the old, or none.

`SysparamLogProofs`, on top of these:

- `LogsFit`: no log runs past its region. Invariant `SpaceInv`: while a set writes, what it
  has still to append fits; while it compacts, the copy takes no more than the entries it has
  taken over from the log it copies (`TurnFits`: two keys do not share a value, because their
  ids differ), and what the set needs was free before or is counted again afterwards. Sums
  over logs are compared by set induction (`SumsBelow`). What a power cut makes part of the log
  fits as well: a header left at `end_addr` belongs to a write for which there was room
  (`LeftFits`), and one with an impossible length is `torn` and not in the log.
- `ValuesArePaired`, `OkIsStored`: as long as nothing fails, the power stays
  on and nothing is deleted (`Undisturbed`, as in the run `sysparam_undisturbed`; what a power
  cut or a deletion does to them is told above, among what was seen while modelling). Invariant
  `ValuesInv`: between sets each live key has one live value behind it and each value its key
  (`Pairs`); during a compaction the same holds of the copy, except that the key being set,
  once copied, has no value there, because the loop leaves out its old value and no other
  (`MovedOK`); the copy is then smaller than the log by what the decision to compact had
  counted, so that the refusal behind a compaction is never reached for a key that had a value
  (`RoomMade`); and the old value is deleted only when the new one is valid (`ReplacedOK`).

`HandleListProofs`, from `ListAssumption`, whatever allocations fail:

- `FreeListExact`: types, and the free list holds each removed entry once, no other, and no
  pointer into a replaced array: the array is only replaced when the free list is empty, so
  no entry with a pointer is ever copied. Invariant: the list can be written down as an
  injective sequence of the removed positions.
- `ItemsStayReachable`: an item that is allocated is at exactly one live entry.
- `WalksAreComplete`: a walk that ends has read all items that stayed, and stands on entries
  only. Invariant: an item that was there at the beginning and has not been removed has been
  read or lies at the reader's place or behind it.
- `ListImplementsTable`: every step is a step of `HandleTable` or a stutter.

`PthreadProofs`, from `ThreadAssumption`. The inductive invariant `IInv` says besides the
types (`TypeCorrect`): `thread_list` and the allocated structures are one thing and every
task that lives is there (`ListedOK`); a thread in `_pthread_free` is there for itself or for
one it has stopped, has its id still, and is alone with it (`StopOK`); a gate that is open belongs to a task that has begun
(`GateOK`); who is on a join list at or behind the walk waits there, once, and has not been
told (`JoinsOK`).

- `AlwaysSelfListed`, `HandshakeHolds`, `JoinIsAfterEnd`: whatever threads call, and however
  they end. These are needed together: that an id still leads to the same thread needs the
  list, and that a message is about the right thread needs both.
- `HoldersLive`, `LocksAreKept`: as long as no thread is stopped by another, and for the
  second with recursive mutexes only.
- `MisuseIsAtEnds`: freed memory and task fields that were never stored are used only after a
  failed `xTaskCreate`, by who controls a thread whose creator has not come back, and on the
  structure of another thread that is in `_pthread_free`, is gone or was stopped. So a task
  that starts finds its structure and its gate, one that ends finds its own lists, whoever
  joins it meanwhile, a creator finds a child that has not got to `_pthread_free`, and a joiner
  the join list. Invariant `JoinableOK`: the join list goes in `_pthread_free`, before the
  structure.
- `NobodyKeepsCreators`: the part of `CreateReturns` that is not about the scheduler. A creator
  in the handshake finds the gate open, or the new task is there, awake, and next opens it, or
  their structure is gone. Invariant `CreatorOK`: a thread has one creator, and a task that has
  not begun is neither suspended nor stopped, because its task field is not stored yet.
- `JoinersAreTold`: the same of `JoinInTimeReturns`. Who is on a join list ahead of the walk
  stays there until the walk leaves its message or somebody stops the thread that ends, and
  nobody but the joiner takes the message.

`FileDescProofs`, from `FileDescAssumption`:

- `FilesStayCounted`: `nfiles` is the number of files on the list and of calls between
  counting and storing, or unlinking and uncounting (invariant `Counted`); so it never goes
  below zero, in any interleaving of the four sections that touch it.
- `FreeStaysFound`: a free descriptor below `fd_freefile` is one that a failed open emptied.
- `FilesAreOwn`: who lost no descriptor finds its files in place, allocated and on the list,
  and freed memory is used only after a clash. Invariant `Safe`: unless there was a clash, a
  file that a call opens or closes is referred to by that call alone, and two descriptors or
  two calls have different files.
- `MutexIsGivenBack`, `DeadMutexStays`: the exception that `CallsReturn` makes is the only one.
  Every section leaves `fd_mtx` free, with any error, but that of a dup2 onto a free descriptor,
  whose thread then waits for itself; from then on no call enters a section, and nothing is
  counted, listed or searched for.

`WebServerProofs`, from `WebServerAssumption`. The inductive invariant `Inv` (`Invariance`)
says besides the types: no node of type websocket is left in the table, and the newest has
no script yet while its request is read (`NodesOK`); a poll is at a websocket of the table
when data come (`PollOK`); only the websocket that is polled, or one the server is about to
close, has reached the age at which it goes (`AgeOK`); the tables name each connection once,
and the listener, the two tables and the lost ones divide the open connections (`OwnOK`).

- `Types`: the tables stay within their arrays and no websocket grows too old.
- `Owners`: every open connection is in one place, whatever `ws_sock_del_doubles` removes.
- `Yielding`: no answer is on its way while there are websockets; the table is emptied
  before an answer begins, and a websocket is taken only when no other answer is.
- `Scripts`: a script that goes on finds its own values on the Lua stack, until one ends under
  a later one. `lua_settop` keeps what lies below the level, and all other levels lie there.
- `Spares`: a poll closes no websocket but its own unless the network broke. A message sets
  the age to zero, so the deletion by index after `ws_sock_gotop` is never reached.
- `LoopListens`: as long as the server is in its loop, the connection it accepts on is open and
  listens: no answer, and no websocket that is evicted, a double, too old or broken, takes it
  along (from `OwnOK`, which keeps it apart from theirs).

`WithoutDoubles` is a loop that shortens the table it runs over. What it keeps is proved by
induction on its rounds, with the set of rounds after which the claim holds in place of a
predicate (`Induction` of `SetInduction`, which rests on the pigeonhole principle of the
library).

`StyxProofs`, from `StyxAssumption` (finitely many clients and fids; walks are sequences of
names) and `NoFid`. The inductive invariant `Inv` (`Invariant`) says besides the types: every
file lies in a directory of the table and the root in itself, and qids are below the counter
(`FilesOK`, `Tidy`); a fid is on a file that was there, of the kind it says, and only a fid
opened on a plain file has a file to remove (`FidsOK`); a device name belongs to one fid and
is allocated, until such a fid is cloned (`NamesOK`); a fid's file is there until another fid
removes it (`HereOK`); the server stops for no other reason than those named (`StopOK`).

- `Types`, `Safe`: from `Inv`. `DevWalk` runs through any number of names; that it keeps
  `Tidy`, and ends on a file or a device it allocated itself, is shown by set induction on the
  names it has done.
- `Refs`: each request changes the counts of one file by as much as it changes the set of
  fids on it, by lemmas on cardinality (`CountsAdded`, `CountsOpened`, `CountsDeleted`,
  `OnFreed`), one of which is about all fids of a client at once. A client that walks a fid
  to its own number is excluded, because the code then counts a fid that is gone.
- `Temporary`: a file that is to go when it is closed has an open fid that removes it.
- `Refinement`: what each request does to the tree (`Change`: one file comes, goes or is
  renamed) is a step of `FileTree` or a stutter. That a directory goes only when empty is what
  keeps `Tidy`.

## What is only checked by TLC

All liveness, and ENABLED, which the prover does not reach: `Recovers`, `CreateReturns`,
`JoinInTimeReturns`, `CallsReturn`, `AnswersEnd`. `FullMeansFull` has no proof yet. Every other
property of a passing run is
stated by a theorem.

## Not modelled

- Readers of the parameter store beside a running set: they take no semaphore and read
  flash piece by piece while a compaction erases it, so that they may see anything.
- `thread.c`: a list and calls of `Pthread`; `thread.stop` frees its structure twice on every
  call, and nothing could be said of what follows.
- Conditions have no working wait and no user in the firmware; `once` and keys are a flag
  and a handle list.
- Signals, and the receive interrupt of the UART: what remains beside FreeRTOS's queue is a
  walk over the thread list inside an interrupt, which does not wait for the list's mutex.
- The timer loop: one queue of length one with one reader.
- rBoot is third-party code; a cut between erasing and writing its configuration leaves a
  blank sector, which the next boot replaces by the default.
- Path handling and SPIFFS handles (`spiffs_ops.c`, `mount.c`), terminal and network file
  operations: little state of their own above vendored code.
- Vendored code (FreeRTOS, lwIP, Lua, SPIFFS, mbed TLS, newlib and others), generated data,
  register-level drivers and the Lua modules over them, and start-up, whose decision about
  the parameter store is part of `Sysparam` and whose console is the initial state of
  `FileDesc`.

Hazards seen in these parts that no property covers, besides the two that `PROJECT.json`
lists with the reason: the 256th live entry of a list wraps its counter (`list.c:66`, the
model stops before); an error in the Lua callback of `tloop.run` leaves its mutex taken
(`tloop.c:76`); `uart_init` deletes a queue that a reader may wait on (`uart.c:335`); the
terminal mutex is made by whoever writes first, perhaps twice (`tty_ops.c:91`); a socket
that could not be made is closed through a nil pointer (`net_ops.c:134`); opening a directory
leaves the SPIFFS handle unset (`spiffs_ops.c:384`); a Styx message that arrives in two
pieces is dropped (`styxserver.c:215`); a piece of a file that is stripped to nothing ends
the answer (`file_read_exec.c:163`).

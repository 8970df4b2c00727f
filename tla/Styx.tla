-------------------------------- MODULE Styx --------------------------------
(***************************************************************************)
(* The Styx (9P) file server of src/modules/styx: the tree of files of      *)
(* libstyx/styxserver.c with the operations of luastyx/lstyx.c, and the     *)
(* devices of luastyx/lstyx_dev.c as files that are not in the tree.  One   *)
(* task serves all clients and one request at a time (styxprocess), so an   *)
(* action is a whole request; the requests of the clients interleave.       *)
(*                                                                         *)
(* The parent of the root is itself here, nil in the code.  Permissions     *)
(* are granted (the root is 0777, lstyx.c:639) and memory does not run out. *)
(* Not in the model: the contents of files, and the entries fs, rpc and cgi *)
(* of the root, which no client walks to.                                   *)
(***************************************************************************)
EXTENDS Integers, FiniteSets, Sequences, Functions

CONSTANTS
  Clients,
  Fids,       \* the numbers clients give to their fids
  NewNames,   \* names for new files
  Walks,      \* the sequences of names clients walk
  Device,     \* the name of a device under dev
  Mangled,    \* what a freed name may read as
  Strings,    \* addresses strdup can give the name of a device
  Refused,    \* renames refused before: the server's qids of dev, fs and rpc are taken
  MaxFids,    \* bound: the fids clients have at once
  MaxPath,    \* bound: the last qid a file is created with
  NULL

ASSUME StyxAssumption ==
  /\ MaxPath \in Nat /\ MaxPath >= 3 /\ Refused \in 0 .. 3
  /\ Mangled \notin NewNames \cup {"/", "dev", "fs", "rpc"}
  /\ Device \notin NewNames /\ NULL \notin Strings /\ Walks \subseteq Seq(STRING)
  /\ IsFiniteSet(Clients) /\ IsFiniteSet(Fids)

Qroot == 0
DevPath == -1       \* the qid of the device: no file of the tree has it
Paths == 0 .. MaxPath
Names == NewNames \cup {"/", "dev", "fs", "rpc", Mangled}

VARIABLES
  files,    \* ftab: path -> [parent, dir, name, type, ref, open]
  fids,     \* client -> fid number -> Fid, or NULL
  heap,     \* the names of devices that are allocated
  nq,       \* the qid of the next file a client creates
  qidgen,   \* the qid of the next file the server makes for itself
  doomed,   \* history: paths opened to be removed on close by a fid not dropped
  spoilt,   \* history: what clients did that the server is not made for
  wild,     \* history: a name was freed twice
  down      \* the server has stopped on a request

vars == <<files, fids, heap, nq, qidgen, doomed, spoilt, wild, down>>

----------------------------------------------------------------------------
Qid == [path : Paths \cup {DevPath}, type : {"root", "dev", "devfile"},
        dir : BOOLEAN, name : Strings \cup {NULL}]
FidState == [qid : Qid, open : BOOLEAN, rclose : BOOLEAN]
ASSUME NoFid == NULL \notin FidState

Opening(qid) == [qid |-> qid, open |-> FALSE, rclose |-> FALSE]

Used(fs) == {ci \in Clients \X Fids : fs[ci[1]][ci[2]] # NULL}
At(fs, ci) == fs[ci[1]][ci[2]]
On(fs, p) == {ci \in Used(fs) : At(fs, ci).qid.path = p}
Held(fs) == {At(fs, ci).qid.name : ci \in Used(fs)} \ {NULL}

DeviceQid(s) == [path |-> DevPath, type |-> "devfile", dir |-> FALSE, name |-> s]
FileQid(f, p) == [path |-> p, type |-> f[p].type, dir |-> f[p].dir, name |-> NULL]
EntryUntyped(parent, dir, name, type) ==
  [parent |-> parent, dir |-> dir, name |-> name, type |-> NULL, ref |-> 0, open |-> 0]

Entry(parent, dir, name, type) ==
  [parent |-> parent, dir |-> dir, name |-> name, type |-> type, ref |-> 0, open |-> 0]

Without(f, p) == [q \in DOMAIN f \ {p} |-> f[q]]
With(f, p, e) == [q \in DOMAIN f \cup {p} |-> IF q = p THEN e ELSE f[q]]

\* increff, decreff, incopen, decopen: nothing, when the file is not in the table
AddRef(f, p, n) == IF p \in DOMAIN f THEN [f EXCEPT ![p].ref = @ + n] ELSE f
AddOpen(f, fid, n) ==
  IF fid.open /\ fid.qid.path \in DOMAIN f
  THEN [f EXCEPT ![fid.qid.path].open = @ + n] ELSE f
ReleaseRefOnly(f, fid) == AddRef(f, fid.qid.path, -1)

Release(f, fid) == AddOpen(AddRef(f, fid.qid.path, -1), fid, -1)

\* deletefid: the name of a device stays allocated, but out of anyone's reach
DeleteFidNot(fs, c, i) == fs

DeleteFid(fs, c, i) == [fs EXCEPT ![c][i] = NULL]

SetFid(fs, c, i, fid) == [fs EXCEPT ![c][i] = fid]

Empty(f, p) == \A q \in DOMAIN f : f[q].parent # p

----------------------------------------------------------------------------
(* devwalk: one name of a walk.  A walk is the qid it has come to, the      *)
(* number of names it has passed and whether it goes on.  A name leads to a *)
(* device, up, or to a child; the type of the fid stays when it leads up.   *)
Stay(w, qid) == [w EXCEPT !.qid = qid, !.passed = @ + 1]
Up(f, qid) == [qid EXCEPT !.path = f[qid.path].parent, !.dir = TRUE]
Children(f, p, n) == {q \in DOMAIN f : q # Qroot /\ f[q].parent = p /\ f[q].name = n}

WalkName(f, s, w, n) ==
  LET p == w.qid.path
      known == p \in DOMAIN f
      type == IF known THEN f[p].type ELSE w.qid.type
  IN CASE ~ w.going \/ ~ w.qid.dir -> [w EXCEPT !.going = FALSE]
       [] OTHER ->
          CASE n = "." -> Stay(w, w.qid)
            [] n = ".." /\ known /\ p # Qroot -> Stay(w, Up(f, w.qid))
            [] n = Device /\ type = "dev" -> Stay(w, DeviceQid(s))
            [] n \notin {".", "..", Device} /\ known /\ Children(f, p, n) # {} ->
                 Stay(w, FileQid(f, CHOOSE q \in Children(f, p, n) : TRUE))
            [] OTHER -> [w EXCEPT !.going = FALSE]

DevWalk(f, s, qid, names) ==
  LET walk[k \in 0 .. Len(names)] ==
        IF k = 0 THEN [qid |-> qid, passed |-> 0, going |-> TRUE]
        ELSE WalkName(f, s, walk[k - 1], names[k])
  IN walk[Len(names)]

----------------------------------------------------------------------------
\* The root and what myinit puts in it
Root ==
  [p \in 0 .. 3 |->
     CASE p = Qroot -> Entry(Qroot, TRUE, "/", "root")
       [] p = 1 -> Entry(Qroot, TRUE, "dev", "dev")
       [] p = 2 -> Entry(Qroot, TRUE, "fs", "root")
       [] p = 3 -> Entry(Qroot, FALSE, "rpc", "root")]

Init ==
  /\ files = Root
  /\ fids = [c \in Clients |-> [i \in Fids |-> NULL]]
  /\ heap = {} /\ nq = 4 /\ qidgen = 1 + Refused
  /\ doomed = {} /\ spoilt = {} /\ wild = FALSE /\ down = FALSE

----------------------------------------------------------------------------
\* After a name was freed twice or a fid walked to its own number, memory is not what it was
Goes == ~ down /\ ~ wild /\ "selfwalk" \notin spoilt

(* The server keeps the file table, the fids and the strings; a string that *)
(* no fid holds any more is out of reach and leaves the model.              *)
Serve(f, fs, h) ==
  /\ Goes
  /\ files' = f /\ fids' = fs /\ heap' = h \cap Held(fs)
  /\ UNCHANGED down

Keep == UNCHANGED <<nq, qidgen, doomed, spoilt, wild>>

\* Bound: so many fids at once
Room == Cardinality(Used(fids)) < MaxFids

\* Tattach: a fid on the root
Tattach(c, i) ==
  /\ fids[c][i] = NULL /\ Room
  /\ Serve(AddRef(files, Qroot, 1), SetFid(fids, c, i, Opening(FileQid(files, Qroot))), heap)
  /\ Keep

\* Twalk to another number, whose fid goes first if there is one
Forgotten(fid) == IF fid # NULL /\ fid.rclose THEN {fid.qid.path} ELSE {}
FreshString(h) == IF Strings \subseteq h THEN NULL ELSE CHOOSE x \in Strings : x \notin h

Forget(fs, c, i) == [f |-> IF fs[c][i] = NULL THEN files ELSE Release(files, fs[c][i]),
                     fs |-> DeleteFid(fs, c, i)]

Twalk(c, i, j, names) ==
  LET fid == fids[c][i]
      old == Forget(fids, c, j)
      s == FreshString(heap)
      w == DevWalk(old.f, s, fid.qid, names)
  IN /\ i # j /\ fid # NULL /\ (Room \/ fids[c][j] # NULL)
     /\ names = <<>> \/ fid.qid.dir \/ fid.open
     /\ Device \in Range(names) => s # NULL
     /\ IF ~ fid.open /\ w.passed = Len(names)
        THEN /\ Serve(AddRef(old.f, w.qid.path, 1),
                      SetFid(old.fs, c, j, Opening(w.qid)), heap \cup {w.qid.name})
             /\ spoilt' = IF names = <<>> /\ w.qid.name # NULL
                          THEN spoilt \cup {"shared"} ELSE spoilt
        ELSE Serve(old.f, old.fs, heap) /\ UNCHANGED spoilt
     /\ doomed' = doomed \ Forgotten(fids[c][j])
     /\ UNCHANGED <<nq, qidgen, wild>>

\* Twalk to its own number: the fid is freed, then used; it may still read as it did
TwalkSelf(c, i, names) ==
  LET fid == fids[c][i]
      f == Release(files, fid)
      w == DevWalk(f, NULL, fid.qid, names)
  IN /\ fid # NULL
     /\ names = <<>> \/ fid.qid.dir \/ fid.open
     /\ \E g \in {f, AddRef(AddRef(f, fid.qid.path, -1), w.qid.path, 1)} :
          Serve(g, DeleteFid(fids, c, i), heap)
     /\ doomed' = doomed \ Forgotten(fid)
     /\ spoilt' = spoilt \cup {"selfwalk"}
     /\ UNCHANGED <<nq, qidgen, wild>>

\* Topen
Topen(c, i, rclose) ==
  LET fid == fids[c][i]
      opened == [fid EXCEPT !.open = TRUE, !.rclose = rclose]
  IN /\ fid # NULL /\ ~ fid.open
     /\ ~ (fid.qid.dir /\ rclose)
     /\ Serve(AddOpen(files, opened, 1), SetFid(fids, c, i, opened), heap)
     /\ doomed' = IF rclose /\ fid.qid.type = "root" THEN doomed \cup {fid.qid.path} ELSE doomed
     /\ UNCHANGED <<nq, qidgen, spoilt, wild>>

\* styxaddfile, styxadddir: is there a directory to put the file in, and no such file yet?
AddableAnyName(f, d, p, n) ==
  /\ d \in DOMAIN f /\ f[d].dir
  /\ p \notin DOMAIN f

Addable(f, d, p, n) ==
  /\ d \in DOMAIN f /\ f[d].dir
  /\ p \notin DOMAIN f
  /\ Children(f, d, n) = {}

\* Tcreate: the qid is used up even when the file is refused
Tcreate(c, i, n, isDir, rclose) ==
  LET fid == fids[c][i]
      d == fid.qid.path
      f == With(files, nq, Entry(d, isDir, n, "root"))
      made == [qid |-> FileQid(f, nq), open |-> TRUE, rclose |-> rclose]
  IN /\ fid # NULL /\ ~ fid.open
     /\ fid.qid.dir /\ fid.qid.type = "root"
     /\ ~ (isDir /\ rclose)
     /\ nq <= MaxPath
     /\ nq' = nq + 1
     /\ IF Addable(files, d, nq, n)
        THEN /\ Serve(AddOpen(AddRef(AddRef(f, d, -1), nq, 1), made, 1),
                      SetFid(fids, c, i, made), heap)
             /\ doomed' = IF rclose THEN doomed \cup {nq} ELSE doomed
        ELSE Serve(files, fids, heap) /\ UNCHANGED doomed
     /\ UNCHANGED <<qidgen, spoilt, wild>>

\* fsremove of a file of the tree: the root and a directory in use stay
Removable(p) == p # Qroot /\ Empty(files, p)
Left(p, f) == IF Removable(p) THEN Without(f, p) ELSE f
Under(p, fs) == IF Removable(p) /\ On(fs, p) # {} THEN {"removed"} ELSE {}

\* Tclunk: deletefid, then fsclose; what was opened to be removed is removed, the name of a device is freed
RemovesDir(fid) == fid.open /\ fid.rclose /\ fid.qid.dir

Removes(fid) == fid.open /\ fid.rclose /\ fid.qid.type = "root"

Tclunk(c, i) ==
  LET fid == fids[c][i]
      p == fid.qid.path
      f == Release(files, fid)
      fs == DeleteFid(fids, c, i)
      removes == Removes(fid)
      frees == fid.open /\ fid.qid.name # NULL
  IN /\ fid # NULL
     /\ removes => p \in DOMAIN files
     /\ Serve(IF removes THEN Left(p, f) ELSE f, fs,
              IF frees THEN heap \ {fid.qid.name} ELSE heap)
     /\ wild' = (wild \/ (frees /\ fid.qid.name \notin heap))
     /\ spoilt' = IF removes THEN spoilt \cup Under(p, fs) ELSE spoilt
     /\ UNCHANGED <<nq, qidgen, doomed>>

\* Tremove: the fid goes whatever becomes of the file
Tremove(c, i) ==
  LET fid == fids[c][i]
      p == fid.qid.path
      removes == fid.qid.type = "root"
      fs == DeleteFid(fids, c, i)
  IN /\ fid # NULL
     /\ removes => p \in DOMAIN files
     /\ Serve(IF removes THEN Left(p, Release(files, fid)) ELSE Release(files, fid), fs, heap)
     /\ spoilt' = IF removes THEN spoilt \cup Under(p, fs) ELSE spoilt
     /\ doomed' = doomed \ Forgotten(fid)
     /\ UNCHANGED <<nq, qidgen, wild>>

\* Twstat with a name: the server adds a file of that name to see whether it could,
\* and takes it away; the name is read from memory already freed (styxserver.c:1047-1054)
Twstat(c, i, n) ==
  LET fid == fids[c][i]
      p == fid.qid.path
  IN /\ fid # NULL /\ p \in DOMAIN files /\ p # Qroot
     /\ files[p].name # n
     /\ qidgen <= MaxPath
     /\ qidgen' = qidgen + 1
     /\ \E m \in {n, Mangled} :
          IF qidgen \notin DOMAIN files /\ (m = Mangled \/ Addable(files, files[p].parent, qidgen, m))
          THEN Serve([files EXCEPT ![p].name = m], fids, heap)
          ELSE Serve(files, fids, heap)
     /\ UNCHANGED <<nq, doomed, spoilt, wild>>

\* freeclient: every fid goes and every name is freed; no file is closed
FreeClient(c) ==
  LET mine == {i \in Fids : fids[c][i] # NULL}
      named == {i \in mine : fids[c][i].qid.name # NULL}
      mineOn(p) == {i \in mine : fids[c][i].qid.path = p}
      fs == [fids EXCEPT ![c] = [i \in Fids |-> NULL]]
  IN /\ mine # {}
     /\ Serve([p \in DOMAIN files |-> [files[p] EXCEPT
                   !.ref = @ - Cardinality(mineOn(p)),
                   !.open = @ - Cardinality({i \in mineOn(p) : fids[c][i].open})]],
              fs, heap \ {fids[c][i].qid.name : i \in named})
     /\ wild' = (wild \/ \E i \in named : \/ fids[c][i].qid.name \notin heap
                                         \/ \E j \in named \ {i} : fids[c][j].qid.name = fids[c][i].qid.name)
     /\ doomed' = doomed \ UNION {Forgotten(fids[c][i]) : i \in mine}
     /\ UNCHANGED <<nq, qidgen, spoilt>>

\* The server stops: a nil file is read, or a walk starts at what is no directory
Stop == Goes /\ down' = TRUE /\ UNCHANGED <<files, fids, heap, nq, qidgen, doomed, wild>>

NilFile(c, i) ==
  LET fid == fids[c][i]
  IN /\ fid # NULL /\ fid.qid.type = "root" /\ fid.qid.path \notin DOMAIN files
     /\ Stop /\ UNCHANGED spoilt

FatalRequest(c, i) ==
  LET fid == fids[c][i]
  IN /\ fid # NULL
     /\ \/ ~ fid.qid.dir /\ ~ fid.open
        \/ fid.qid.path = Qroot
        \/ fid.qid.path = DevPath
     /\ Stop /\ spoilt' = spoilt \cup {"request"}

Next ==
  \/ \E c \in Clients : FreeClient(c)
  \/ \E c \in Clients, i \in Fids :
       \/ Tattach(c, i)
       \/ \E j \in Fids, names \in Walks : Twalk(c, i, j, names)
       \/ \E names \in {n \in Walks : Len(n) <= 1} : TwalkSelf(c, i, names)
       \/ \E rclose \in BOOLEAN : Topen(c, i, rclose)
       \/ \E n \in NewNames, isDir, rclose \in BOOLEAN : Tcreate(c, i, n, isDir, rclose)
       \/ Tclunk(c, i)
       \/ Tremove(c, i)
       \/ \E n \in NewNames \cup {"dev"} : Twstat(c, i, n)
       \/ NilFile(c, i)
       \/ FatalRequest(c, i)

Spec == Init /\ [][Next]_vars

----------------------------------------------------------------------------
\* The variables have their types.
TypeOK ==
  /\ DOMAIN files \subseteq Paths
  /\ \A p \in DOMAIN files :
       files[p] \in [parent : Paths, dir : BOOLEAN, name : Names,
                     type : {"root", "dev"}, ref : Int, open : Int]
  /\ fids \in [Clients -> [Fids -> FidState \cup {NULL}]]
  /\ heap \subseteq Strings
  /\ nq \in 4 .. MaxPath + 1 /\ qidgen \in 1 .. MaxPath + 1
  /\ doomed \subseteq Paths
  /\ spoilt \subseteq {"shared", "selfwalk", "removed", "request"}
  /\ wild \in BOOLEAN /\ down \in BOOLEAN

\* The counts of a file are those of the fids on it and of the open ones
\* (incref ... decopen, styxserver.c:307-349), through walks that go up and
\* down, that fail half way, creations that move the fid, and disconnections,
\* as long as no client walks a fid to its own number.
RefsExact ==
  "selfwalk" \notin spoilt =>
    \A p \in DOMAIN files :
      /\ files[p].ref = Cardinality(On(fids, p))
      /\ files[p].open = Cardinality({ci \in On(fids, p) : At(fids, ci).open})

\* A fid names the file it came to until another fid removes that file; only
\* then does the server read a nil file, and only a client that clones the fid
\* of a device has its name freed twice (fsdevclose, deletefids).
ServerIsSafe ==
  /\ "removed" \notin spoilt =>
       \A ci \in Used(fids) : At(fids, ci).qid.type = "root" => At(fids, ci).qid.path \in DOMAIN files
  /\ "shared" \notin spoilt =>
       /\ ~ wild
       /\ \A ci \in Used(fids) : At(fids, ci).qid.name \in heap \cup {NULL}
  /\ down => spoilt # {}

\* A file opened or created to be removed on close, by clients that close it, is
\* there no longer than some fid that will remove it (ORCLOSE, lstyx.c:151-154).
TemporaryFilesGo ==
  \A p \in doomed \cap DOMAIN files :
    \E ci \in On(fids, p) : At(fids, ci).open /\ At(fids, ci).rclose

\* The tree is what FileTree says of it.
Outline(f) == [p \in DOMAIN f |-> [parent |-> f[p].parent, dir |-> f[p].dir, name |-> f[p].name]]
Tree == INSTANCE FileTree WITH
  Names <- NewNames \cup {"dev"}, Odd <- Mangled, Fixed <- Outline(Root), tree <- Outline(files)
TreeRefinement == Tree!Spec
=============================================================================

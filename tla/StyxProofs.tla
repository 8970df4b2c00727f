----------------------------- MODULE StyxProofs -----------------------------
(***************************************************************************)
(* Invariants of Styx for any clients, fids, names and walks.               *)
(***************************************************************************)
EXTENDS Styx, SetInduction, SequenceTheorems, TLAPS

FileType == [parent : Paths, dir : BOOLEAN, name : Names, type : {"root", "dev"},
             ref : Int, open : Int]
FidTable == [Clients -> [Fids -> FidState \cup {NULL}]]

\* A table of files whose qids are below n: every file is in a directory of the table.
Tidy(f, n) ==
  /\ DOMAIN f \subseteq 0 .. n - 1 /\ Qroot \in DOMAIN f /\ f[Qroot].parent = Qroot
  /\ \A p \in DOMAIN f :
       /\ f[p] \in FileType /\ f[p].parent \in DOMAIN f /\ f[f[p].parent].dir
       /\ f[p].type = "dev" => f[p].dir

\* A qid that fits a table of files: it may name a file that is gone, but no later one.
QidOK(q, f, n) ==
  /\ q \in Qid /\ q.path \in 0 .. n - 1 \cup {DevPath}
  /\ q.path = DevPath <=> q.type = "devfile"
  /\ q.path = DevPath => ~ q.dir
  /\ q.path # DevPath => q.name = NULL
  /\ q.path \in DOMAIN f => q.dir = f[q.path].dir
  /\ q.type = "dev" => q.dir

FidOK(fid, f, n) ==
  /\ fid \in FidState /\ QidOK(fid.qid, f, n)
  /\ fid.rclose => fid.open /\ ~ fid.qid.dir

\* A qid of a file proper is that of a file that is there.
Here(q, f) == q.type = "root" => q.path \in DOMAIN f

\* The same files, but for their counts.
Shape(f, g) ==
  /\ DOMAIN g = DOMAIN f
  /\ \A p \in DOMAIN f :
       /\ g[p] \in FileType /\ g[p].parent = f[p].parent /\ g[p].dir = f[p].dir
       /\ g[p].name = f[p].name /\ g[p].type = f[p].type

Typed(f) == \A p \in DOMAIN f : f[p] \in FileType

----------------------------------------------------------------------------
(* The table of files.                                                      *)

LEMMA AddRefShape ==
  ASSUME NEW f, Typed(f), NEW p, NEW n \in Int
  PROVE  Shape(f, AddRef(f, p, n))
<1>1. CASE p \in DOMAIN f
  <2>. DEFINE e == [f[p] EXCEPT !.ref = f[p].ref + n]
  <2>1. f[p] \in FileType  BY <1>1 DEF Typed
  <2>2. /\ e \in FileType /\ e.parent = f[p].parent /\ e.dir = f[p].dir
        /\ e.name = f[p].name /\ e.type = f[p].type
    BY <2>1 DEF FileType
  <2>3. AddRef(f, p, n) = [f EXCEPT ![p] = e]  BY <1>1 DEF AddRef
  <2>. HIDE DEF e
  <2>. QED  BY <1>1, <2>2, <2>3 DEF Shape, Typed
<1>2. CASE p \notin DOMAIN f  BY <1>2 DEF AddRef, Shape, Typed
<1>. QED  BY <1>1, <1>2

LEMMA AddOpenShape ==
  ASSUME NEW f, Typed(f), NEW fid, NEW n \in Int
  PROVE  Shape(f, AddOpen(f, fid, n))
<1>. DEFINE p == fid.qid.path
<1>1. CASE fid.open /\ p \in DOMAIN f
  <2>. DEFINE e == [f[p] EXCEPT !.open = f[p].open + n]
  <2>1. f[p] \in FileType  BY <1>1 DEF Typed
  <2>2. /\ e \in FileType /\ e.parent = f[p].parent /\ e.dir = f[p].dir
        /\ e.name = f[p].name /\ e.type = f[p].type
    BY <2>1 DEF FileType
  <2>3. AddOpen(f, fid, n) = [f EXCEPT ![p] = e]  BY <1>1 DEF AddOpen
  <2>. HIDE DEF e
  <2>. QED  BY <1>1, <2>2, <2>3 DEF Shape, Typed
<1>2. CASE ~ (fid.open /\ p \in DOMAIN f)  BY <1>2 DEF AddOpen, Shape, Typed
<1>. QED  BY <1>1, <1>2

LEMMA ShapeTyped == \A f, g : Shape(f, g) => Typed(g)
BY DEF Shape, Typed

LEMMA ShapeTransitive == \A f, g, h : Shape(f, g) /\ Shape(g, h) => Shape(f, h)
BY DEF Shape

LEMMA SameShape == \A f : Typed(f) => Shape(f, f)
BY DEF Shape, Typed

LEMMA ReleaseShape ==
  ASSUME NEW f, Typed(f), NEW fid
  PROVE  Shape(f, Release(f, fid))
<1>. DEFINE g == AddRef(f, fid.qid.path, -1)
<1>1. Shape(f, g) /\ Typed(g)  BY AddRefShape, ShapeTyped
<1>2. Shape(g, AddOpen(g, fid, -1))
  <2>. HIDE DEF g
  <2>. QED  BY <1>1, AddOpenShape
<1>3. Release(f, fid) = AddOpen(g, fid, -1)  BY DEF Release
<1>. HIDE DEF g
<1>. QED  BY <1>1, <1>2, <1>3, ShapeTransitive

LEMMA TidyTyped == \A f, n : Tidy(f, n) => Typed(f)
BY DEF Tidy, Typed

LEMMA ShapeTidy ==
  ASSUME NEW f, NEW g, NEW n, Tidy(f, n), Shape(f, g)
  PROVE  Tidy(g, n)
BY DEF Tidy, Shape

LEMMA ShapeQid ==
  ASSUME NEW f, NEW g, NEW n, NEW q, QidOK(q, f, n), Shape(f, g)
  PROVE  QidOK(q, g, n)
BY DEF QidOK, Shape

\* A file that no file is in goes.
LEMMA WithoutTidy ==
  ASSUME NEW f, NEW n, Tidy(f, n), NEW p, p # Qroot, Empty(f, p)
  PROVE  Tidy(Without(f, p), n)
<1>. DEFINE g == Without(f, p)
<1>1. DOMAIN g = DOMAIN f \ {p} /\ \A q \in DOMAIN g : g[q] = f[q]  BY DEF Without
<1>. HIDE DEF g
<1>2. \A q \in DOMAIN g : f[q].parent # p  BY <1>1 DEF Empty
<1>. QED  BY <1>1, <1>2 DEF Tidy, g

\* A file comes into a directory, with the next qid.
LEMMA WithTidy ==
  ASSUME NEW f, NEW n \in Paths, Tidy(f, n), NEW d \in DOMAIN f, f[d].dir,
         NEW isDir \in BOOLEAN, NEW name \in Names
  PROVE  /\ Tidy(With(f, n, Entry(d, isDir, name, "root")), n + 1)
         /\ n \notin DOMAIN f
<1>. DEFINE e == Entry(d, isDir, name, "root")
            g == With(f, n, e)
<1>1. d \in 0 .. n - 1 /\ n \in Nat /\ n \notin DOMAIN f /\ d \in Paths
  BY StyxAssumption DEF Tidy, Paths
<1>2. e \in FileType /\ e.parent = d /\ e.type = "root"
  BY <1>1 DEF Entry, FileType
<1>. HIDE DEF e
<1>3. /\ DOMAIN g = DOMAIN f \cup {n} /\ g[n] = e
      /\ \A q \in DOMAIN f : q # n /\ g[q] = f[q]
  BY <1>1 DEF With
<1>. HIDE DEF g
<1>4. DOMAIN g \subseteq 0 .. (n + 1) - 1 /\ Qroot \in DOMAIN g /\ g[Qroot].parent = Qroot
  BY <1>1, <1>3 DEF Tidy
<1>5. ASSUME NEW q \in DOMAIN g
      PROVE  /\ g[q] \in FileType /\ g[q].parent \in DOMAIN g /\ g[g[q].parent].dir
             /\ g[q].type = "dev" => g[q].dir
  <2>1. CASE q = n  BY <1>2, <1>3, <2>1
  <2>2. CASE q \in DOMAIN f
    <3>1. /\ f[q] \in FileType /\ f[q].parent \in DOMAIN f /\ f[f[q].parent].dir
          /\ f[q].type = "dev" => f[q].dir
      BY <2>2 DEF Tidy
    <3>. QED  BY <1>3, <2>2, <3>1
  <2>. QED  BY <1>3, <2>1, <2>2
<1>6. Tidy(g, n + 1)  BY <1>4, <1>5 DEF Tidy
<1>. QED  BY <1>1, <1>6 DEF g, e

----------------------------------------------------------------------------
(* devwalk.                                                                 *)

WalkState(n) == [qid : Qid, passed : 0 .. n, going : BOOLEAN]

\* The way of one name: the walk ends, stays, goes up, to a device or to a child.
LEMMA WalkNameWays ==
  ASSUME NEW f, NEW s, NEW w, NEW n, QidOK(w.qid, f, nq)
  PROVE  \/ WalkName(f, s, w, n) = [w EXCEPT !.going = FALSE]
         \/ /\ w.qid.dir
            /\ \/ WalkName(f, s, w, n) = Stay(w, w.qid)
               \/ w.qid.path \in DOMAIN f /\ WalkName(f, s, w, n) = Stay(w, Up(f, w.qid))
               \/ WalkName(f, s, w, n) = Stay(w, DeviceQid(s))
               \/ \E q \in DOMAIN f : WalkName(f, s, w, n) = Stay(w, FileQid(f, q))
<1>. DEFINE p == w.qid.path
            known == p \in DOMAIN f
            type == IF known THEN f[p].type ELSE w.qid.type
            ends == [w EXCEPT !.going = FALSE]
            some == CHOOSE q \in Children(f, p, n) : TRUE
            on == CASE n = "." -> Stay(w, w.qid)
                    [] n = ".." /\ known /\ p # Qroot -> Stay(w, Up(f, w.qid))
                    [] n = Device /\ type = "dev" -> Stay(w, DeviceQid(s))
                    [] n \notin {".", "..", Device} /\ known /\ Children(f, p, n) # {} ->
                         Stay(w, FileQid(f, some))
                    [] OTHER -> ends
<1>1. WalkName(f, s, w, n) = CASE ~ w.going \/ ~ w.qid.dir -> ends [] OTHER -> on
  BY DEF WalkName
<1>2. Children(f, p, n) # {} => some \in DOMAIN f  BY DEF Children
<1>3. \/ on = Stay(w, w.qid)
      \/ known /\ on = Stay(w, Up(f, w.qid))
      \/ on = Stay(w, DeviceQid(s))
      \/ Children(f, p, n) # {} /\ on = Stay(w, FileQid(f, some))
      \/ on = ends
  <2>. HIDE DEF some, type, ends
  <2>. QED  OBVIOUS
<1>. HIDE DEF on, some, ends
<1>4. WalkName(f, s, w, n) = ends \/ (w.qid.dir /\ WalkName(f, s, w, n) = on)
  <2>1. CASE ~ w.going \/ ~ w.qid.dir  BY <1>1, <2>1
  <2>2. CASE ~ (~ w.going \/ ~ w.qid.dir)
    <3>1. WalkName(f, s, w, n) = on  BY Zenon, <1>1, <2>2
    <3>. QED  BY <2>2, <3>1
  <2>. QED  BY <2>1, <2>2
<1>. QED  BY <1>2, <1>3, <1>4 DEF ends

\* What a walk keeps.
GoodWalk(f, s, qid, w, k) ==
  /\ w \in WalkState(k) /\ QidOK(w.qid, f, nq)
  /\ Here(qid, f) => Here(w.qid, f)
  /\ w.qid.name \in {NULL, s} \/ (w.qid = qid /\ w.passed = 0)

LEMMA UpQid ==
  ASSUME NEW f, Tidy(f, nq), NEW q, QidOK(q, f, nq), q.path \in DOMAIN f
  PROVE  QidOK(Up(f, q), f, nq) /\ Here(Up(f, q), f) /\ Up(f, q).name = NULL
<1>. DEFINE d == f[q.path].parent
            u == [q EXCEPT !.path = d, !.dir = TRUE]
<1>1. d \in DOMAIN f /\ f[d].dir /\ d \in 0 .. nq - 1 /\ d # DevPath /\ q.path # DevPath
      /\ d \in Paths /\ f[q.path] \in FileType /\ f[d] \in FileType
  BY DEF Tidy, FileType, DevPath
<1>2. q \in Qid /\ q.name = NULL /\ q.type # "devfile"  BY <1>1 DEF QidOK
<1>3. f[d].dir = TRUE  BY <1>1 DEF FileType
<1>. HIDE DEF d
<1>4. u \in Qid /\ u.path = d /\ u.dir = TRUE /\ u.type = q.type /\ u.name = NULL
  BY <1>1, <1>2 DEF Qid
<1>5. Up(f, q) = u  BY DEF Up, d
<1>. HIDE DEF u
<1>. QED  BY <1>1, <1>2, <1>3, <1>4, <1>5 DEF QidOK, Here

LEMMA FileQidOK ==
  ASSUME NEW f, NEW m, Tidy(f, m), NEW q \in DOMAIN f, m - 1 <= MaxPath, m \in Nat
  PROVE  /\ QidOK(FileQid(f, q), f, m) /\ Here(FileQid(f, q), f)
         /\ FileQid(f, q).name = NULL /\ FileQid(f, q).path = q
         /\ FileQid(f, q).dir = f[q].dir /\ FileQid(f, q).type = f[q].type
<1>1. q \in 0 .. m - 1 /\ q # DevPath /\ f[q] \in FileType /\ (f[q].type = "dev" => f[q].dir)
  BY DEF Tidy, DevPath
<1>2. q \in Paths  BY <1>1, StyxAssumption DEF Paths
<1>3. FileQid(f, q) \in Qid  BY <1>1, <1>2 DEF FileQid, FileType, Qid
<1>4. f[q].type \in {"root", "dev"}  BY <1>1 DEF FileType
<1>. QED  BY <1>1, <1>3, <1>4 DEF QidOK, Here, FileQid

LEMMA DeviceQidOK ==
  ASSUME NEW f, Tidy(f, nq), NEW s \in Strings \cup {NULL}
  PROVE  QidOK(DeviceQid(s), f, nq) /\ Here(DeviceQid(s), f) /\ DeviceQid(s).name = s
<1>1. DevPath \notin DOMAIN f  BY DEF Tidy, DevPath
<1>. QED  BY <1>1 DEF QidOK, Here, DeviceQid, Qid

LEMMA WalkNameGood ==
  ASSUME NEW f, Tidy(f, nq), nq \in 4 .. MaxPath + 1, NEW s \in Strings \cup {NULL}, NEW qid,
         NEW k \in Nat, NEW w, GoodWalk(f, s, qid, w, k), NEW n
  PROVE  GoodWalk(f, s, qid, WalkName(f, s, w, n), k + 1)
<1>1. /\ w \in WalkState(k) /\ QidOK(w.qid, f, nq) /\ w.passed \in 0 .. k
      /\ w.passed \in 0 .. k + 1 /\ w.passed + 1 \in 0 .. k + 1 /\ w.qid \in Qid
      /\ w.going \in BOOLEAN
      /\ Here(qid, f) => Here(w.qid, f)
      /\ w.qid.name \in {NULL, s} \/ (w.qid = qid /\ w.passed = 0)
  BY DEF GoodWalk, WalkState
<1>2. CASE WalkName(f, s, w, n) = [w EXCEPT !.going = FALSE]
  <2>. DEFINE e == [w EXCEPT !.going = FALSE]
  <2>1. e \in WalkState(k + 1) /\ e.qid = w.qid /\ e.passed = w.passed
    BY <1>1 DEF WalkState
  <2>. HIDE DEF e
  <2>2. GoodWalk(f, s, qid, e, k + 1)  BY <1>1, <2>1 DEF GoodWalk
  <2>. QED  BY <1>2, <2>2 DEF e
<1>3. ASSUME NEW q, QidOK(q, f, nq), Here(qid, f) => Here(q, f), q.name \in {NULL, s}
      PROVE  GoodWalk(f, s, qid, Stay(w, q), k + 1)
  <2>. DEFINE e == Stay(w, q)
  <2>1. q \in Qid  BY <1>3 DEF QidOK
  <2>2. e \in WalkState(k + 1) /\ e.qid = q
    <3>1. w \in [qid : Qid, passed : 0 .. k, going : BOOLEAN]  BY <1>1 DEF WalkState
    <3>. DEFINE v == [w EXCEPT !.qid = q]
    <3>2. v \in [qid : Qid, passed : 0 .. k, going : BOOLEAN] /\ v.qid = q
      BY <2>1, <3>1
    <3>3. e = [v EXCEPT !.passed = w.passed + 1]  BY DEF Stay
    <3>. HIDE DEF e, v
    <3>. QED  BY <1>1, <3>2, <3>3 DEF WalkState
  <2>. HIDE DEF e
  <2>3. GoodWalk(f, s, qid, e, k + 1)  BY <1>3, <2>2 DEF GoodWalk
  <2>. QED  BY <2>3 DEF e
<1>4. CASE w.qid.dir /\ WalkName(f, s, w, n) = Stay(w, w.qid)
  <2>1. w.qid.name = NULL  BY <1>1, <1>4 DEF QidOK
  <2>. QED  BY <1>1, <1>3, <1>4, <2>1
<1>5. CASE w.qid.path \in DOMAIN f /\ WalkName(f, s, w, n) = Stay(w, Up(f, w.qid))
  BY <1>1, <1>3, <1>5, UpQid
<1>6. CASE WalkName(f, s, w, n) = Stay(w, DeviceQid(s))
  BY <1>3, <1>6, DeviceQidOK
<1>7. ASSUME NEW q \in DOMAIN f, WalkName(f, s, w, n) = Stay(w, FileQid(f, q))
      PROVE  GoodWalk(f, s, qid, WalkName(f, s, w, n), k + 1)
  <2>1. nq - 1 <= MaxPath /\ nq \in Nat  BY StyxAssumption
  <2>. QED  BY <1>3, <1>7, <2>1, FileQidOK
<1>. QED  BY <1>1, <1>2, <1>4, <1>5, <1>6, <1>7, WalkNameWays

\* Where a walk comes to, whatever its names.
LEMMA DevWalkFacts ==
  ASSUME NEW f, Tidy(f, nq), nq \in 4 .. MaxPath + 1, NEW s \in Strings \cup {NULL}, NEW qid,
         QidOK(qid, f, nq), NEW names \in Walks
  PROVE  GoodWalk(f, s, qid, DevWalk(f, s, qid, names), Len(names))
<1>. DEFINE N == Len(names)
            start == [qid |-> qid, passed |-> 0, going |-> TRUE]
            next(v, k) == IF k = 0 THEN start ELSE WalkName(f, s, v, names[k])
            good(v, k) == GoodWalk(f, s, qid, v, k)
<1>1. N \in Nat
  BY LenProperties, StyxAssumption
<1>2. good(start, 0)
  <2>1. qid \in Qid  BY DEF QidOK
  <2>. QED  BY <2>1 DEF GoodWalk, WalkState
<1>. HIDE DEF N, start, next
<1>3. \E g : g = [k \in 0 .. N |-> next(g[k - 1], k)]
  <2>. DEFINE T == {m \in Nat : \E g : g = [k \in 0 .. m |-> next(g[k - 1], k)]}
  <2>1. 0 \in T
    <3>. DEFINE g == [k \in 0 .. 0 |-> start]
    <3>1. g = [k \in 0 .. 0 |-> next(g[k - 1], k)]  BY DEF next
    <3>. QED  BY <3>1
  <2>2. ASSUME NEW m \in Nat, m \in T PROVE m + 1 \in T
    <3>1. PICK g : g = [k \in 0 .. m |-> next(g[k - 1], k)]  BY <2>2
    <3>. DEFINE h == [k \in 0 .. m + 1 |-> IF k = m + 1 THEN next(g[m], k) ELSE g[k]]
    <3>2. ASSUME NEW k \in 0 .. m + 1 PROVE h[k] = next(h[k - 1], k)
      <4>1. CASE k = m + 1
        <5>1. m \in 0 .. m + 1 /\ m # m + 1 /\ k - 1 = m  BY <4>1
        <5>2. h[k - 1] = g[m]  BY <5>1
        <5>. QED  BY <4>1, <5>2
      <4>2. CASE k # m + 1 /\ k # 0
        <5>1. /\ k \in 0 .. m /\ k - 1 \in 0 .. m + 1 /\ k - 1 # m + 1  BY <4>2
        <5>2. h[k] = g[k] /\ h[k - 1] = g[k - 1]  BY <4>2, <5>1
        <5>3. g[k] = next(g[k - 1], k)  BY <3>1, <5>1
        <5>. QED  BY <5>2, <5>3
      <4>3. CASE k # m + 1 /\ k = 0
        <5>1. k \in 0 .. m  BY <4>3
        <5>2. h[k] = g[k] /\ g[k] = next(g[k - 1], k)  BY <3>1, <4>3, <5>1
        <5>. QED  BY <4>3, <5>2 DEF next
      <4>. QED  BY <4>1, <4>2, <4>3
    <3>3. h = [k \in 0 .. m + 1 |-> next(h[k - 1], k)]
      <4>1. h = [k \in 0 .. m + 1 |-> h[k]]  OBVIOUS
      <4>. HIDE DEF h
      <4>. QED  BY <3>2, <4>1
    <3>. HIDE DEF h
    <3>4. \E g2 : g2 = [k \in 0 .. m + 1 |-> next(g2[k - 1], k)]  BY <3>3
    <3>5. m + 1 \in Nat  OBVIOUS
    <3>. QED  BY Zenon, <3>4, <3>5
  <2>. HIDE DEF T
  <2>3. N \in T  BY <1>1, <2>1, <2>2, Induction
  <2>. QED  BY <2>3 DEF T
<1>. DEFINE walk == CHOOSE g : g = [k \in 0 .. N |-> next(g[k - 1], k)]
<1>4. walk = [k \in 0 .. N |-> next(walk[k - 1], k)]  BY <1>3
<1>5. DevWalk(f, s, qid, names) = walk[N]  BY DEF DevWalk, walk, next, start, N
<1>. HIDE DEF walk, good
<1>6. good(walk[N], N)
  <2>. DEFINE T == {m \in Nat : m <= N => good(walk[m], m)}
  <2>1. 0 \in T
    <3>1. walk[0] = start  BY <1>1, <1>4 DEF next
    <3>. QED  BY <1>2, <3>1
  <2>2. ASSUME NEW m \in Nat, m \in T PROVE m + 1 \in T
    <3>. SUFFICES ASSUME m + 1 <= N PROVE good(walk[m + 1], m + 1)  OBVIOUS
    <3>1. good(walk[m], m)  BY <1>1, <2>2
    <3>2. m + 1 \in 0 .. N /\ m + 1 # 0 /\ (m + 1) - 1 = m  BY <1>1
    <3>3. walk[m + 1] = WalkName(f, s, walk[m], names[m + 1])
      <4>1. walk[m + 1] = next(walk[(m + 1) - 1], m + 1)  BY <1>4, <3>2
      <4>. QED  BY <4>1, <3>2 DEF next
    <3>. QED  BY <3>1, <3>3, WalkNameGood DEF good
  <2>. HIDE DEF T
  <2>3. N \in T  BY <1>1, <2>1, <2>2, Induction
  <2>. QED  BY <1>1, <2>3 DEF T
<1>. QED  BY <1>5, <1>6 DEF good, N

----------------------------------------------------------------------------
(* The fids of the clients.                                                 *)

LEMMA SetFacts ==
  ASSUME NEW fs \in FidTable, NEW c \in Clients, NEW i \in Fids, NEW fid \in FidState
  PROVE  /\ SetFid(fs, c, i, fid) \in FidTable
         /\ Used(SetFid(fs, c, i, fid)) = Used(fs) \cup {<<c, i>>}
         /\ \A ci \in Clients \X Fids :
              At(SetFid(fs, c, i, fid), ci) = IF ci = <<c, i>> THEN fid ELSE At(fs, ci)
<1>. DEFINE r == [fs[c] EXCEPT ![i] = fid]
            g == [fs EXCEPT ![c] = r]
<1>1. g = SetFid(fs, c, i, fid)  BY DEF SetFid
<1>2. fs[c] \in [Fids -> FidState \cup {NULL}]  BY DEF FidTable
<1>3. r \in [Fids -> FidState \cup {NULL}] /\ \A k \in Fids : r[k] = IF k = i THEN fid ELSE fs[c][k]
  BY <1>2
<1>. HIDE DEF r
<1>4. g \in FidTable /\ \A d \in Clients : g[d] = IF d = c THEN r ELSE fs[d]
  BY <1>3 DEF FidTable
<1>. HIDE DEF g
<1>5. ASSUME NEW ci \in Clients \X Fids
      PROVE  At(g, ci) = IF ci = <<c, i>> THEN fid ELSE At(fs, ci)
  <2>1. ci = <<ci[1], ci[2]>> /\ ci[1] \in Clients /\ ci[2] \in Fids  OBVIOUS
  <2>2. g[ci[1]][ci[2]] = IF ci[1] = c /\ ci[2] = i THEN fid ELSE fs[ci[1]][ci[2]]
    BY <1>3, <1>4, <2>1
  <2>3. ci = <<c, i>> <=> ci[1] = c /\ ci[2] = i  BY <2>1
  <2>. QED  BY <2>2, <2>3 DEF At
<1>6. \A h : Used(h) = {ci \in Clients \X Fids : At(h, ci) # NULL}  BY DEF Used, At
<1>7. <<c, i>> \in Clients \X Fids /\ fid # NULL  BY NoFid
<1>8. Used(g) = Used(fs) \cup {<<c, i>>}  BY <1>5, <1>6, <1>7
<1>. QED  BY <1>1, <1>4, <1>5, <1>8

LEMMA DeleteFacts ==
  ASSUME NEW fs \in FidTable, NEW c \in Clients, NEW i \in Fids
  PROVE  /\ DeleteFid(fs, c, i) \in FidTable
         /\ Used(DeleteFid(fs, c, i)) = Used(fs) \ {<<c, i>>}
         /\ \A ci \in Clients \X Fids :
              ci # <<c, i>> => At(DeleteFid(fs, c, i), ci) = At(fs, ci)
<1>. DEFINE r == [fs[c] EXCEPT ![i] = NULL]
            g == [fs EXCEPT ![c] = r]
<1>1. g = DeleteFid(fs, c, i)  BY DEF DeleteFid
<1>2. fs[c] \in [Fids -> FidState \cup {NULL}]  BY DEF FidTable
<1>3. r \in [Fids -> FidState \cup {NULL}] /\ \A k \in Fids : r[k] = IF k = i THEN NULL ELSE fs[c][k]
  BY <1>2
<1>. HIDE DEF r
<1>4. g \in FidTable /\ \A d \in Clients : g[d] = IF d = c THEN r ELSE fs[d]
  BY <1>3 DEF FidTable
<1>. HIDE DEF g
<1>5. ASSUME NEW ci \in Clients \X Fids
      PROVE  At(g, ci) = IF ci = <<c, i>> THEN NULL ELSE At(fs, ci)
  <2>1. ci = <<ci[1], ci[2]>> /\ ci[1] \in Clients /\ ci[2] \in Fids  OBVIOUS
  <2>2. g[ci[1]][ci[2]] = IF ci[1] = c /\ ci[2] = i THEN NULL ELSE fs[ci[1]][ci[2]]
    BY <1>3, <1>4, <2>1
  <2>3. ci = <<c, i>> <=> ci[1] = c /\ ci[2] = i  BY <2>1
  <2>. QED  BY <2>2, <2>3 DEF At
<1>6. \A h : Used(h) = {ci \in Clients \X Fids : At(h, ci) # NULL}  BY DEF Used, At
<1>7. <<c, i>> \in Clients \X Fids  OBVIOUS
<1>8. Used(g) = Used(fs) \ {<<c, i>>}  BY <1>5, <1>6, <1>7
<1>. QED  BY <1>1, <1>4, <1>5, <1>8

\* All fids of a client go.
FreeFids(fs, c) == [fs EXCEPT ![c] = [i \in Fids |-> NULL]]

LEMMA FreeFacts ==
  ASSUME NEW fs \in FidTable, NEW c \in Clients
  PROVE  /\ FreeFids(fs, c) \in FidTable
         /\ Used(FreeFids(fs, c)) = {ci \in Used(fs) : ci[1] # c}
         /\ \A ci \in Used(FreeFids(fs, c)) : At(FreeFids(fs, c), ci) = At(fs, ci)
<1>. DEFINE g == FreeFids(fs, c)
<1>1. g \in FidTable /\ \A d \in Clients : g[d] = IF d = c THEN [i \in Fids |-> NULL] ELSE fs[d]
  BY DEF FidTable, FreeFids
<1>. HIDE DEF g
<1>2. ASSUME NEW ci \in Clients \X Fids
      PROVE  At(g, ci) = IF ci[1] = c THEN NULL ELSE At(fs, ci)
  BY <1>1 DEF At
<1>3. \A h : Used(h) = {ci \in Clients \X Fids : At(h, ci) # NULL}  BY DEF Used, At
<1>4. /\ g \in FidTable /\ Used(g) = {ci \in Used(fs) : ci[1] # c}
      /\ \A ci \in Used(g) : At(g, ci) = At(fs, ci)
  BY <1>1, <1>2, <1>3
<1>. QED  BY <1>4 DEF g

LEMMA UsedFacts ==
  ASSUME NEW fs \in FidTable
  PROVE  /\ \A ci \in Used(fs) : At(fs, ci) \in FidState /\ ci \in Clients \X Fids
         /\ \A c \in Clients, i \in Fids :
              /\ At(fs, <<c, i>>) = fs[c][i]
              /\ fs[c][i] # NULL => fs[c][i] \in FidState /\ <<c, i>> \in Used(fs)
BY DEF FidTable, Used, At

\* A fid that is moved after its old one went.
LEMMA SetDeleted ==
  ASSUME NEW fs \in FidTable, NEW c \in Clients, NEW i \in Fids, NEW fid
  PROVE  SetFid(DeleteFid(fs, c, i), c, i, fid) = SetFid(fs, c, i, fid)
<1>1. fs[c] \in [Fids -> FidState \cup {NULL}] /\ fs \in [Clients -> [Fids -> FidState \cup {NULL}]]
  BY DEF FidTable
<1>. QED  BY <1>1 DEF SetFid, DeleteFid

----------------------------------------------------------------------------
(* The parts of the inductive invariant.                                    *)

GhostsOK ==
  /\ nq \in 4 .. MaxPath + 1 /\ qidgen \in 1 .. MaxPath + 1
  /\ doomed \subseteq 0 .. nq - 1
  /\ spoilt \subseteq {"shared", "selfwalk", "removed", "request"}
  /\ wild \in BOOLEAN /\ down \in BOOLEAN

FilesOK == Tidy(files, nq)

FidsOK == fids \in FidTable /\ \A ci \in Used(fids) : FidOK(At(fids, ci), files, nq)

\* The name of a device belongs to one fid and is allocated, unless a client cloned its fid.
OneName(fs) ==
  \A ci, cj \in Used(fs) :
    At(fs, ci).qid.name = At(fs, cj).qid.name => ci = cj \/ At(fs, ci).qid.name = NULL
NamesOK ==
  /\ heap \subseteq Strings
  /\ "shared" \notin spoilt =>
       /\ ~ wild /\ OneName(fids)
       /\ \A ci \in Used(fids) : At(fids, ci).qid.name \in heap \cup {NULL}

HereOK == "removed" \notin spoilt => \A ci \in Used(fids) : Here(At(fids, ci).qid, files)

StopOK == down => spoilt # {}

Inv == GhostsOK /\ FilesOK /\ FidsOK /\ NamesOK /\ HereOK /\ StopOK

\* From f to g no file comes below the qid n, and none changes what it is.
Grown(f, g, n, m) ==
  /\ n <= m
  /\ \A p \in DOMAIN g : p \in 0 .. n - 1 => p \in DOMAIN f /\ g[p].dir = f[p].dir

LEMMA GrownFid ==
  ASSUME NEW f, NEW g, NEW n \in Nat, NEW m \in Nat, Grown(f, g, n, m), DOMAIN g \subseteq Nat,
         NEW fid, FidOK(fid, f, n)
  PROVE  FidOK(fid, g, m)
<1>1. QidOK(fid.qid, f, n)  BY DEF FidOK
<1>2. DevPath \notin Nat /\ 0 .. n - 1 \subseteq 0 .. m - 1  BY DEF Grown, DevPath
<1>3. fid.qid.path \in DOMAIN g => fid.qid.path \in DOMAIN f /\ g[fid.qid.path].dir = f[fid.qid.path].dir
  BY <1>1, <1>2 DEF QidOK, Grown
<1>4. QidOK(fid.qid, g, m)  BY <1>1, <1>2, <1>3 DEF QidOK
<1>. QED  BY <1>4 DEF FidOK

LEMMA ShapeGrown ==
  ASSUME NEW f, NEW g, NEW n \in Nat, Shape(f, g)
  PROVE  Grown(f, g, n, n)
BY DEF Shape, Grown

LEMMA OpeningOK ==
  ASSUME NEW f, NEW n, NEW q, QidOK(q, f, n)
  PROVE  FidOK(Opening(q), f, n) /\ Opening(q).qid = q /\ Opening(q) \in FidState
<1>1. q \in Qid  BY DEF QidOK
<1>2. Opening(q) \in FidState /\ Opening(q).qid = q /\ Opening(q).rclose = FALSE
  BY <1>1 DEF Opening, FidState
<1>. QED  BY <1>2 DEF FidOK

----------------------------------------------------------------------------
(* The files.                                                               *)

\* What a step does to the files: to their counts, to a name, a file more or one less.
Recounted == Shape(files, files') /\ (nq' = nq \/ (nq' = nq + 1 /\ nq \in Paths))

Renamed(p, m) ==
  /\ files' = [files EXCEPT ![p].name = m] /\ UNCHANGED nq
  /\ \/ m = Mangled
     \/ m \in NewNames \cup {"dev"} /\ Children(files, files[p].parent, m) = {}

Grew(d, n, isDir) ==
  /\ files[d].dir /\ Children(files, d, n) = {} /\ nq \in Paths /\ nq' = nq + 1
  /\ Shape(With(files, nq, Entry(d, isDir, n, "root")), files')

Shrank(p, f) == Shape(files, f) /\ Removable(p) /\ files' = Without(f, p) /\ UNCHANGED nq

Change ==
  \/ Recounted
  \/ \E p \in DOMAIN files, m \in Names : Renamed(p, m)
  \/ \E d \in DOMAIN files, n \in NewNames, isDir \in BOOLEAN : Grew(d, n, isDir)
  \/ \E p, f : Shrank(p, f)

\* A file of a table of the same shape goes, when the server finds it is to.
LEMMA LeftFiles ==
  ASSUME NEW f, Shape(files, f), NEW p, files' = Left(p, f), UNCHANGED nq
  PROVE  Change
<1>1. CASE Removable(p)
  <2>1. Shrank(p, f)  BY <1>1 DEF Left, Shrank
  <2>. QED  BY <2>1 DEF Change
<1>2. CASE ~ Removable(p)
  <2>1. files' = f  BY <1>2 DEF Left
  <2>. QED  BY <2>1 DEF Change, Recounted
<1>. QED  BY <1>1, <1>2

LEMMA OldShape ==
  ASSUME FilesOK, NEW fs, NEW c, NEW i
  PROVE  Shape(files, Forget(fs, c, i).f)
<1>1. Typed(files)  BY TidyTyped DEF FilesOK
<1>2. Forget(fs, c, i).f = files \/ Forget(fs, c, i).f = Release(files, fs[c][i])  BY DEF Forget
<1>. QED  BY <1>1, <1>2, SameShape, ReleaseShape

LEMMA CreatedShape ==
  ASSUME NEW f, Typed(f), NEW p, NEW q, NEW fid
  PROVE  Shape(f, AddOpen(AddRef(AddRef(f, p, -1), q, 1), fid, 1))
<1>. DEFINE g == AddRef(f, p, -1)
            h == AddRef(g, q, 1)
<1>1. Shape(f, g) /\ Typed(g)  BY AddRefShape, ShapeTyped
<1>. HIDE DEF g
<1>2. Shape(g, h) /\ Typed(h)  BY <1>1, AddRefShape, ShapeTyped
<1>. HIDE DEF h
<1>3. Shape(h, AddOpen(h, fid, 1))  BY <1>2, AddOpenShape
<1>4. Shape(f, AddOpen(h, fid, 1))  BY <1>1, <1>2, <1>3, ShapeTransitive
<1>. QED  BY <1>4 DEF g, h

\* Every step is one of these.
LEMMA FilesChange ==
  ASSUME GhostsOK, FilesOK, FidsOK, [Next]_vars
  PROVE  Change
<1>1. ASSUME NEW c \in Clients,
             FreeClient(c)
      PROVE  Change
  <2>. DEFINE refs(p) == Cardinality({i \in {k \in Fids : fids[c][k] # NULL} : fids[c][i].qid.path = p})
              opens(p) == Cardinality({i \in {k \in {l \in Fids : fids[c][l] # NULL} : fids[c][k].qid.path = p} : fids[c][i].open})
              e(p) == [files[p] EXCEPT !.ref = files[p].ref - refs(p), !.open = files[p].open - opens(p)]
  <2>1. files' = [p \in DOMAIN files |-> e(p)] /\ UNCHANGED nq
    BY <1>1 DEF FreeClient, Serve
  <2>2. \A p \in DOMAIN files : refs(p) \in Int /\ opens(p) \in Int
    <3>1. \A S : S \subseteq Fids => Cardinality(S) \in Int
      BY FS_Subset, FS_CardinalityType, StyxAssumption
    <3>. QED  BY <3>1
  <2>. HIDE DEF refs, opens
  <2>3. \A p \in DOMAIN files : /\ e(p) \in FileType /\ e(p).parent = files[p].parent
                                /\ e(p).dir = files[p].dir /\ e(p).name = files[p].name
                                /\ e(p).type = files[p].type
    <3>1. \A p \in DOMAIN files : files[p] \in FileType  BY DEF FilesOK, Tidy
    <3>. SUFFICES ASSUME NEW p \in DOMAIN files
                  PROVE  /\ e(p) \in FileType /\ e(p).parent = files[p].parent
                         /\ e(p).dir = files[p].dir /\ e(p).name = files[p].name
                         /\ e(p).type = files[p].type
      OBVIOUS
    <3>. DEFINE v == [files[p] EXCEPT !.ref = files[p].ref - refs(p)]
    <3>2. files[p].ref - refs(p) \in Int /\ files[p].open - opens(p) \in Int
      BY <2>2, <3>1 DEF FileType
    <3>3. /\ v \in FileType /\ v.parent = files[p].parent /\ v.dir = files[p].dir
          /\ v.name = files[p].name /\ v.type = files[p].type
      BY <3>1, <3>2 DEF FileType
    <3>4. e(p) = [v EXCEPT !.open = files[p].open - opens(p)]  OBVIOUS
    <3>. HIDE DEF v, e
    <3>. QED  BY <3>2, <3>3, <3>4 DEF FileType
  <2>. HIDE DEF e
  <2>4. Shape(files, files')  BY <2>1, <2>3 DEF Shape
  <2>. QED  BY <2>1, <2>4 DEF Change, Recounted
<1>2. ASSUME NEW c \in Clients, NEW i \in Fids,
             Tattach(c, i)
      PROVE  Change
  <2>1. files' = AddRef(files, Qroot, 1) /\ UNCHANGED nq  BY <1>2 DEF Tattach, Serve, Keep
  <2>2. Shape(files, files')  BY <2>1, AddRefShape, TidyTyped DEF FilesOK
  <2>. QED  BY <2>1, <2>2 DEF Change, Recounted
<1>3. ASSUME NEW c \in Clients, NEW i \in Fids, NEW j \in Fids, NEW names \in Walks,
             Twalk(c, i, j, names)
      PROVE  Change
  <2>. DEFINE f == Forget(fids, c, j).f
  <2>1. /\ files' = f \/ \E p : files' = AddRef(f, p, 1)
        /\ UNCHANGED nq
    BY <1>3 DEF Twalk, Serve
  <2>2. Shape(files, f)  BY OldShape
  <2>. HIDE DEF f
  <2>3. Shape(files, files')  BY <2>1, <2>2, AddRefShape, ShapeTyped, ShapeTransitive
  <2>. QED  BY <2>1, <2>3 DEF Change, Recounted
<1>4. ASSUME NEW c \in Clients, NEW i \in Fids, NEW names \in Walks,
             TwalkSelf(c, i, names)
      PROVE  Change
  <2>. DEFINE f == Release(files, fids[c][i])
  <2>1. /\ files' = f \/ \E p, q : files' = AddRef(AddRef(f, p, -1), q, 1)
        /\ UNCHANGED nq
    BY <1>4 DEF TwalkSelf, Serve
  <2>2. Shape(files, f)  BY ReleaseShape, TidyTyped DEF FilesOK
  <2>. HIDE DEF f
  <2>3. ASSUME NEW p PROVE Shape(f, AddRef(f, p, -1))
    BY <2>2, AddRefShape, ShapeTyped
  <2>4. ASSUME NEW p, NEW q PROVE Shape(f, AddRef(AddRef(f, p, -1), q, 1))
    <3>. DEFINE g == AddRef(f, p, -1)
    <3>1. Shape(f, g)  BY <2>3
    <3>. HIDE DEF g
    <3>2. Shape(g, AddRef(g, q, 1))  BY <3>1, AddRefShape, ShapeTyped
    <3>3. Shape(f, AddRef(g, q, 1))  BY <3>1, <3>2, ShapeTransitive
    <3>. QED  BY <3>3 DEF g
  <2>5. Shape(files, files')  BY <2>1, <2>2, <2>4, ShapeTransitive
  <2>. QED  BY <2>1, <2>5 DEF Change, Recounted
<1>5. ASSUME NEW c \in Clients, NEW i \in Fids, NEW rclose \in BOOLEAN,
             Topen(c, i, rclose)
      PROVE  Change
  <2>1. /\ \E fid : files' = AddOpen(files, fid, 1)
        /\ UNCHANGED nq
    BY <1>5 DEF Topen, Serve
  <2>2. Shape(files, files')  BY <2>1, AddOpenShape, TidyTyped DEF FilesOK
  <2>. QED  BY <2>1, <2>2 DEF Change, Recounted
<1>6. ASSUME NEW c \in Clients, NEW i \in Fids, NEW n \in NewNames, NEW isDir \in BOOLEAN, NEW rclose \in BOOLEAN,
             Tcreate(c, i, n, isDir, rclose)
      PROVE  Change
  <2>. DEFINE p == fids[c][i].qid.path
              f == With(files, nq, Entry(p, isDir, n, "root"))
              made == [qid |-> FileQid(f, nq), open |-> TRUE, rclose |-> rclose]
              g == AddOpen(AddRef(AddRef(f, p, -1), nq, 1), made, 1)
  <2>1. nq' = nq + 1 /\ nq \in Nat /\ nq \in Paths
    BY <1>6, StyxAssumption DEF Tcreate, GhostsOK, Paths
  <2>2. CASE files' = files
    <3>1. Shape(files, files')  BY <2>2, SameShape, TidyTyped DEF FilesOK
    <3>. QED  BY <2>1, <3>1 DEF Change, Recounted
  <2>3. CASE p \in DOMAIN files /\ files[p].dir /\ Children(files, p, n) = {} /\ files' = g
    <3>1. Tidy(f, nq + 1)
      <4>1. n \in Names  BY DEF Names
      <4>. QED  BY <2>1, <2>3, <4>1, WithTidy DEF FilesOK
    <3>2. Typed(f)  BY <3>1, TidyTyped
    <3>3. Shape(f, g)
      <4>. HIDE DEF f, made
      <4>. QED  BY <3>2, CreatedShape
    <3>. HIDE DEF g
    <3>4. Grew(p, n, isDir)  BY <2>1, <2>3, <3>3 DEF Grew
    <3>. QED  BY <2>3, <3>4 DEF Change
  <2>4. \/ files' = files
        \/ p \in DOMAIN files /\ files[p].dir /\ Children(files, p, n) = {} /\ files' = g
    BY <1>6 DEF Tcreate, Serve, Addable
  <2>. QED  BY <2>2, <2>3, <2>4
<1>7. ASSUME NEW c \in Clients, NEW i \in Fids,
             Tclunk(c, i)
      PROVE  Change
  <2>. DEFINE f == Release(files, fids[c][i])
  <2>1. /\ files' = f \/ files' = Left(fids[c][i].qid.path, f)
        /\ UNCHANGED nq
    BY <1>7 DEF Tclunk, Serve
  <2>2. Shape(files, f)  BY ReleaseShape, TidyTyped DEF FilesOK
  <2>. HIDE DEF f
  <2>. QED  BY <2>1, <2>2, LeftFiles DEF Change, Recounted
<1>8. ASSUME NEW c \in Clients, NEW i \in Fids,
             Tremove(c, i)
      PROVE  Change
  <2>. DEFINE f == Release(files, fids[c][i])
  <2>1. /\ files' = f \/ files' = Left(fids[c][i].qid.path, f)
        /\ UNCHANGED nq
    BY <1>8 DEF Tremove, Serve
  <2>2. Shape(files, f)  BY ReleaseShape, TidyTyped DEF FilesOK
  <2>. HIDE DEF f
  <2>. QED  BY <2>1, <2>2, LeftFiles DEF Change, Recounted
<1>9. ASSUME NEW c \in Clients, NEW i \in Fids, NEW n \in NewNames \cup {"dev"},
             Twstat(c, i, n)
      PROVE  Change
  <2>1. nq' = nq  BY <1>9 DEF Twstat
  <2>2. CASE files' = files
    <3>1. Shape(files, files')  BY <2>2, SameShape, TidyTyped DEF FilesOK
    <3>. QED  BY <2>1, <3>1 DEF Change, Recounted
  <2>3. ASSUME NEW m \in {n, Mangled}, files' = [files EXCEPT ![fids[c][i].qid.path].name = m],
               m = Mangled \/ Children(files, files[fids[c][i].qid.path].parent, m) = {},
               fids[c][i].qid.path \in DOMAIN files
        PROVE  Change
    <3>. DEFINE p == fids[c][i].qid.path
    <3>. HIDE DEF p
    <3>1. m \in Names /\ (m = Mangled \/ m \in NewNames \cup {"dev"})  BY DEF Names
    <3>2. Renamed(p, m)  BY <2>1, <2>3, <3>1 DEF Renamed, p
    <3>3. p \in DOMAIN files  BY <2>3 DEF p
    <3>. QED  BY <3>1, <3>2, <3>3 DEF Change
  <2>4. \/ files' = files
        \/ \E m \in {n, Mangled} :
             /\ files' = [files EXCEPT ![fids[c][i].qid.path].name = m]
             /\ m = Mangled \/ Children(files, files[fids[c][i].qid.path].parent, m) = {}
             /\ fids[c][i].qid.path \in DOMAIN files
    BY <1>9 DEF Twstat, Serve, Addable
  <2>. QED  BY <2>2, <2>3, <2>4
<1>10. ASSUME NEW c \in Clients, NEW i \in Fids,
             NilFile(c, i)
      PROVE  Change
  <2>1. files' = files /\ UNCHANGED nq  BY <1>10 DEF NilFile, Stop
  <2>2. Shape(files, files')  BY <2>1, SameShape, TidyTyped DEF FilesOK
  <2>. QED  BY <2>1, <2>2 DEF Change, Recounted
<1>11. ASSUME NEW c \in Clients, NEW i \in Fids,
             FatalRequest(c, i)
      PROVE  Change
  <2>1. files' = files /\ UNCHANGED nq  BY <1>11 DEF FatalRequest, Stop
  <2>2. Shape(files, files')  BY <2>1, SameShape, TidyTyped DEF FilesOK
  <2>. QED  BY <2>1, <2>2 DEF Change, Recounted
<1>12. CASE UNCHANGED vars
  <2>1. files' = files /\ UNCHANGED nq  BY <1>12 DEF vars
  <2>2. Shape(files, files')  BY <2>1, SameShape, TidyTyped DEF FilesOK
  <2>. QED  BY <2>1, <2>2 DEF Change, Recounted
<1>. QED  BY <1>1, <1>2, <1>3, <1>4, <1>5, <1>6, <1>7, <1>8, <1>9, <1>10, <1>11, <1>12 DEF
            Next

\* Every file stays in a directory of the table, and what a qid names stays the same.
LEMMA FilesStep ==
  ASSUME GhostsOK, FilesOK, FidsOK, [Next]_vars
  PROVE  Tidy(files', nq') /\ Grown(files, files', nq, nq')
<1>1. nq \in Nat  BY StyxAssumption DEF GhostsOK
<1>2. CASE Recounted
  <2>1. Tidy(files', nq)  BY <1>2, ShapeTidy DEF Recounted, FilesOK
  <2>2. Tidy(files', nq')  BY <1>1, <1>2, <2>1 DEF Recounted, Tidy
  <2>3. Grown(files, files', nq, nq')  BY <1>1, <1>2 DEF Recounted, Shape, Grown
  <2>. QED  BY <2>2, <2>3
<1>3. ASSUME NEW p \in DOMAIN files, NEW m \in Names, Renamed(p, m)
      PROVE  Tidy(files', nq') /\ Grown(files, files', nq, nq')
  <2>. DEFINE e == [files[p] EXCEPT !.name = m]
  <2>1. files[p] \in FileType  BY DEF FilesOK, Tidy
  <2>2. e \in FileType /\ e.parent = files[p].parent /\ e.dir = files[p].dir /\ e.type = files[p].type
    BY <2>1 DEF FileType
  <2>. HIDE DEF e
  <2>3. /\ DOMAIN files' = DOMAIN files
        /\ \A q \in DOMAIN files : files'[q] = IF q = p THEN e ELSE files[q]
        /\ nq' = nq
    BY <1>3 DEF Renamed, e
  <2>4. Tidy(files', nq)  BY <2>2, <2>3 DEF FilesOK, Tidy
  <2>5. Grown(files, files', nq, nq)  BY <1>1, <2>2, <2>3 DEF Grown
  <2>. QED  BY <2>3, <2>4, <2>5
<1>4. ASSUME NEW d \in DOMAIN files, NEW n \in NewNames, NEW isDir \in BOOLEAN, Grew(d, n, isDir)
      PROVE  Tidy(files', nq') /\ Grown(files, files', nq, nq')
  <2>. DEFINE f == With(files, nq, Entry(d, isDir, n, "root"))
  <2>1. files[d].dir /\ nq \in Paths /\ nq' = nq + 1 /\ Shape(f, files')  BY <1>4 DEF Grew
  <2>2. Tidy(f, nq + 1) /\ nq \notin DOMAIN files
    <3>1. n \in Names  BY DEF Names
    <3>. QED  BY <2>1, <3>1, WithTidy DEF FilesOK
  <2>3. DOMAIN f = DOMAIN files \cup {nq} /\ \A q \in DOMAIN files : f[q] = files[q]
    BY <2>2 DEF With
  <2>. HIDE DEF f
  <2>4. Tidy(files', nq + 1)  BY <2>1, <2>2, ShapeTidy
  <2>5. Grown(files, files', nq, nq + 1)  BY <1>1, <2>1, <2>3 DEF Grown, Shape
  <2>. QED  BY <2>1, <2>4, <2>5
<1>5. ASSUME NEW p, NEW f, Shrank(p, f)
      PROVE  Tidy(files', nq') /\ Grown(files, files', nq, nq')
  <2>1. Shape(files, f) /\ Removable(p) /\ files' = Without(f, p) /\ nq' = nq  BY <1>5 DEF Shrank
  <2>2. Tidy(f, nq)  BY <2>1, ShapeTidy DEF FilesOK
  <2>3. p # Qroot /\ Empty(f, p)  BY <2>1 DEF Removable, Empty, Shape
  <2>4. Tidy(files', nq)  BY <2>1, <2>2, <2>3, WithoutTidy
  <2>5. DOMAIN files' \subseteq DOMAIN files /\ \A q \in DOMAIN files' : files'[q].dir = files[q].dir
    BY <2>1 DEF Without, Shape
  <2>. QED  BY <1>1, <2>1, <2>4, <2>5 DEF Grown
<1>. QED  BY <1>2, <1>3, <1>4, <1>5, FilesChange DEF Change

----------------------------------------------------------------------------
(* What becomes of the fids.                                                *)

LEMMA PathFacts ==
  ASSUME GhostsOK
  PROVE  nq \in Nat /\ nq - 1 <= MaxPath /\ nq \in 4 .. MaxPath + 1 /\ MaxPath \in Nat
BY StyxAssumption DEF GhostsOK

\* A fid of a client as it is found.
LEMMA FidFacts ==
  ASSUME FidsOK, NEW c \in Clients, NEW i \in Fids, fids[c][i] # NULL
  PROVE  /\ <<c, i>> \in Used(fids) /\ At(fids, <<c, i>>) = fids[c][i]
         /\ fids[c][i] \in FidState /\ FidOK(fids[c][i], files, nq)
         /\ QidOK(fids[c][i].qid, files, nq) /\ fids[c][i].qid \in Qid
<1>1. fids \in FidTable  BY DEF FidsOK
<1>2. /\ <<c, i>> \in Used(fids) /\ At(fids, <<c, i>>) = fids[c][i]
      /\ fids[c][i] \in FidState
  BY <1>1, UsedFacts
<1>3. FidOK(fids[c][i], files, nq)  BY <1>2 DEF FidsOK
<1>. QED  BY <1>2, <1>3 DEF FidOK, FidState

LEMMA AttachFacts ==
  ASSUME GhostsOK, FilesOK, NEW c \in Clients, NEW i \in Fids, Tattach(c, i)
  PROVE  LET q == FileQid(files, Qroot)
         IN  /\ fids' = SetFid(fids, c, i, Opening(q))
             /\ QidOK(q, files, nq) /\ Here(q, files) /\ q.name = NULL
             /\ heap' = heap \cap Held(fids')
             /\ UNCHANGED <<nq, qidgen, doomed, spoilt, wild, down>>
<1>1. Qroot \in DOMAIN files /\ nq - 1 <= MaxPath /\ nq \in Nat
  BY PathFacts DEF FilesOK, Tidy
<1>2. /\ QidOK(FileQid(files, Qroot), files, nq) /\ Here(FileQid(files, Qroot), files)
      /\ FileQid(files, Qroot).name = NULL
  BY <1>1, FileQidOK DEF FilesOK
<1>3. /\ fids' = SetFid(fids, c, i, Opening(FileQid(files, Qroot)))
      /\ heap' = heap \cap Held(fids')
      /\ UNCHANGED <<nq, qidgen, doomed, spoilt, wild, down>>
  BY DEF Tattach, Serve, Keep
<1>. QED  BY <1>2, <1>3

Opened(fid, rclose) == [fid EXCEPT !.open = TRUE, !.rclose = rclose]

LEMMA OpenFacts ==
  ASSUME GhostsOK, FilesOK, FidsOK, NEW c \in Clients, NEW i \in Fids, NEW rclose \in BOOLEAN,
         Topen(c, i, rclose)
  PROVE  LET fid == Opened(fids[c][i], rclose)
         IN  /\ fids' = SetFid(fids, c, i, fid) /\ fids[c][i] # NULL
             /\ ~ fids[c][i].open /\ fid \in FidState
             /\ fid.qid = fids[c][i].qid /\ fid.open = TRUE /\ fid.rclose = rclose
             /\ FidOK(fid, files, nq)
             /\ heap' = heap \cap Held(fids')
             /\ doomed' = doomed \/ (fid.rclose = TRUE /\ doomed' = doomed \cup {fid.qid.path} /\ fid.qid.type = "root")
             /\ fid.rclose = TRUE /\ fid.qid.type = "root" => fid.qid.path \in doomed'
             /\ UNCHANGED <<nq, qidgen, spoilt, wild, down>>
<1>. DEFINE fid == fids[c][i]
            v == [fid EXCEPT !.open = TRUE]
            o == [v EXCEPT !.rclose = rclose]
<1>1. fid # NULL  BY DEF Topen
<1>2. fid \in FidState /\ FidOK(fid, files, nq)  BY <1>1, FidFacts
<1>3. /\ fids' = SetFid(fids, c, i, o)
      /\ rclose => ~ fid.qid.dir
      /\ heap' = heap \cap Held(fids')
      /\ doomed' = IF rclose /\ fid.qid.type = "root" THEN doomed \cup {fid.qid.path} ELSE doomed
      /\ UNCHANGED <<nq, qidgen, spoilt, wild, down>>
  BY DEF Topen, Serve
<1>. HIDE DEF fid
<1>4. v \in FidState /\ v.qid = fid.qid /\ v.open = TRUE  BY <1>2 DEF FidState
<1>. HIDE DEF v
<1>5. o \in FidState /\ o.qid = fid.qid /\ o.open = TRUE /\ o.rclose = rclose
  BY <1>4 DEF FidState
<1>6. o = Opened(fid, rclose)  BY DEF o, v, Opened
<1>. HIDE DEF o
<1>7. FidOK(o, files, nq)  BY <1>2, <1>3, <1>5 DEF FidOK
<1>8. /\ doomed' = doomed \/ (o.rclose = TRUE /\ doomed' = doomed \cup {o.qid.path} /\ o.qid.type = "root")
      /\ o.rclose = TRUE /\ o.qid.type = "root" => o.qid.path \in doomed'
  BY <1>3, <1>5
<1>9. ~ fids[c][i].open  BY DEF Topen
<1>. QED  BY <1>1, <1>3, <1>5, <1>6, <1>7, <1>8, <1>9 DEF fid

\* A walk to another number: a fid goes, and one may come.
LEMMA WalkFacts ==
  ASSUME GhostsOK, FilesOK, FidsOK, NamesOK,
         NEW c \in Clients, NEW i \in Fids, NEW j \in Fids, NEW names \in Walks,
         Twalk(c, i, j, names)
  PROVE  /\ fids[c][i] # NULL /\ i # j
         /\ \/ /\ fids' = DeleteFid(fids, c, j) /\ heap' = heap \cap Held(fids')
               /\ UNCHANGED spoilt
            \/ \E q :
                 /\ fids' = SetFid(fids, c, j, Opening(q))
                 /\ QidOK(q, files, nq) /\ (Here(fids[c][i].qid, files) => Here(q, files))
                 /\ heap' = (heap \cup {q.name}) \cap Held(fids')
                 /\ spoilt \subseteq spoilt' /\ spoilt' \subseteq spoilt \cup {"shared"}
                 /\ "shared" \notin spoilt' => q.name = NULL \/ q.name \notin heap
                 /\ ~ Opening(q).open
         /\ doomed' = doomed \ Forgotten(fids[c][j])
         /\ UNCHANGED <<nq, qidgen, wild, down>>
<1>. DEFINE fid == fids[c][i]
            old == Forget(fids, c, j)
            s == FreshString(heap)
            w == DevWalk(old.f, s, fid.qid, names)
<1>1. fid # NULL /\ i # j /\ fids \in FidTable  BY DEF Twalk, FidsOK
<1>2. fid \in FidState /\ QidOK(fid.qid, files, nq)  BY <1>1, FidFacts
<1>3. Shape(files, old.f) /\ old.fs = DeleteFid(fids, c, j)
  BY OldShape DEF Forget
<1>4. s \in Strings \cup {NULL} /\ (s = NULL \/ s \notin heap)
  BY DEF FreshString
<1>5. Tidy(old.f, nq) /\ QidOK(fid.qid, old.f, nq)
  BY <1>2, <1>3, ShapeTidy, ShapeQid DEF FilesOK
<1>6. GoodWalk(old.f, s, fid.qid, w, Len(names))
  <2>. HIDE DEF old, s, fid
  <2>. QED  BY <1>4, <1>5, PathFacts, DevWalkFacts
<1>7. Shape(old.f, files)
  BY <1>3 DEF Shape, FilesOK, Tidy
<1>8. /\ doomed' = doomed \ Forgotten(fids[c][j])
      /\ UNCHANGED <<nq, qidgen, wild, down>>
  BY DEF Twalk, Serve
<1>9. \/ /\ fids' = old.fs /\ heap' = heap \cap Held(fids') /\ UNCHANGED spoilt
      \/ /\ fids' = SetFid(old.fs, c, j, Opening(w.qid))
         /\ heap' = (heap \cup {w.qid.name}) \cap Held(fids')
         /\ w.passed = Len(names)
         /\ spoilt' = IF names = <<>> /\ w.qid.name # NULL THEN spoilt \cup {"shared"} ELSE spoilt
  <2>1. IF ~ fid.open /\ w.passed = Len(names)
        THEN /\ Serve(AddRef(old.f, w.qid.path, 1),
                      SetFid(old.fs, c, j, Opening(w.qid)), heap \cup {w.qid.name})
             /\ spoilt' = IF names = <<>> /\ w.qid.name # NULL
                          THEN spoilt \cup {"shared"} ELSE spoilt
        ELSE Serve(old.f, old.fs, heap) /\ UNCHANGED spoilt
    BY DEF Twalk
  <2>. HIDE DEF old, w, fid
  <2>. QED  BY <2>1 DEF Serve
<1>. HIDE DEF old, s, w, fid
<1>10. CASE fids' = old.fs /\ heap' = heap \cap Held(fids') /\ UNCHANGED spoilt
  BY <1>1, <1>3, <1>8, <1>10 DEF fid
<1>11. CASE /\ fids' = SetFid(old.fs, c, j, Opening(w.qid))
            /\ heap' = (heap \cup {w.qid.name}) \cap Held(fids')
            /\ w.passed = Len(names)
            /\ spoilt' = IF names = <<>> /\ w.qid.name # NULL THEN spoilt \cup {"shared"} ELSE spoilt
  <2>1. fids' = SetFid(fids, c, j, Opening(w.qid))  BY <1>1, <1>3, <1>11, SetDeleted
  <2>2. QidOK(w.qid, files, nq)  BY <1>6, <1>7, ShapeQid DEF GoodWalk
  <2>3. Here(fid.qid, files) => Here(w.qid, files)
    <3>1. DOMAIN old.f = DOMAIN files  BY <1>3 DEF Shape
    <3>. QED  BY <1>6, <3>1 DEF GoodWalk, Here
  <2>4. spoilt \subseteq spoilt' /\ spoilt' \subseteq spoilt \cup {"shared"}  BY <1>11
  <2>5. "shared" \notin spoilt' => w.qid.name = NULL \/ w.qid.name \notin heap
    <3>. SUFFICES ASSUME "shared" \notin spoilt', w.qid.name # NULL PROVE w.qid.name \notin heap
      OBVIOUS
    <3>1. names # <<>>  BY <1>11
    <3>2. Len(names) # 0
      <4>1. names \in Seq(STRING)  BY StyxAssumption
      <4>. QED  BY <3>1, <4>1, EmptySeq
    <3>3. w.qid.name \in {NULL, s}  BY <1>6, <1>11, <3>2 DEF GoodWalk
    <3>. QED  BY <1>4, <3>3
  <2>6. ~ Opening(w.qid).open  BY DEF Opening
  <2>. QED  BY <1>1, <1>8, <1>11, <2>1, <2>2, <2>3, <2>4, <2>5, <2>6 DEF fid
<1>. QED  BY <1>9, <1>10, <1>11

\* The fid of a directory moves to a file created in it.
Created(fid, c, i, rclose) ==
  /\ fids' = SetFid(fids, c, i, fid) /\ FidOK(fid, files', nq')
  /\ fid.open = TRUE /\ fid.rclose = rclose /\ fid.qid.path = nq
  /\ fid.qid.name = NULL /\ Here(fid.qid, files')
  /\ doomed' = IF rclose THEN doomed \cup {nq} ELSE doomed
  /\ \A p \in DOMAIN files : p \in DOMAIN files'
  /\ DOMAIN files' \subseteq DOMAIN files \cup {nq}
  /\ fids[c][i] # NULL /\ ~ fids[c][i].open

LEMMA CreateFacts ==
  ASSUME GhostsOK, FilesOK, FidsOK, NEW c \in Clients, NEW i \in Fids, NEW n \in NewNames,
         NEW isDir \in BOOLEAN, NEW rclose \in BOOLEAN, Tcreate(c, i, n, isDir, rclose)
  PROVE  /\ nq' = nq + 1 /\ heap' = heap \cap Held(fids')
         /\ \/ UNCHANGED <<files, fids, doomed>>
            \/ \E fid \in FidState : Created(fid, c, i, rclose)
         /\ UNCHANGED <<qidgen, spoilt, wild, down>>
<1>. DEFINE p == fids[c][i].qid.path
            f == With(files, nq, Entry(p, isDir, n, "root"))
            q == FileQid(f, nq)
            made == [qid |-> q, open |-> TRUE, rclose |-> rclose]
            g == AddOpen(AddRef(AddRef(f, p, -1), nq, 1), made, 1)
<1>1. nq' = nq + 1 /\ nq \in Nat /\ nq <= MaxPath /\ UNCHANGED <<qidgen, spoilt, wild, down>>
      /\ heap' = heap \cap Held(fids') /\ ~ (isDir /\ rclose) /\ nq \in Paths
  <2>1. nq \in Nat /\ nq <= MaxPath  BY PathFacts DEF Tcreate
  <2>2. nq \in Paths  BY <2>1, PathFacts DEF Paths
  <2>3. /\ nq' = nq + 1 /\ UNCHANGED <<qidgen, spoilt, wild, down>>
        /\ heap' = heap \cap Held(fids') /\ ~ (isDir /\ rclose)
    BY DEF Tcreate, Serve
  <2>. QED  BY <2>1, <2>2, <2>3
<1>2. \/ UNCHANGED <<files, fids, doomed>>
      \/ /\ p \in DOMAIN files /\ files[p].dir /\ files' = g /\ fids' = SetFid(fids, c, i, made)
         /\ doomed' = IF rclose THEN doomed \cup {nq} ELSE doomed
  BY DEF Tcreate, Serve, Addable
<1>3. CASE /\ p \in DOMAIN files /\ files[p].dir /\ files' = g /\ fids' = SetFid(fids, c, i, made)
           /\ doomed' = IF rclose THEN doomed \cup {nq} ELSE doomed
  <2>1. Tidy(f, nq + 1)
    <3>1. n \in Names  BY DEF Names
    <3>. QED  BY <1>1, <1>3, <3>1, WithTidy DEF FilesOK
  <2>2. DOMAIN f = DOMAIN files \cup {nq} /\ f[nq].dir = isDir
    BY DEF With, Entry
  <2>. HIDE DEF f
  <2>3. /\ QidOK(q, f, nq + 1) /\ Here(q, f) /\ q.name = NULL /\ q.path = nq /\ q.dir = isDir
    <3>1. (nq + 1) - 1 <= MaxPath /\ nq + 1 \in Nat /\ nq \in DOMAIN f  BY <1>1, <2>2
    <3>. QED  BY <2>1, <2>2, <3>1, FileQidOK
  <2>. HIDE DEF q
  <2>4. made \in FidState /\ made.qid = q /\ made.open = TRUE /\ made.rclose = rclose
    <3>1. q \in Qid  BY <2>3 DEF QidOK
    <3>. QED  BY <3>1 DEF FidState
  <2>. HIDE DEF made
  <2>5. Shape(f, g)  BY <2>1, CreatedShape, TidyTyped
  <2>. HIDE DEF g
  <2>6. QidOK(q, files', nq')  BY <1>1, <1>3, <2>3, <2>5, ShapeQid
  <2>7. DOMAIN files' = DOMAIN f  BY <1>3, <2>5 DEF Shape
  <2>8. FidOK(made, files', nq')  BY <1>1, <2>3, <2>4, <2>6 DEF FidOK
  <2>9. Here(made.qid, files')  BY <2>3, <2>4, <2>7 DEF Here
  <2>10. fids[c][i] # NULL /\ ~ fids[c][i].open  BY DEF Tcreate
  <2>11. Created(made, c, i, rclose)
    BY <1>3, <2>2, <2>3, <2>4, <2>7, <2>8, <2>9, <2>10 DEF Created
  <2>. QED  BY <1>1, <2>4, <2>11
<1>. QED  BY <1>1, <1>2, <1>3

----------------------------------------------------------------------------
LEMMA FidsSet ==
  ASSUME GhostsOK, FilesOK, FidsOK, Tidy(files', nq'), Grown(files, files', nq, nq'), nq' \in Nat,
         NEW c \in Clients, NEW i \in Fids, NEW fid, FidOK(fid, files', nq'),
         fids' = SetFid(fids, c, i, fid)
  PROVE  FidsOK'
<1>1. fid \in FidState /\ fids \in FidTable  BY DEF FidOK, FidsOK
<1>2. /\ fids' \in FidTable /\ Used(fids') = Used(fids) \cup {<<c, i>>}
      /\ \A ci \in Clients \X Fids : At(fids', ci) = IF ci = <<c, i>> THEN fid ELSE At(fids, ci)
  BY <1>1, SetFacts
<1>3. DOMAIN files' \subseteq Nat /\ nq \in Nat  BY PathFacts DEF Tidy
<1>4. ASSUME NEW ci \in Used(fids') PROVE FidOK(At(fids', ci), files', nq')
  <2>1. ci \in Clients \X Fids  BY DEF Used
  <2>2. CASE ci = <<c, i>>  BY <1>2, <2>1, <2>2
  <2>3. CASE ci # <<c, i>>
    <3>1. ci \in Used(fids) /\ At(fids', ci) = At(fids, ci)  BY <1>2, <2>1, <2>3
    <3>2. FidOK(At(fids, ci), files, nq)  BY <3>1 DEF FidsOK
    <3>. QED  BY <1>3, <3>1, <3>2, GrownFid
  <2>. QED  BY <2>2, <2>3
<1>. QED  BY <1>2, <1>4 DEF FidsOK

LEMMA FidsFewer ==
  ASSUME GhostsOK, FilesOK, FidsOK, Tidy(files', nq'), Grown(files, files', nq, nq'), nq' \in Nat,
         fids' \in FidTable, Used(fids') \subseteq Used(fids),
         \A ci \in Used(fids') : At(fids', ci) = At(fids, ci)
  PROVE  FidsOK'
<1>1. DOMAIN files' \subseteq Nat /\ nq \in Nat  BY PathFacts DEF Tidy
<1>2. ASSUME NEW ci \in Used(fids') PROVE FidOK(At(fids', ci), files', nq')
  <2>1. FidOK(At(fids, ci), files, nq)  BY DEF FidsOK
  <2>. QED  BY <1>1, <2>1, GrownFid
<1>. QED  BY <1>2 DEF FidsOK

\* One fid goes, or all of a client, and the others stay.
LEMMA FewerFacts ==
  ASSUME FidsOK, NEW c \in Clients, NEW i \in Fids,
         \/ fids' = DeleteFid(fids, c, i)
         \/ fids' = FreeFids(fids, c)
         \/ fids' = fids
  PROVE  /\ fids' \in FidTable /\ Used(fids') \subseteq Used(fids)
         /\ \A ci \in Used(fids') : At(fids', ci) = At(fids, ci) /\ ci \in Clients \X Fids
<1>1. fids \in FidTable  BY DEF FidsOK
<1>2. Used(fids') \subseteq Clients \X Fids  BY DEF Used
<1>3. CASE fids' = DeleteFid(fids, c, i)
  <2>1. /\ fids' \in FidTable /\ Used(fids') = Used(fids) \ {<<c, i>>}
        /\ \A ci \in Clients \X Fids : ci # <<c, i>> => At(fids', ci) = At(fids, ci)
    BY <1>1, <1>3, DeleteFacts
  <2>. QED  BY <1>2, <2>1
<1>4. CASE fids' = FreeFids(fids, c)
  BY <1>1, <1>2, <1>4, FreeFacts
<1>5. CASE fids' = fids  BY <1>1, <1>2, <1>5
<1>. QED  BY <1>3, <1>4, <1>5

\* The fids.
LEMMA FidsStep ==
  ASSUME GhostsOK, FilesOK, FidsOK, NamesOK, [Next]_vars
  PROVE  FidsOK'
<1>1. ASSUME NEW c \in Clients,
             FreeClient(c)
      PROVE  FidsOK'
  <2>1. Tidy(files', nq') /\ Grown(files, files', nq, nq') /\ nq' \in Nat
    <3>1. Tidy(files', nq') /\ Grown(files, files', nq, nq')  BY FilesStep
    <3>2. nq' = nq \/ nq' = nq + 1  BY <1>1 DEF FreeClient
    <3>. QED  BY <3>1, <3>2, PathFacts
  <2>2. fids' = FreeFids(fids, c)  BY <1>1 DEF FreeClient, Serve, FreeFids
  <2>3. fids' \in FidTable /\ Used(fids') \subseteq Used(fids)
        /\ \A ci \in Used(fids') : At(fids', ci) = At(fids, ci)
    BY <2>2, FreeFacts DEF FidsOK
  <2>. QED  BY <2>1, <2>3, FidsFewer
<1>2. ASSUME NEW c \in Clients, NEW i \in Fids,
             Tattach(c, i)
      PROVE  FidsOK'
  <2>1. Tidy(files', nq') /\ Grown(files, files', nq, nq') /\ nq' \in Nat
    <3>1. Tidy(files', nq') /\ Grown(files, files', nq, nq')  BY FilesStep
    <3>2. nq' = nq \/ nq' = nq + 1  BY <1>2 DEF Tattach, Keep
    <3>. QED  BY <3>1, <3>2, PathFacts
  <2>2. PICK q : fids' = SetFid(fids, c, i, Opening(q)) /\ QidOK(q, files, nq)
    BY <1>2, AttachFacts
  <2>3. FidOK(Opening(q), files', nq')
    <3>1. FidOK(Opening(q), files, nq)  BY <2>2, OpeningOK
    <3>2. DOMAIN files' \subseteq Nat /\ nq \in Nat  BY <2>1, PathFacts DEF Tidy
    <3>. QED  BY <2>1, <3>1, <3>2, GrownFid
  <2>. QED  BY <2>1, <2>2, <2>3, FidsSet
<1>3. ASSUME NEW c \in Clients, NEW i \in Fids, NEW j \in Fids, NEW names \in Walks,
             Twalk(c, i, j, names)
      PROVE  FidsOK'
  <2>1. Tidy(files', nq') /\ Grown(files, files', nq, nq') /\ nq' \in Nat
    <3>1. Tidy(files', nq') /\ Grown(files, files', nq, nq')  BY FilesStep
    <3>2. nq' = nq \/ nq' = nq + 1  BY <1>3 DEF Twalk
    <3>. QED  BY <3>1, <3>2, PathFacts
  <2>2. CASE fids' = DeleteFid(fids, c, j)
    BY <2>1, <2>2, FewerFacts, FidsFewer
  <2>3. ASSUME NEW q, fids' = SetFid(fids, c, j, Opening(q)), QidOK(q, files, nq)
        PROVE  FidsOK'
    <3>1. FidOK(Opening(q), files, nq)  BY <2>3, OpeningOK
    <3>2. DOMAIN files' \subseteq Nat /\ nq \in Nat  BY <2>1, PathFacts DEF Tidy
    <3>3. FidOK(Opening(q), files', nq')  BY <2>1, <3>1, <3>2, GrownFid
    <3>. QED  BY <2>1, <2>3, <3>3, FidsSet
  <2>. QED  BY <1>3, <2>2, <2>3, WalkFacts
<1>4. ASSUME NEW c \in Clients, NEW i \in Fids, NEW names \in Walks,
             TwalkSelf(c, i, names)
      PROVE  FidsOK'
  <2>1. Tidy(files', nq') /\ Grown(files, files', nq, nq') /\ nq' \in Nat
    <3>1. Tidy(files', nq') /\ Grown(files, files', nq, nq')  BY FilesStep
    <3>2. nq' = nq \/ nq' = nq + 1  BY <1>4 DEF TwalkSelf
    <3>. QED  BY <3>1, <3>2, PathFacts
  <2>2. \/ fids' = DeleteFid(fids, c, i)
        \/ fids' = FreeFids(fids, c)
        \/ fids' = fids
    BY <1>4 DEF TwalkSelf, Serve
  <2>. QED  BY <2>1, <2>2, FewerFacts, FidsFewer
<1>5. ASSUME NEW c \in Clients, NEW i \in Fids, NEW rclose \in BOOLEAN,
             Topen(c, i, rclose)
      PROVE  FidsOK'
  <2>1. Tidy(files', nq') /\ Grown(files, files', nq, nq') /\ nq' \in Nat
    <3>1. Tidy(files', nq') /\ Grown(files, files', nq, nq')  BY FilesStep
    <3>2. nq' = nq \/ nq' = nq + 1  BY <1>5 DEF Topen
    <3>. QED  BY <3>1, <3>2, PathFacts
  <2>. DEFINE fid == Opened(fids[c][i], rclose)
  <2>2. fids' = SetFid(fids, c, i, fid) /\ FidOK(fid, files, nq)
    BY <1>5, OpenFacts
  <2>. HIDE DEF fid
  <2>3. FidOK(fid, files', nq')
    <3>1. DOMAIN files' \subseteq Nat /\ nq \in Nat  BY <2>1, PathFacts DEF Tidy
    <3>. QED  BY <2>1, <2>2, <3>1, GrownFid
  <2>. QED  BY <2>1, <2>2, <2>3, FidsSet
<1>6. ASSUME NEW c \in Clients, NEW i \in Fids, NEW n \in NewNames, NEW isDir \in BOOLEAN, NEW rclose \in BOOLEAN,
             Tcreate(c, i, n, isDir, rclose)
      PROVE  FidsOK'
  <2>1. Tidy(files', nq') /\ Grown(files, files', nq, nq') /\ nq' \in Nat
    <3>1. Tidy(files', nq') /\ Grown(files, files', nq, nq')  BY FilesStep
    <3>2. nq' = nq \/ nq' = nq + 1  BY <1>6 DEF Tcreate
    <3>. QED  BY <3>1, <3>2, PathFacts
  <2>2. CASE fids' = fids
    BY <2>1, <2>2, FewerFacts, FidsFewer
  <2>3. ASSUME NEW fid \in FidState, Created(fid, c, i, rclose)
        PROVE  FidsOK'
    BY <2>1, <2>3, FidsSet DEF Created
  <2>. QED  BY <1>6, <2>2, <2>3, CreateFacts
<1>7. ASSUME NEW c \in Clients, NEW i \in Fids,
             Tclunk(c, i)
      PROVE  FidsOK'
  <2>1. Tidy(files', nq') /\ Grown(files, files', nq, nq') /\ nq' \in Nat
    <3>1. Tidy(files', nq') /\ Grown(files, files', nq, nq')  BY FilesStep
    <3>2. nq' = nq \/ nq' = nq + 1  BY <1>7 DEF Tclunk
    <3>. QED  BY <3>1, <3>2, PathFacts
  <2>2. \/ fids' = DeleteFid(fids, c, i)
        \/ fids' = FreeFids(fids, c)
        \/ fids' = fids
    BY <1>7 DEF Tclunk, Serve
  <2>. QED  BY <2>1, <2>2, FewerFacts, FidsFewer
<1>8. ASSUME NEW c \in Clients, NEW i \in Fids,
             Tremove(c, i)
      PROVE  FidsOK'
  <2>1. Tidy(files', nq') /\ Grown(files, files', nq, nq') /\ nq' \in Nat
    <3>1. Tidy(files', nq') /\ Grown(files, files', nq, nq')  BY FilesStep
    <3>2. nq' = nq \/ nq' = nq + 1  BY <1>8 DEF Tremove
    <3>. QED  BY <3>1, <3>2, PathFacts
  <2>2. \/ fids' = DeleteFid(fids, c, i)
        \/ fids' = FreeFids(fids, c)
        \/ fids' = fids
    BY <1>8 DEF Tremove, Serve
  <2>. QED  BY <2>1, <2>2, FewerFacts, FidsFewer
<1>9. ASSUME NEW c \in Clients, NEW i \in Fids, NEW n \in NewNames \cup {"dev"},
             Twstat(c, i, n)
      PROVE  FidsOK'
  <2>1. Tidy(files', nq') /\ Grown(files, files', nq, nq') /\ nq' \in Nat
    <3>1. Tidy(files', nq') /\ Grown(files, files', nq, nq')  BY FilesStep
    <3>2. nq' = nq \/ nq' = nq + 1  BY <1>9 DEF Twstat
    <3>. QED  BY <3>1, <3>2, PathFacts
  <2>2. \/ fids' = DeleteFid(fids, c, i)
        \/ fids' = FreeFids(fids, c)
        \/ fids' = fids
    BY <1>9 DEF Twstat, Serve
  <2>. QED  BY <2>1, <2>2, FewerFacts, FidsFewer
<1>10. ASSUME NEW c \in Clients, NEW i \in Fids,
             NilFile(c, i)
      PROVE  FidsOK'
  <2>1. Tidy(files', nq') /\ Grown(files, files', nq, nq') /\ nq' \in Nat
    <3>1. Tidy(files', nq') /\ Grown(files, files', nq, nq')  BY FilesStep
    <3>2. nq' = nq \/ nq' = nq + 1  BY <1>10 DEF NilFile, Stop
    <3>. QED  BY <3>1, <3>2, PathFacts
  <2>2. \/ fids' = DeleteFid(fids, c, i)
        \/ fids' = FreeFids(fids, c)
        \/ fids' = fids
    BY <1>10 DEF NilFile, Serve, Stop
  <2>. QED  BY <2>1, <2>2, FewerFacts, FidsFewer
<1>11. ASSUME NEW c \in Clients, NEW i \in Fids,
             FatalRequest(c, i)
      PROVE  FidsOK'
  <2>1. Tidy(files', nq') /\ Grown(files, files', nq, nq') /\ nq' \in Nat
    <3>1. Tidy(files', nq') /\ Grown(files, files', nq, nq')  BY FilesStep
    <3>2. nq' = nq \/ nq' = nq + 1  BY <1>11 DEF FatalRequest, Stop
    <3>. QED  BY <3>1, <3>2, PathFacts
  <2>2. \/ fids' = DeleteFid(fids, c, i)
        \/ fids' = FreeFids(fids, c)
        \/ fids' = fids
    BY <1>11 DEF FatalRequest, Serve, Stop
  <2>. QED  BY <2>1, <2>2, FewerFacts, FidsFewer
<1>12. CASE UNCHANGED vars
  BY <1>12 DEF vars, FidsOK, FidOK, QidOK, Used, At
<1>. QED  BY <1>1, <1>2, <1>3, <1>4, <1>5, <1>6, <1>7, <1>8, <1>9, <1>10, <1>11, <1>12 DEF
            Next

----------------------------------------------------------------------------
(* The counters and the histories.                                          *)

\* What a fid on a file proper adds to the doomed is below the next qid.
LEMMA RootBelow ==
  ASSUME GhostsOK, NEW fid, FidOK(fid, files, nq), fid.qid.type = "root"
  PROVE  fid.qid.path \in 0 .. nq - 1
BY DEF FidOK, QidOK

\* The counters and the histories have their types.
LEMMA GhostsStep ==
  ASSUME GhostsOK, FilesOK, FidsOK, NamesOK, [Next]_vars
  PROVE  GhostsOK'
<1>1. ASSUME NEW c \in Clients,
             FreeClient(c)
      PROVE  GhostsOK'
  <2>1. UNCHANGED <<nq, qidgen, spoilt, down>> /\ doomed' \subseteq doomed
    BY <1>1 DEF FreeClient, Serve
  <2>2. wild' \in BOOLEAN  BY <1>1 DEF FreeClient
  <2>. QED  BY <2>1, <2>2 DEF GhostsOK
<1>2. ASSUME NEW c \in Clients, NEW i \in Fids,
             Tattach(c, i)
      PROVE  GhostsOK'
  <2>1. UNCHANGED <<nq, qidgen, doomed, spoilt, wild, down>>  BY <1>2 DEF Tattach, Serve, Keep
  <2>. QED  BY <2>1 DEF GhostsOK
<1>3. ASSUME NEW c \in Clients, NEW i \in Fids, NEW j \in Fids, NEW names \in Walks,
             Twalk(c, i, j, names)
      PROVE  GhostsOK'
  <2>1. /\ UNCHANGED <<nq, qidgen, wild, down>> /\ doomed' \subseteq doomed
        /\ spoilt' = spoilt \/ spoilt' = spoilt \cup {"shared"}
    BY <1>3 DEF Twalk, Serve
  <2>. QED  BY <2>1 DEF GhostsOK
<1>4. ASSUME NEW c \in Clients, NEW i \in Fids, NEW names \in Walks,
             TwalkSelf(c, i, names)
      PROVE  GhostsOK'
  <2>1. /\ UNCHANGED <<nq, qidgen, wild, down>> /\ doomed' \subseteq doomed
        /\ spoilt' = spoilt \cup {"selfwalk"}
    BY <1>4 DEF TwalkSelf, Serve
  <2>. QED  BY <2>1 DEF GhostsOK
<1>5. ASSUME NEW c \in Clients, NEW i \in Fids, NEW rclose \in BOOLEAN,
             Topen(c, i, rclose)
      PROVE  GhostsOK'
  <2>. DEFINE fid == fids[c][i]
  <2>1. /\ fid # NULL
        /\ doomed' = doomed \/ (doomed' = doomed \cup {fid.qid.path} /\ fid.qid.type = "root")
        /\ UNCHANGED <<nq, qidgen, spoilt, wild, down>>
    BY <1>5 DEF Topen, Serve
  <2>2. FidOK(fid, files, nq)  BY <2>1, FidFacts
  <2>. HIDE DEF fid
  <2>3. fid.qid.type = "root" => fid.qid.path \in 0 .. nq - 1  BY <2>2, RootBelow
  <2>4. doomed' \subseteq 0 .. nq - 1  BY <2>1, <2>3 DEF GhostsOK
  <2>. QED  BY <2>1, <2>4 DEF GhostsOK
<1>6. ASSUME NEW c \in Clients, NEW i \in Fids, NEW n \in NewNames, NEW isDir \in BOOLEAN, NEW rclose \in BOOLEAN,
             Tcreate(c, i, n, isDir, rclose)
      PROVE  GhostsOK'
  <2>1. /\ UNCHANGED <<qidgen, spoilt, wild, down>> /\ nq' = nq + 1 /\ nq <= MaxPath
        /\ doomed' = doomed \/ doomed' = doomed \cup {nq}
    BY <1>6 DEF Tcreate, Serve
  <2>2. nq \in Nat /\ MaxPath \in Nat /\ nq \in 4 .. MaxPath + 1  BY PathFacts
  <2>3. nq' \in 4 .. MaxPath + 1  BY <2>1, <2>2
  <2>4. nq \in 0 .. nq' - 1 /\ 0 .. nq - 1 \subseteq 0 .. nq' - 1  BY <2>1, <2>2
  <2>. QED  BY <2>1, <2>3, <2>4 DEF GhostsOK
<1>7. ASSUME NEW c \in Clients, NEW i \in Fids,
             Tclunk(c, i)
      PROVE  GhostsOK'
  <2>1. UNCHANGED <<nq, qidgen, doomed, down>>  BY <1>7 DEF Tclunk, Serve
  <2>2. wild' \in BOOLEAN  BY <1>7 DEF Tclunk
  <2>3. spoilt' \subseteq spoilt \cup {"removed"}  BY <1>7 DEF Tclunk, Under
  <2>. QED  BY <2>1, <2>2, <2>3 DEF GhostsOK
<1>8. ASSUME NEW c \in Clients, NEW i \in Fids,
             Tremove(c, i)
      PROVE  GhostsOK'
  <2>1. UNCHANGED <<nq, qidgen, wild, down>> /\ doomed' \subseteq doomed  BY <1>8 DEF Tremove, Serve
  <2>3. spoilt' \subseteq spoilt \cup {"removed"}  BY <1>8 DEF Tremove, Under
  <2>. QED  BY <2>1, <2>3 DEF GhostsOK
<1>9. ASSUME NEW c \in Clients, NEW i \in Fids, NEW n \in NewNames \cup {"dev"},
             Twstat(c, i, n)
      PROVE  GhostsOK'
  <2>1. UNCHANGED <<nq, doomed, spoilt, wild, down>> /\ qidgen' = qidgen + 1 /\ qidgen <= MaxPath
    BY <1>9 DEF Twstat, Serve
  <2>2. qidgen' \in 1 .. MaxPath + 1  BY <2>1, PathFacts DEF GhostsOK
  <2>. QED  BY <2>1, <2>2 DEF GhostsOK
<1>10. ASSUME NEW c \in Clients, NEW i \in Fids,
             NilFile(c, i)
      PROVE  GhostsOK'
  <2>1. UNCHANGED <<nq, qidgen, doomed, wild, spoilt>> /\ down' = TRUE  BY <1>10 DEF NilFile, Stop
  <2>. QED  BY <2>1 DEF GhostsOK
<1>11. ASSUME NEW c \in Clients, NEW i \in Fids,
             FatalRequest(c, i)
      PROVE  GhostsOK'
  <2>1. /\ UNCHANGED <<nq, qidgen, doomed, wild>> /\ down' = TRUE
        /\ spoilt' = spoilt \cup {"request"}
    BY <1>11 DEF FatalRequest, Stop
  <2>. QED  BY <2>1 DEF GhostsOK
<1>12. CASE UNCHANGED vars
  BY <1>12 DEF vars, GhostsOK
<1>. QED  BY <1>1, <1>2, <1>3, <1>4, <1>5, <1>6, <1>7, <1>8, <1>9, <1>10, <1>11, <1>12 DEF
            Next

----------------------------------------------------------------------------
(* The names of devices.                                                    *)

\* A fid at its place, new or moved, whose name is its old one or was not allocated.
LEMMA NamesSet ==
  ASSUME FidsOK, OneName(fids), \A ci \in Used(fids) : At(fids, ci).qid.name \in heap \cup {NULL},
         NEW c \in Clients, NEW i \in Fids, NEW fid \in FidState, fids' = SetFid(fids, c, i, fid),
         heap' = (heap \cup {fid.qid.name}) \cap Held(fids'),
         \/ fid.qid.name \notin heap
         \/ fid.qid.name = NULL
         \/ fids[c][i] # NULL /\ fid.qid.name = fids[c][i].qid.name
  PROVE  /\ OneName(fids')
         /\ \A ci \in Used(fids') : At(fids', ci).qid.name \in heap' \cup {NULL}
<1>1. /\ Used(fids') = Used(fids) \cup {<<c, i>>} /\ Used(fids) \subseteq Clients \X Fids
      /\ \A ci \in Clients \X Fids : At(fids', ci) = IF ci = <<c, i>> THEN fid ELSE At(fids, ci)
      /\ <<c, i>> \in Clients \X Fids
  <2>1. fids \in FidTable  BY DEF FidsOK
  <2>2. Used(fids) \subseteq Clients \X Fids  BY DEF Used
  <2>. QED  BY <2>1, <2>2, SetFacts
<1>2. ASSUME NEW ci \in Used(fids), At(fids, ci).qid.name = fid.qid.name
      PROVE  ci = <<c, i>> \/ fid.qid.name = NULL
  <2>1. CASE fid.qid.name \notin heap  BY <1>2, <2>1
  <2>2. CASE fid.qid.name = NULL  BY <2>2
  <2>3. CASE fids[c][i] # NULL /\ fid.qid.name = fids[c][i].qid.name
    <3>1. <<c, i>> \in Used(fids) /\ At(fids, <<c, i>>) = fids[c][i]  BY <2>3, FidFacts
    <3>. QED  BY <1>2, <2>3, <3>1 DEF OneName
  <2>. QED  BY <2>1, <2>2, <2>3
<1>3. OneName(fids')
  <2>. SUFFICES ASSUME NEW ci \in Used(fids'), NEW cj \in Used(fids'),
                       At(fids', ci).qid.name = At(fids', cj).qid.name,
                       At(fids', ci).qid.name # NULL
                PROVE  ci = cj
    BY DEF OneName
  <2>1. CASE ci = <<c, i>> /\ cj # <<c, i>>  BY <1>1, <1>2, <2>1
  <2>2. CASE ci # <<c, i>> /\ cj = <<c, i>>  BY <1>1, <1>2, <2>2
  <2>3. CASE ci # <<c, i>> /\ cj # <<c, i>>  BY <1>1, <2>3 DEF OneName
  <2>. QED  BY <2>1, <2>2, <2>3
<1>4. ASSUME NEW ci \in Used(fids') PROVE At(fids', ci).qid.name \in heap' \cup {NULL}
  <2>1. At(fids', ci).qid.name \in heap \cup {fid.qid.name, NULL}  BY <1>1
  <2>2. At(fids', ci).qid.name \in Held(fids') \cup {NULL}  BY DEF Held
  <2>. QED  BY <2>1, <2>2
<1>. QED  BY <1>3, <1>4

\* Fids go, and what is freed is no name of those that stay.
LEMMA NamesFewer ==
  ASSUME FidsOK, OneName(fids), \A ci \in Used(fids) : At(fids, ci).qid.name \in heap \cup {NULL},
         Used(fids') \subseteq Used(fids), \A ci \in Used(fids') : At(fids', ci) = At(fids, ci),
         NEW h, heap' = h \cap Held(fids'),
         \A ci \in Used(fids') : At(fids, ci).qid.name \in heap => At(fids, ci).qid.name \in h
  PROVE  /\ OneName(fids')
         /\ \A ci \in Used(fids') : At(fids', ci).qid.name \in heap' \cup {NULL}
<1>1. OneName(fids')  BY DEF OneName
<1>2. ASSUME NEW ci \in Used(fids') PROVE At(fids', ci).qid.name \in heap' \cup {NULL}
  <2>1. At(fids', ci).qid.name \in h \cup {NULL}  OBVIOUS
  <2>2. At(fids', ci).qid.name \in Held(fids') \cup {NULL}  BY DEF Held
  <2>. QED  BY <2>1, <2>2
<1>. QED  BY <1>1, <1>2

\* Every name in use is an address strdup gave.
LEMMA HeldStrings ==
  ASSUME FidsOK'
  PROVE  Held(fids') \subseteq Strings
<1>1. ASSUME NEW ci \in Used(fids') PROVE At(fids', ci).qid.name \in Strings \cup {NULL}
  <2>1. At(fids', ci).qid \in Qid  BY DEF FidsOK, FidOK, QidOK
  <2>. QED  BY <2>1 DEF Qid
<1>. QED  BY <1>1 DEF Held

NamesHold ==
  "shared" \notin spoilt =>
    /\ ~ wild /\ OneName(fids)
    /\ \A ci \in Used(fids) : At(fids, ci).qid.name \in heap \cup {NULL}

\* All clients but one keep what they hold when it is freed.
LEMMA ServedHeap ==
  ASSUME NEW f, NEW fs, NEW h, Serve(f, fs, h)
  PROVE  /\ files' = f /\ fids' = fs /\ heap' = h \cap Held(fids') /\ Goes /\ UNCHANGED down
BY DEF Serve

\* A name stays with its fid, and is freed with it.
LEMMA NamesHoldStep ==
  ASSUME GhostsOK, FilesOK, FidsOK, NamesOK, [Next]_vars
  PROVE  NamesHold'
<1>1. ASSUME NEW c \in Clients,
             FreeClient(c)
      PROVE  NamesHold'
  <2>. SUFFICES ASSUME "shared" \notin spoilt'
                PROVE  /\ ~ wild' /\ OneName(fids')
                       /\ \A ci \in Used(fids') : At(fids', ci).qid.name \in heap' \cup {NULL}
    BY DEF NamesHold
  <2>0. /\ "shared" \notin spoilt => /\ ~ wild /\ OneName(fids)
                                    /\ \A ci \in Used(fids) : At(fids, ci).qid.name \in heap \cup {NULL}
    BY DEF NamesOK
  <2>. DEFINE mine == {i \in Fids : fids[c][i] # NULL}
              named == {i \in mine : fids[c][i].qid.name # NULL}
              h == heap \ {fids[c][i].qid.name : i \in named}
  <2>1. /\ fids' = FreeFids(fids, c) /\ heap' = h \cap Held(fids')
        /\ wild' = (wild \/ \E i \in named : \/ fids[c][i].qid.name \notin heap
                                           \/ \E j \in named \ {i} : fids[c][j].qid.name = fids[c][i].qid.name)
        /\ "shared" \notin spoilt
    BY <1>1 DEF FreeClient, Serve, FreeFids
  <2>2. \A i \in named : /\ i \in Fids /\ <<c, i>> \in Used(fids) /\ At(fids, <<c, i>>) = fids[c][i]
                         /\ fids[c][i].qid.name # NULL
    BY FidFacts
  <2>3. fids \in FidTable  BY DEF FidsOK
  <2>4. /\ Used(fids') = {ci \in Used(fids) : ci[1] # c}
        /\ \A ci \in Used(fids') : At(fids', ci) = At(fids, ci)
    BY <2>1, <2>3, FreeFacts
  <2>. HIDE DEF named
  <2>5. \A ci \in Used(fids') : At(fids, ci).qid.name \in heap => At(fids, ci).qid.name \in h
    <3>. SUFFICES ASSUME NEW ci \in Used(fids'), At(fids, ci).qid.name \in heap, NEW i \in named,
                         At(fids, ci).qid.name = fids[c][i].qid.name
                  PROVE  FALSE
      OBVIOUS
    <3>1. ci \in Used(fids) /\ ci[1] # c  BY <2>4
    <3>2. ci = <<c, i>>  BY <2>0, <2>1, <2>2, <3>1 DEF OneName
    <3>. QED  BY <3>1, <3>2
  <2>6. ASSUME NEW i \in named PROVE fids[c][i].qid.name \in heap
    BY <2>0, <2>1, <2>2
  <2>7. ASSUME NEW i \in named, NEW j \in named \ {i} PROVE fids[c][j].qid.name # fids[c][i].qid.name
    <3>1. <<c, i>> # <<c, j>>  OBVIOUS
    <3>. QED  BY <2>0, <2>1, <2>2, <3>1 DEF OneName
  <2>8. ~ wild'  BY <2>0, <2>1, <2>6, <2>7
  <2>. HIDE DEF h
  <2>9. Used(fids') \subseteq Used(fids)  BY <2>4
  <2>10. OneName(fids') /\ \A ci \in Used(fids') : At(fids', ci).qid.name \in heap' \cup {NULL}
    BY <2>0, <2>1, <2>4, <2>5, <2>9, NamesFewer
  <2>. QED  BY <2>8, <2>10
<1>2. ASSUME NEW c \in Clients, NEW i \in Fids,
             Tattach(c, i)
      PROVE  NamesHold'
  <2>. SUFFICES ASSUME "shared" \notin spoilt'
                PROVE  /\ ~ wild' /\ OneName(fids')
                       /\ \A ci \in Used(fids') : At(fids', ci).qid.name \in heap' \cup {NULL}
    BY DEF NamesHold
  <2>0. /\ "shared" \notin spoilt => /\ ~ wild /\ OneName(fids)
                                    /\ \A ci \in Used(fids) : At(fids, ci).qid.name \in heap \cup {NULL}
    BY DEF NamesOK
  <2>. DEFINE q == FileQid(files, Qroot)
  <2>1. /\ fids' = SetFid(fids, c, i, Opening(q)) /\ QidOK(q, files, nq) /\ q.name = NULL
        /\ heap' = heap \cap Held(fids') /\ UNCHANGED <<spoilt, wild>>
    BY <1>2, AttachFacts
  <2>. HIDE DEF q
  <2>2. Opening(q) \in FidState /\ Opening(q).qid.name = NULL  BY <2>1, OpeningOK
  <2>3. heap' = (heap \cup {Opening(q).qid.name}) \cap Held(fids')
    BY <2>1, <2>2 DEF Held
  <2>. QED  BY <2>0, <2>1, <2>2, <2>3, NamesSet
<1>3. ASSUME NEW c \in Clients, NEW i \in Fids, NEW j \in Fids, NEW names \in Walks,
             Twalk(c, i, j, names)
      PROVE  NamesHold'
  <2>. SUFFICES ASSUME "shared" \notin spoilt'
                PROVE  /\ ~ wild' /\ OneName(fids')
                       /\ \A ci \in Used(fids') : At(fids', ci).qid.name \in heap' \cup {NULL}
    BY DEF NamesHold
  <2>0. /\ "shared" \notin spoilt => /\ ~ wild /\ OneName(fids)
                                    /\ \A ci \in Used(fids) : At(fids, ci).qid.name \in heap \cup {NULL}
    BY DEF NamesOK
  <2>1. UNCHANGED wild /\ "shared" \notin spoilt  BY <1>3, WalkFacts
  <2>2. CASE fids' = DeleteFid(fids, c, j) /\ heap' = heap \cap Held(fids')
    <3>1. Used(fids') \subseteq Used(fids) /\ \A ci \in Used(fids') : At(fids', ci) = At(fids, ci)
      BY <2>2, FewerFacts
    <3>. QED  BY <2>0, <2>1, <2>2, <3>1, NamesFewer
  <2>3. ASSUME NEW q, fids' = SetFid(fids, c, j, Opening(q)), QidOK(q, files, nq),
               heap' = (heap \cup {q.name}) \cap Held(fids'),
               q.name = NULL \/ q.name \notin heap
        PROVE  OneName(fids') /\ \A ci \in Used(fids') : At(fids', ci).qid.name \in heap' \cup {NULL}
    <3>1. Opening(q) \in FidState /\ Opening(q).qid = q  BY <2>3, OpeningOK
    <3>. QED  BY <2>0, <2>1, <2>3, <3>1, NamesSet
  <2>. QED  BY <1>3, <2>0, <2>1, <2>2, <2>3, WalkFacts
<1>4. ASSUME NEW c \in Clients, NEW i \in Fids, NEW names \in Walks,
             TwalkSelf(c, i, names)
      PROVE  NamesHold'
  <2>. SUFFICES ASSUME "shared" \notin spoilt'
                PROVE  /\ ~ wild' /\ OneName(fids')
                       /\ \A ci \in Used(fids') : At(fids', ci).qid.name \in heap' \cup {NULL}
    BY DEF NamesHold
  <2>0. /\ "shared" \notin spoilt => /\ ~ wild /\ OneName(fids)
                                    /\ \A ci \in Used(fids) : At(fids, ci).qid.name \in heap \cup {NULL}
    BY DEF NamesOK
  <2>1. /\ fids' = DeleteFid(fids, c, i) /\ heap' = heap \cap Held(fids')
        /\ UNCHANGED wild /\ "shared" \notin spoilt
    BY <1>4 DEF TwalkSelf, Serve
  <2>2. Used(fids') \subseteq Used(fids) /\ \A ci \in Used(fids') : At(fids', ci) = At(fids, ci)
    BY <2>1, FewerFacts
  <2>. QED  BY <2>0, <2>1, <2>2, NamesFewer
<1>5. ASSUME NEW c \in Clients, NEW i \in Fids, NEW rclose \in BOOLEAN,
             Topen(c, i, rclose)
      PROVE  NamesHold'
  <2>. SUFFICES ASSUME "shared" \notin spoilt'
                PROVE  /\ ~ wild' /\ OneName(fids')
                       /\ \A ci \in Used(fids') : At(fids', ci).qid.name \in heap' \cup {NULL}
    BY DEF NamesHold
  <2>0. /\ "shared" \notin spoilt => /\ ~ wild /\ OneName(fids)
                                    /\ \A ci \in Used(fids) : At(fids, ci).qid.name \in heap \cup {NULL}
    BY DEF NamesOK
  <2>. DEFINE fid == Opened(fids[c][i], rclose)
  <2>1. /\ fids' = SetFid(fids, c, i, fid) /\ fids[c][i] # NULL /\ fid \in FidState
        /\ fid.qid = fids[c][i].qid /\ heap' = heap \cap Held(fids')
        /\ UNCHANGED <<spoilt, wild>>
    BY <1>5, OpenFacts
  <2>. HIDE DEF fid
  <2>2. fid.qid.name \in heap \cup {NULL}  BY <2>0, <2>1, FidFacts
  <2>3. heap' = (heap \cup {fid.qid.name}) \cap Held(fids')
    BY <2>1, <2>2 DEF Held
  <2>. QED  BY <2>0, <2>1, <2>3, NamesSet
<1>6. ASSUME NEW c \in Clients, NEW i \in Fids, NEW n \in NewNames, NEW isDir \in BOOLEAN, NEW rclose \in BOOLEAN,
             Tcreate(c, i, n, isDir, rclose)
      PROVE  NamesHold'
  <2>. SUFFICES ASSUME "shared" \notin spoilt'
                PROVE  /\ ~ wild' /\ OneName(fids')
                       /\ \A ci \in Used(fids') : At(fids', ci).qid.name \in heap' \cup {NULL}
    BY DEF NamesHold
  <2>0. /\ "shared" \notin spoilt => /\ ~ wild /\ OneName(fids)
                                    /\ \A ci \in Used(fids) : At(fids, ci).qid.name \in heap \cup {NULL}
    BY DEF NamesOK
  <2>1. heap' = heap \cap Held(fids') /\ UNCHANGED <<spoilt, wild>>  BY <1>6, CreateFacts
  <2>2. CASE fids' = fids
    BY <2>0, <2>1, <2>2, NamesFewer
  <2>3. ASSUME NEW fid \in FidState, Created(fid, c, i, rclose)
        PROVE  OneName(fids') /\ \A ci \in Used(fids') : At(fids', ci).qid.name \in heap' \cup {NULL}
    <3>1. fids' = SetFid(fids, c, i, fid) /\ fid.qid.name = NULL  BY <2>3 DEF Created
    <3>2. heap' = (heap \cup {fid.qid.name}) \cap Held(fids')  BY <2>1, <3>1 DEF Held
    <3>. QED  BY <2>0, <2>1, <3>1, <3>2, NamesSet
  <2>4. UNCHANGED <<files, fids, doomed>> \/ \E fid \in FidState : Created(fid, c, i, rclose)
    BY <1>6, CreateFacts
  <2>. QED  BY <2>0, <2>1, <2>2, <2>3, <2>4
<1>7. ASSUME NEW c \in Clients, NEW i \in Fids,
             Tclunk(c, i)
      PROVE  NamesHold'
  <2>. SUFFICES ASSUME "shared" \notin spoilt'
                PROVE  /\ ~ wild' /\ OneName(fids')
                       /\ \A ci \in Used(fids') : At(fids', ci).qid.name \in heap' \cup {NULL}
    BY DEF NamesHold
  <2>0. /\ "shared" \notin spoilt => /\ ~ wild /\ OneName(fids)
                                    /\ \A ci \in Used(fids) : At(fids, ci).qid.name \in heap \cup {NULL}
    BY DEF NamesOK
  <2>. DEFINE fid == fids[c][i]
              frees == fid.open /\ fid.qid.name # NULL
              h == IF frees THEN heap \ {fid.qid.name} ELSE heap
  <2>1. /\ fid # NULL /\ fids' = DeleteFid(fids, c, i) /\ heap' = h \cap Held(fids')
        /\ wild' = (wild \/ (frees /\ fid.qid.name \notin heap))
        /\ "shared" \notin spoilt
    BY <1>7 DEF Tclunk, Serve
  <2>2. <<c, i>> \in Used(fids) /\ At(fids, <<c, i>>) = fid  BY <2>1, FidFacts
  <2>. HIDE DEF fid
  <2>3. fids \in FidTable  BY DEF FidsOK
  <2>4. /\ Used(fids') = Used(fids) \ {<<c, i>>}
        /\ \A ci \in Used(fids') : At(fids', ci) = At(fids, ci)
    <3>1. Used(fids') \subseteq Clients \X Fids  BY DEF Used
    <3>. QED  BY <2>1, <2>3, <3>1, DeleteFacts
  <2>5. \A ci \in Used(fids') : At(fids, ci).qid.name \in heap => At(fids, ci).qid.name \in h
    <3>. SUFFICES ASSUME NEW ci \in Used(fids'), At(fids, ci).qid.name \in heap, frees
                  PROVE  At(fids, ci).qid.name # fid.qid.name
      OBVIOUS
    <3>1. ci \in Used(fids) /\ ci # <<c, i>>  BY <2>4
    <3>. QED  BY <2>0, <2>1, <2>2, <3>1 DEF OneName
  <2>6. fid.qid.name \in heap \cup {NULL}  BY <2>0, <2>1, <2>2
  <2>7. ~ wild'  BY <2>0, <2>1, <2>6
  <2>. HIDE DEF h, frees
  <2>8. Used(fids') \subseteq Used(fids)  BY <2>4
  <2>9. OneName(fids') /\ \A ci \in Used(fids') : At(fids', ci).qid.name \in heap' \cup {NULL}
    BY <2>0, <2>1, <2>4, <2>5, <2>8, NamesFewer
  <2>. QED  BY <2>7, <2>9
<1>8. ASSUME NEW c \in Clients, NEW i \in Fids,
             Tremove(c, i)
      PROVE  NamesHold'
  <2>. SUFFICES ASSUME "shared" \notin spoilt'
                PROVE  /\ ~ wild' /\ OneName(fids')
                       /\ \A ci \in Used(fids') : At(fids', ci).qid.name \in heap' \cup {NULL}
    BY DEF NamesHold
  <2>0. /\ "shared" \notin spoilt => /\ ~ wild /\ OneName(fids)
                                    /\ \A ci \in Used(fids) : At(fids, ci).qid.name \in heap \cup {NULL}
    BY DEF NamesOK
  <2>1. /\ fids' = DeleteFid(fids, c, i) /\ heap' = heap \cap Held(fids')
        /\ UNCHANGED wild /\ "shared" \notin spoilt
    BY <1>8 DEF Tremove, Serve
  <2>2. Used(fids') \subseteq Used(fids) /\ \A ci \in Used(fids') : At(fids', ci) = At(fids, ci)
    BY <2>1, FewerFacts
  <2>. QED  BY <2>0, <2>1, <2>2, NamesFewer
<1>9. ASSUME NEW c \in Clients, NEW i \in Fids, NEW n \in NewNames \cup {"dev"},
             Twstat(c, i, n)
      PROVE  NamesHold'
  <2>. SUFFICES ASSUME "shared" \notin spoilt'
                PROVE  /\ ~ wild' /\ OneName(fids')
                       /\ \A ci \in Used(fids') : At(fids', ci).qid.name \in heap' \cup {NULL}
    BY DEF NamesHold
  <2>0. /\ "shared" \notin spoilt => /\ ~ wild /\ OneName(fids)
                                    /\ \A ci \in Used(fids) : At(fids, ci).qid.name \in heap \cup {NULL}
    BY DEF NamesOK
  <2>1. /\ fids' = fids /\ heap' = heap \cap Held(fids')
        /\ UNCHANGED wild /\ "shared" \notin spoilt
    BY <1>9 DEF Twstat, Serve
  <2>2. Used(fids') \subseteq Used(fids) /\ \A ci \in Used(fids') : At(fids', ci) = At(fids, ci)
    BY <2>1, FewerFacts
  <2>. QED  BY <2>0, <2>1, <2>2, NamesFewer
<1>10. ASSUME NEW c \in Clients, NEW i \in Fids,
             NilFile(c, i)
      PROVE  NamesHold'
  BY <1>10 DEF NilFile, Stop, NamesHold, NamesOK, OneName, Used, At
<1>11. ASSUME NEW c \in Clients, NEW i \in Fids,
             FatalRequest(c, i)
      PROVE  NamesHold'
  <2>1. UNCHANGED <<fids, heap, wild>> /\ spoilt' = spoilt \cup {"request"}
    BY <1>11 DEF FatalRequest, Stop
  <2>. QED  BY <2>1 DEF NamesHold, NamesOK, OneName, Used, At
<1>12. CASE UNCHANGED vars
  BY <1>12 DEF vars, NamesHold, NamesOK, OneName, Used, At
<1>. QED  BY <1>1, <1>2, <1>3, <1>4, <1>5, <1>6, <1>7, <1>8, <1>9, <1>10, <1>11, <1>12 DEF
            Next

\* What is allocated are addresses of names.
LEMMA HeapStep ==
  ASSUME NamesOK, FidsOK', [Next]_vars
  PROVE  heap' \subseteq Strings
<1>1. ASSUME NEW c \in Clients,
             FreeClient(c)
      PROVE  heap' \subseteq Strings
  BY <1>1, HeldStrings DEF FreeClient, Serve
<1>2. ASSUME NEW c \in Clients, NEW i \in Fids,
             Tattach(c, i)
      PROVE  heap' \subseteq Strings
  BY <1>2, HeldStrings DEF Tattach, Serve
<1>3. ASSUME NEW c \in Clients, NEW i \in Fids, NEW j \in Fids, NEW names \in Walks,
             Twalk(c, i, j, names)
      PROVE  heap' \subseteq Strings
  BY <1>3, HeldStrings DEF Twalk, Serve
<1>4. ASSUME NEW c \in Clients, NEW i \in Fids, NEW names \in Walks,
             TwalkSelf(c, i, names)
      PROVE  heap' \subseteq Strings
  BY <1>4, HeldStrings DEF TwalkSelf, Serve
<1>5. ASSUME NEW c \in Clients, NEW i \in Fids, NEW rclose \in BOOLEAN,
             Topen(c, i, rclose)
      PROVE  heap' \subseteq Strings
  BY <1>5, HeldStrings DEF Topen, Serve
<1>6. ASSUME NEW c \in Clients, NEW i \in Fids, NEW n \in NewNames, NEW isDir \in BOOLEAN, NEW rclose \in BOOLEAN,
             Tcreate(c, i, n, isDir, rclose)
      PROVE  heap' \subseteq Strings
  BY <1>6, HeldStrings DEF Tcreate, Serve
<1>7. ASSUME NEW c \in Clients, NEW i \in Fids,
             Tclunk(c, i)
      PROVE  heap' \subseteq Strings
  BY <1>7, HeldStrings DEF Tclunk, Serve
<1>8. ASSUME NEW c \in Clients, NEW i \in Fids,
             Tremove(c, i)
      PROVE  heap' \subseteq Strings
  BY <1>8, HeldStrings DEF Tremove, Serve
<1>9. ASSUME NEW c \in Clients, NEW i \in Fids, NEW n \in NewNames \cup {"dev"},
             Twstat(c, i, n)
      PROVE  heap' \subseteq Strings
  BY <1>9, HeldStrings DEF Twstat, Serve
<1>10. ASSUME NEW c \in Clients, NEW i \in Fids,
             NilFile(c, i)
      PROVE  heap' \subseteq Strings
  BY <1>10 DEF NilFile, Stop, NamesOK
<1>11. ASSUME NEW c \in Clients, NEW i \in Fids,
             FatalRequest(c, i)
      PROVE  heap' \subseteq Strings
  BY <1>11 DEF FatalRequest, Stop, NamesOK
<1>12. CASE UNCHANGED vars
  BY <1>12 DEF vars, NamesOK
<1>. QED  BY <1>1, <1>2, <1>3, <1>4, <1>5, <1>6, <1>7, <1>8, <1>9, <1>10, <1>11, <1>12 DEF
            Next

LEMMA NamesStep ==
  ASSUME GhostsOK, FilesOK, FidsOK, NamesOK, [Next]_vars
  PROVE  NamesOK'
<1>1. FidsOK'  BY FidsStep
<1>2. NamesHold' /\ heap' \subseteq Strings  BY <1>1, NamesHoldStep, HeapStep
<1>. QED  BY <1>2 DEF NamesOK, NamesHold

----------------------------------------------------------------------------
(* What fids name is there, and what is to go goes.                         *)

LEMMA Domains ==
  ASSUME NEW f, NEW p, NEW n, NEW fid
  PROVE  /\ DOMAIN AddRef(f, p, n) = DOMAIN f /\ DOMAIN AddOpen(f, fid, n) = DOMAIN f
         /\ DOMAIN Release(f, fid) = DOMAIN f
<1>1. \A g, q, m : DOMAIN AddRef(g, q, m) = DOMAIN g  BY DEF AddRef
<1>2. \A g, m : DOMAIN AddOpen(g, fid, m) = DOMAIN g  BY DEF AddOpen
<1>3. DOMAIN Release(f, fid) = DOMAIN f  BY <1>1, <1>2 DEF Release
<1>. QED  BY <1>1, <1>2, <1>3

LEMMA OldDomain ==
  ASSUME NEW fs, NEW c, NEW i
  PROVE  DOMAIN Forget(fs, c, i).f = DOMAIN files
BY Domains DEF Forget

LEMMA LeftDomain ==
  ASSUME NEW p, NEW f
  PROVE  DOMAIN Left(p, f) = IF Removable(p) THEN DOMAIN f \ {p} ELSE DOMAIN f
BY DEF Left, Without

LEMMA HereFewer ==
  ASSUME HereOK, "removed" \notin spoilt, DOMAIN files \subseteq DOMAIN files',
         Used(fids') \subseteq Used(fids), \A ci \in Used(fids') : At(fids', ci) = At(fids, ci)
  PROVE  \A ci \in Used(fids') : Here(At(fids', ci).qid, files')
BY DEF HereOK, Here

LEMMA HereSet ==
  ASSUME FidsOK, HereOK, "removed" \notin spoilt, DOMAIN files \subseteq DOMAIN files',
         NEW c \in Clients, NEW i \in Fids, NEW fid \in FidState, fids' = SetFid(fids, c, i, fid),
         Here(fid.qid, files')
  PROVE  \A ci \in Used(fids') : Here(At(fids', ci).qid, files')
<1>1. /\ Used(fids') = Used(fids) \cup {<<c, i>>} /\ Used(fids) \subseteq Clients \X Fids
      /\ \A ci \in Clients \X Fids : At(fids', ci) = IF ci = <<c, i>> THEN fid ELSE At(fids, ci)
      /\ <<c, i>> \in Clients \X Fids
  <2>1. fids \in FidTable  BY DEF FidsOK
  <2>2. Used(fids) \subseteq Clients \X Fids  BY DEF Used
  <2>. QED  BY <2>1, <2>2, SetFacts
<1>2. \A ci \in Used(fids) : Here(At(fids, ci).qid, files')  BY DEF HereOK, Here
<1>3. ASSUME NEW ci \in Used(fids') PROVE Here(At(fids', ci).qid, files')
  <2>1. CASE ci = <<c, i>>  BY <1>1, <2>1
  <2>2. CASE ci # <<c, i>>  BY <1>1, <1>2, <2>2
  <2>. QED  BY <2>1, <2>2
<1>. QED  BY <1>3

\* The file of a fid that goes may go with it, when no other fid is on it.
LEMMA HereLeft ==
  ASSUME HereOK, NEW p, NEW f, DOMAIN f = DOMAIN files, files' = Left(p, f),
         "removed" \notin spoilt, "removed" \notin Under(p, fids'),
         Used(fids') \subseteq Used(fids), \A ci \in Used(fids') : At(fids', ci) = At(fids, ci)
  PROVE  \A ci \in Used(fids') : Here(At(fids', ci).qid, files')
<1>1. CASE Removable(p)
  <2>1. On(fids', p) = {}  BY <1>1 DEF Under
  <2>2. DOMAIN files' = DOMAIN files \ {p}  BY <1>1, LeftDomain
  <2>3. ASSUME NEW ci \in Used(fids') PROVE Here(At(fids', ci).qid, files')
    <3>1. At(fids', ci).qid.path # p  BY <2>1 DEF On
    <3>2. Here(At(fids', ci).qid, files)  BY DEF HereOK
    <3>. QED  BY <2>2, <3>1, <3>2 DEF Here
  <2>. QED  BY <2>3
<1>2. CASE ~ Removable(p)
  <2>1. DOMAIN files' = DOMAIN files  BY <1>2, LeftDomain
  <2>. QED  BY <2>1, HereFewer
<1>. QED  BY <1>1, <1>2

\* A fid keeps its file unless another fid removes it.
LEMMA HereStep ==
  ASSUME GhostsOK, FilesOK, FidsOK, NamesOK, HereOK, [Next]_vars
  PROVE  HereOK'
<1>1. ASSUME NEW c \in Clients,
             FreeClient(c)
      PROVE  HereOK'
  <2>. SUFFICES ASSUME "removed" \notin spoilt'
                PROVE  \A ci \in Used(fids') : Here(At(fids', ci).qid, files')
    BY DEF HereOK
  <2>1. fids' = FreeFids(fids, c) /\ UNCHANGED spoilt /\ DOMAIN files' = DOMAIN files
    BY <1>1 DEF FreeClient, Serve, FreeFids
  <2>2. Used(fids') \subseteq Used(fids) /\ \A ci \in Used(fids') : At(fids', ci) = At(fids, ci)
    BY <2>1, FreeFacts DEF FidsOK
  <2>. QED  BY <2>1, <2>2, HereFewer
<1>2. ASSUME NEW c \in Clients, NEW i \in Fids,
             Tattach(c, i)
      PROVE  HereOK'
  <2>. SUFFICES ASSUME "removed" \notin spoilt'
                PROVE  \A ci \in Used(fids') : Here(At(fids', ci).qid, files')
    BY DEF HereOK
  <2>. DEFINE q == FileQid(files, Qroot)
  <2>1. /\ fids' = SetFid(fids, c, i, Opening(q)) /\ QidOK(q, files, nq) /\ Here(q, files)
        /\ UNCHANGED spoilt
    BY <1>2, AttachFacts
  <2>. HIDE DEF q
  <2>2. Opening(q) \in FidState /\ Opening(q).qid = q  BY <2>1, OpeningOK
  <2>3. DOMAIN files' = DOMAIN files
    <3>1. files' = AddRef(files, Qroot, 1)  BY <1>2 DEF Tattach, Serve
    <3>. QED  BY <3>1, Domains
  <2>4. Here(Opening(q).qid, files')  BY <2>1, <2>2, <2>3 DEF Here
  <2>. QED  BY <2>1, <2>2, <2>3, <2>4, HereSet
<1>3. ASSUME NEW c \in Clients, NEW i \in Fids, NEW j \in Fids, NEW names \in Walks,
             Twalk(c, i, j, names)
      PROVE  HereOK'
  <2>. SUFFICES ASSUME "removed" \notin spoilt'
                PROVE  \A ci \in Used(fids') : Here(At(fids', ci).qid, files')
    BY DEF HereOK
  <2>. DEFINE f == Forget(fids, c, j).f
  <2>1. DOMAIN files' = DOMAIN files
    <3>1. files' = f \/ \E p : files' = AddRef(f, p, 1)  BY <1>3 DEF Twalk, Serve
    <3>2. DOMAIN f = DOMAIN files  BY OldDomain
    <3>. HIDE DEF f
    <3>. QED  BY <3>1, <3>2, Domains
  <2>2. "removed" \notin spoilt  BY <1>3 DEF Twalk
  <2>3. CASE fids' = DeleteFid(fids, c, j)
    <3>1. Used(fids') \subseteq Used(fids) /\ \A ci \in Used(fids') : At(fids', ci) = At(fids, ci)
      BY <2>3, FewerFacts
    <3>. QED  BY <2>1, <2>2, <3>1, HereFewer
  <2>4. ASSUME NEW q, fids' = SetFid(fids, c, j, Opening(q)), QidOK(q, files, nq),
               Here(fids[c][i].qid, files) => Here(q, files)
        PROVE  \A ci \in Used(fids') : Here(At(fids', ci).qid, files')
    <3>1. Opening(q) \in FidState /\ Opening(q).qid = q  BY <2>4, OpeningOK
    <3>2. Here(fids[c][i].qid, files)
      <4>1. fids[c][i] # NULL  BY <1>3 DEF Twalk
      <4>2. <<c, i>> \in Used(fids) /\ At(fids, <<c, i>>) = fids[c][i]  BY <4>1, FidFacts
      <4>. QED  BY <2>2, <4>2 DEF HereOK
    <3>3. Here(Opening(q).qid, files')  BY <2>1, <2>4, <3>1, <3>2 DEF Here
    <3>. QED  BY <2>1, <2>2, <2>4, <3>1, <3>3, HereSet
  <2>. QED  BY <1>3, <2>3, <2>4, WalkFacts
<1>4. ASSUME NEW c \in Clients, NEW i \in Fids, NEW names \in Walks,
             TwalkSelf(c, i, names)
      PROVE  HereOK'
  <2>. SUFFICES ASSUME "removed" \notin spoilt'
                PROVE  \A ci \in Used(fids') : Here(At(fids', ci).qid, files')
    BY DEF HereOK
  <2>. DEFINE f == Release(files, fids[c][i])
  <2>1. DOMAIN files' = DOMAIN files
    <3>1. files' = f \/ \E p, q : files' = AddRef(AddRef(f, p, -1), q, 1)  BY <1>4 DEF TwalkSelf, Serve
    <3>2. DOMAIN f = DOMAIN files  BY Domains
    <3>. HIDE DEF f
    <3>. QED  BY <3>1, <3>2, Domains
  <2>2. fids' = DeleteFid(fids, c, i) /\ "removed" \notin spoilt  BY <1>4 DEF TwalkSelf, Serve
  <2>3. Used(fids') \subseteq Used(fids) /\ \A ci \in Used(fids') : At(fids', ci) = At(fids, ci)
    BY <2>2, FewerFacts
  <2>. QED  BY <2>1, <2>2, <2>3, HereFewer
<1>5. ASSUME NEW c \in Clients, NEW i \in Fids, NEW rclose \in BOOLEAN,
             Topen(c, i, rclose)
      PROVE  HereOK'
  <2>. SUFFICES ASSUME "removed" \notin spoilt'
                PROVE  \A ci \in Used(fids') : Here(At(fids', ci).qid, files')
    BY DEF HereOK
  <2>. DEFINE fid == Opened(fids[c][i], rclose)
  <2>1. /\ fids' = SetFid(fids, c, i, fid) /\ fids[c][i] # NULL /\ fid \in FidState
        /\ fid.qid = fids[c][i].qid /\ UNCHANGED spoilt
    BY <1>5, OpenFacts
  <2>. HIDE DEF fid
  <2>2. DOMAIN files' = DOMAIN files
    <3>1. \E g : files' = AddOpen(files, g, 1)  BY <1>5 DEF Topen, Serve
    <3>. QED  BY <3>1, Domains
  <2>3. Here(fid.qid, files)
    <3>1. <<c, i>> \in Used(fids) /\ At(fids, <<c, i>>) = fids[c][i]  BY <2>1, FidFacts
    <3>. QED  BY <2>1, <3>1 DEF HereOK
  <2>4. Here(fid.qid, files')  BY <2>2, <2>3 DEF Here
  <2>. QED  BY <2>1, <2>2, <2>4, HereSet
<1>6. ASSUME NEW c \in Clients, NEW i \in Fids, NEW n \in NewNames, NEW isDir \in BOOLEAN, NEW rclose \in BOOLEAN,
             Tcreate(c, i, n, isDir, rclose)
      PROVE  HereOK'
  <2>. SUFFICES ASSUME "removed" \notin spoilt'
                PROVE  \A ci \in Used(fids') : Here(At(fids', ci).qid, files')
    BY DEF HereOK
  <2>1. UNCHANGED spoilt  BY <1>6 DEF Tcreate
  <2>2. CASE UNCHANGED <<files, fids, doomed>>
    BY <2>1, <2>2, HereFewer
  <2>3. ASSUME NEW fid \in FidState, Created(fid, c, i, rclose)
        PROVE  \A ci \in Used(fids') : Here(At(fids', ci).qid, files')
    <3>1. /\ fids' = SetFid(fids, c, i, fid) /\ Here(fid.qid, files')
          /\ DOMAIN files \subseteq DOMAIN files'
      BY <2>3 DEF Created
    <3>. QED  BY <2>1, <3>1, HereSet
  <2>4. UNCHANGED <<files, fids, doomed>> \/ \E fid \in FidState : Created(fid, c, i, rclose)
    BY <1>6, CreateFacts
  <2>. QED  BY <2>2, <2>3, <2>4
<1>7. ASSUME NEW c \in Clients, NEW i \in Fids,
             Tclunk(c, i)
      PROVE  HereOK'
  <2>. SUFFICES ASSUME "removed" \notin spoilt'
                PROVE  \A ci \in Used(fids') : Here(At(fids', ci).qid, files')
    BY DEF HereOK
  <2>. DEFINE p == fids[c][i].qid.path
              f == Release(files, fids[c][i])
  <2>1. /\ fids' = DeleteFid(fids, c, i) /\ spoilt \subseteq spoilt'
        /\ \/ files' = f
           \/ files' = Left(p, f) /\ spoilt' = spoilt \cup Under(p, fids')
    BY <1>7 DEF Tclunk, Serve
  <2>2. DOMAIN f = DOMAIN files  BY Domains
  <2>. HIDE DEF f, p
  <2>3. Used(fids') \subseteq Used(fids) /\ \A ci \in Used(fids') : At(fids', ci) = At(fids, ci)
    BY <2>1, FewerFacts
  <2>4. CASE files' = f  BY <2>1, <2>2, <2>3, <2>4, HereFewer
  <2>5. CASE files' = Left(p, f) /\ spoilt' = spoilt \cup Under(p, fids')
    BY <2>2, <2>3, <2>5, HereLeft
  <2>. QED  BY <2>1, <2>4, <2>5
<1>8. ASSUME NEW c \in Clients, NEW i \in Fids,
             Tremove(c, i)
      PROVE  HereOK'
  <2>. SUFFICES ASSUME "removed" \notin spoilt'
                PROVE  \A ci \in Used(fids') : Here(At(fids', ci).qid, files')
    BY DEF HereOK
  <2>. DEFINE p == fids[c][i].qid.path
              f == Release(files, fids[c][i])
  <2>1. /\ fids' = DeleteFid(fids, c, i) /\ spoilt \subseteq spoilt'
        /\ \/ files' = f
           \/ files' = Left(p, f) /\ spoilt' = spoilt \cup Under(p, fids')
    BY <1>8 DEF Tremove, Serve
  <2>2. DOMAIN f = DOMAIN files  BY Domains
  <2>. HIDE DEF f, p
  <2>3. Used(fids') \subseteq Used(fids) /\ \A ci \in Used(fids') : At(fids', ci) = At(fids, ci)
    BY <2>1, FewerFacts
  <2>4. CASE files' = f  BY <2>1, <2>2, <2>3, <2>4, HereFewer
  <2>5. CASE files' = Left(p, f) /\ spoilt' = spoilt \cup Under(p, fids')
    BY <2>2, <2>3, <2>5, HereLeft
  <2>. QED  BY <2>1, <2>4, <2>5
<1>9. ASSUME NEW c \in Clients, NEW i \in Fids, NEW n \in NewNames \cup {"dev"},
             Twstat(c, i, n)
      PROVE  HereOK'
  <2>. SUFFICES ASSUME "removed" \notin spoilt'
                PROVE  \A ci \in Used(fids') : Here(At(fids', ci).qid, files')
    BY DEF HereOK
  <2>1. UNCHANGED <<fids, spoilt>> /\ DOMAIN files' = DOMAIN files
    BY <1>9 DEF Twstat, Serve
  <2>. QED  BY <2>1, HereFewer
<1>10. ASSUME NEW c \in Clients, NEW i \in Fids,
             NilFile(c, i)
      PROVE  HereOK'
  <2>1. UNCHANGED <<files, fids>> /\ spoilt \subseteq spoilt'  BY <1>10 DEF NilFile, Stop
  <2>. QED  BY <2>1 DEF HereOK, Here, Used, At
<1>11. ASSUME NEW c \in Clients, NEW i \in Fids,
             FatalRequest(c, i)
      PROVE  HereOK'
  <2>1. UNCHANGED <<files, fids>> /\ spoilt \subseteq spoilt'  BY <1>11 DEF FatalRequest, Stop
  <2>. QED  BY <2>1 DEF HereOK, Here, Used, At
<1>12. CASE UNCHANGED vars
  BY <1>12 DEF vars, HereOK, Here, Used, At
<1>. QED  BY <1>1, <1>2, <1>3, <1>4, <1>5, <1>6, <1>7, <1>8, <1>9, <1>10, <1>11, <1>12 DEF
            Next

\* The server stops for a reason.
LEMMA StopStep ==
  ASSUME FidsOK, HereOK, StopOK, [Next]_vars
  PROVE  StopOK'
<1>1. ASSUME NEW c \in Clients,
             FreeClient(c)
      PROVE  StopOK'
  <2>1. UNCHANGED down /\ spoilt \subseteq spoilt'  BY <1>1 DEF FreeClient, Serve, Keep
  <2>. QED  BY <2>1 DEF StopOK
<1>2. ASSUME NEW c \in Clients, NEW i \in Fids,
             Tattach(c, i)
      PROVE  StopOK'
  <2>1. UNCHANGED down /\ spoilt \subseteq spoilt'  BY <1>2 DEF Tattach, Serve, Keep
  <2>. QED  BY <2>1 DEF StopOK
<1>3. ASSUME NEW c \in Clients, NEW i \in Fids, NEW j \in Fids, NEW names \in Walks,
             Twalk(c, i, j, names)
      PROVE  StopOK'
  <2>1. UNCHANGED down /\ spoilt \subseteq spoilt'  BY <1>3 DEF Twalk, Serve, Keep
  <2>. QED  BY <2>1 DEF StopOK
<1>4. ASSUME NEW c \in Clients, NEW i \in Fids, NEW names \in Walks,
             TwalkSelf(c, i, names)
      PROVE  StopOK'
  <2>1. UNCHANGED down /\ spoilt \subseteq spoilt'  BY <1>4 DEF TwalkSelf, Serve, Keep
  <2>. QED  BY <2>1 DEF StopOK
<1>5. ASSUME NEW c \in Clients, NEW i \in Fids, NEW rclose \in BOOLEAN,
             Topen(c, i, rclose)
      PROVE  StopOK'
  <2>1. UNCHANGED down /\ spoilt \subseteq spoilt'  BY <1>5 DEF Topen, Serve, Keep
  <2>. QED  BY <2>1 DEF StopOK
<1>6. ASSUME NEW c \in Clients, NEW i \in Fids, NEW n \in NewNames, NEW isDir \in BOOLEAN, NEW rclose \in BOOLEAN,
             Tcreate(c, i, n, isDir, rclose)
      PROVE  StopOK'
  <2>1. UNCHANGED down /\ spoilt \subseteq spoilt'  BY <1>6 DEF Tcreate, Serve, Keep
  <2>. QED  BY <2>1 DEF StopOK
<1>7. ASSUME NEW c \in Clients, NEW i \in Fids,
             Tclunk(c, i)
      PROVE  StopOK'
  <2>1. UNCHANGED down /\ spoilt \subseteq spoilt'  BY <1>7 DEF Tclunk, Serve, Keep
  <2>. QED  BY <2>1 DEF StopOK
<1>8. ASSUME NEW c \in Clients, NEW i \in Fids,
             Tremove(c, i)
      PROVE  StopOK'
  <2>1. UNCHANGED down /\ spoilt \subseteq spoilt'  BY <1>8 DEF Tremove, Serve, Keep
  <2>. QED  BY <2>1 DEF StopOK
<1>9. ASSUME NEW c \in Clients, NEW i \in Fids, NEW n \in NewNames \cup {"dev"},
             Twstat(c, i, n)
      PROVE  StopOK'
  <2>1. UNCHANGED down /\ spoilt \subseteq spoilt'  BY <1>9 DEF Twstat, Serve, Keep
  <2>. QED  BY <2>1 DEF StopOK
<1>10. ASSUME NEW c \in Clients, NEW i \in Fids,
             NilFile(c, i)
      PROVE  StopOK'
  <2>1. /\ fids[c][i] # NULL /\ fids[c][i].qid.type = "root" /\ fids[c][i].qid.path \notin DOMAIN files
        /\ UNCHANGED spoilt
    BY <1>10 DEF NilFile
  <2>2. <<c, i>> \in Used(fids) /\ At(fids, <<c, i>>) = fids[c][i]  BY <2>1, FidFacts
  <2>3. "removed" \in spoilt  BY <2>1, <2>2 DEF HereOK, Here
  <2>. QED  BY <2>1, <2>3 DEF StopOK
<1>11. ASSUME NEW c \in Clients, NEW i \in Fids,
             FatalRequest(c, i)
      PROVE  StopOK'
  BY <1>11 DEF FatalRequest, StopOK
<1>12. CASE UNCHANGED vars
  BY <1>12 DEF vars, StopOK
<1>. QED  BY <1>1, <1>2, <1>3, <1>4, <1>5, <1>6, <1>7, <1>8, <1>9, <1>10, <1>11, <1>12 DEF
            Next

----------------------------------------------------------------------------
(* Files to be removed on close.                                            *)

Holds(fs, ci, p) == /\ ci \in Used(fs) /\ At(fs, ci).qid.path = p
                    /\ At(fs, ci).open /\ At(fs, ci).rclose

\* All fids but one stay, and that one held no file still doomed.
LEMMA TempOld ==
  ASSUME TemporaryFilesGo, NEW cj,
         \A ci \in Used(fids) : ci # cj => ci \in Used(fids') /\ At(fids', ci) = At(fids, ci),
         NEW p \in doomed \cap DOMAIN files, ~ Holds(fids, cj, p)
  PROVE  \E ci : Holds(fids', ci, p)
<1>1. PICK ci \in On(fids, p) : At(fids, ci).open /\ At(fids, ci).rclose
  BY DEF TemporaryFilesGo
<1>2. Holds(fids, ci, p)  BY <1>1 DEF On, Holds
<1>3. ci # cj  BY <1>2
<1>. QED  BY <1>2, <1>3 DEF Holds

LEMMA TempHeld ==
  ASSUME \A p \in (doomed \cap DOMAIN files)' : \E ci : Holds(fids', ci, p)
  PROVE  TemporaryFilesGo'
<1>1. ASSUME NEW p \in (doomed \cap DOMAIN files)'
      PROVE  \E ci \in On(fids', p) : At(fids', ci).open /\ At(fids', ci).rclose
  BY DEF Holds, On
<1>. QED  BY <1>1 DEF TemporaryFilesGo

LEMMA TempSet ==
  ASSUME FidsOK, TemporaryFilesGo, NEW c \in Clients, NEW i \in Fids, NEW fid \in FidState,
         fids' = SetFid(fids, c, i, fid),
         \A p \in (doomed \cap DOMAIN files)' :
           \/ p \in doomed \cap DOMAIN files /\ ~ Holds(fids, <<c, i>>, p)
           \/ fid.qid.path = p /\ fid.open = TRUE /\ fid.rclose = TRUE
  PROVE  TemporaryFilesGo'
<1>1. /\ Used(fids') = Used(fids) \cup {<<c, i>>} /\ Used(fids) \subseteq Clients \X Fids
      /\ \A ci \in Clients \X Fids : At(fids', ci) = IF ci = <<c, i>> THEN fid ELSE At(fids, ci)
      /\ <<c, i>> \in Clients \X Fids
  <2>1. fids \in FidTable  BY DEF FidsOK
  <2>2. Used(fids) \subseteq Clients \X Fids  BY DEF Used
  <2>. QED  BY <2>1, <2>2, SetFacts
<1>2. \A ci \in Used(fids) : ci # <<c, i>> => ci \in Used(fids') /\ At(fids', ci) = At(fids, ci)
  BY <1>1
<1>3. ASSUME NEW p \in (doomed \cap DOMAIN files)' PROVE \E ci : Holds(fids', ci, p)
  <2>1. CASE p \in doomed \cap DOMAIN files /\ ~ Holds(fids, <<c, i>>, p)
    BY <1>2, <2>1, TempOld
  <2>2. CASE fid.qid.path = p /\ fid.open = TRUE /\ fid.rclose = TRUE
    <3>1. Holds(fids', <<c, i>>, p)  BY <1>1, <2>2 DEF Holds
    <3>. QED  BY <3>1
  <2>. QED  BY <2>1, <2>2
<1>. QED  BY <1>3, TempHeld

LEMMA TempDeleted ==
  ASSUME FidsOK, TemporaryFilesGo, NEW c \in Clients, NEW i \in Fids,
         fids' = DeleteFid(fids, c, i),
         \A p \in (doomed \cap DOMAIN files)' :
           p \in doomed \cap DOMAIN files /\ ~ Holds(fids, <<c, i>>, p)
  PROVE  TemporaryFilesGo'
<1>1. \A ci \in Used(fids) : ci # <<c, i>> => ci \in Used(fids') /\ At(fids', ci) = At(fids, ci)
  <2>1. fids \in FidTable /\ Used(fids) \subseteq Clients \X Fids  BY DEF FidsOK, Used
  <2>. QED  BY <2>1, DeleteFacts
<1>2. ASSUME NEW p \in (doomed \cap DOMAIN files)' PROVE \E ci : Holds(fids', ci, p)
  BY <1>1, TempOld
<1>. QED  BY <1>2, TempHeld

\* What a fid held is forgotten with it.
LEMMA ForgottenFacts ==
  ASSUME FidsOK, NEW c \in Clients, NEW i \in Fids,
         NEW p, p \notin Forgotten(fids[c][i])
  PROVE  ~ Holds(fids, <<c, i>>, p)
<1>. SUFFICES ASSUME Holds(fids, <<c, i>>, p) PROVE FALSE  OBVIOUS
<1>1. fids[c][i] # NULL /\ At(fids, <<c, i>>) = fids[c][i]  BY DEF Holds, Used, At
<1>. QED  BY <1>1 DEF Holds, Forgotten

\* Only a file proper is opened to be removed, and it is no directory.
LEMMA HeldFile ==
  ASSUME GhostsOK, FilesOK, FidsOK, NEW c \in Clients, NEW i \in Fids, NEW p \in doomed \cap DOMAIN files,
         Holds(fids, <<c, i>>, p)
  PROVE  Removes(fids[c][i]) /\ fids[c][i].qid.path = p /\ Removable(p)
<1>. DEFINE fid == fids[c][i]
<1>1. fid # NULL /\ At(fids, <<c, i>>) = fid  BY DEF Holds, Used, At
<1>2. fid.qid.path = p /\ fid.open /\ fid.rclose  BY <1>1 DEF Holds
<1>3. fid \in FidState /\ FidOK(fid, files, nq)  BY <1>1, FidFacts
<1>. HIDE DEF fid
<1>4. ~ fid.qid.dir /\ fid.qid.type \in {"root", "dev", "devfile"} /\ QidOK(fid.qid, files, nq)
  BY <1>2, <1>3 DEF FidOK, FidState, Qid
<1>5. p # DevPath  BY DEF FilesOK, Tidy, DevPath
<1>6. fid.qid.type = "root" /\ ~ files[p].dir  BY <1>2, <1>4, <1>5 DEF QidOK
<1>7. \A q \in DOMAIN files : files[q].parent # p /\ Qroot \in DOMAIN files /\ files[Qroot].dir
  BY <1>6 DEF FilesOK, Tidy
<1>8. p # Qroot  BY <1>6, <1>7
<1>. QED  BY <1>2, <1>6, <1>7, <1>8 DEF Removes, Removable, Empty, fid

\* A file opened to be removed is removed by a fid that holds it, or no one is to remove it.
LEMMA TempStep ==
  ASSUME GhostsOK, FilesOK, FidsOK, NamesOK, TemporaryFilesGo,
    [Next]_vars
  PROVE  TemporaryFilesGo'
<1>1. ASSUME NEW c \in Clients,
             FreeClient(c)
      PROVE  TemporaryFilesGo'
  <2>. DEFINE mine == {i \in Fids : fids[c][i] # NULL}
  <2>1. /\ fids' = FreeFids(fids, c) /\ DOMAIN files' = DOMAIN files
        /\ doomed' = doomed \ UNION {Forgotten(fids[c][i]) : i \in mine}
    BY <1>1 DEF FreeClient, Serve, FreeFids
  <2>2. /\ Used(fids') = {ci \in Used(fids) : ci[1] # c}
        /\ \A ci \in Used(fids') : At(fids', ci) = At(fids, ci)
    BY <2>1, FreeFacts DEF FidsOK
  <2>3. ASSUME NEW p \in (doomed \cap DOMAIN files)' PROVE \E ci : Holds(fids', ci, p)
    <3>1. p \in doomed \cap DOMAIN files  BY <2>1
    <3>2. PICK ci \in On(fids, p) : At(fids, ci).open /\ At(fids, ci).rclose
      BY <3>1 DEF TemporaryFilesGo
    <3>3. Holds(fids, ci, p) /\ ci \in Used(fids)  BY <3>2 DEF On, Holds
    <3>4. CASE ci[1] = c
      <4>1. PICK i \in Fids : ci = <<c, i>>  BY <3>3, <3>4 DEF Used
      <4>2. p \in Forgotten(fids[c][i])  BY <3>3, <4>1, ForgottenFacts
      <4>3. i \in mine  BY <3>3, <4>1 DEF Used
      <4>4. p \notin doomed'  BY <2>1, <4>2, <4>3
      <4>. QED  BY <4>4
    <3>5. CASE ci[1] # c
      <4>1. Holds(fids', ci, p)  BY <2>2, <3>3, <3>5 DEF Holds
      <4>. QED  BY <4>1
    <3>. QED  BY <3>4, <3>5
  <2>. QED  BY <2>3, TempHeld
<1>2. ASSUME NEW c \in Clients, NEW i \in Fids,
             Tattach(c, i)
      PROVE  TemporaryFilesGo'
  <2>. DEFINE q == FileQid(files, Qroot)
  <2>1. fids' = SetFid(fids, c, i, Opening(q)) /\ QidOK(q, files, nq) /\ UNCHANGED doomed
    BY <1>2, AttachFacts
  <2>. HIDE DEF q
  <2>2. Opening(q) \in FidState  BY <2>1, OpeningOK
  <2>3. DOMAIN files' = DOMAIN files
    <3>1. files' = AddRef(files, Qroot, 1)  BY <1>2 DEF Tattach, Serve
    <3>. QED  BY <3>1, Domains
  <2>4. \A p : ~ Holds(fids, <<c, i>>, p)
    <3>1. fids[c][i] = NULL  BY <1>2 DEF Tattach
    <3>. QED  BY <3>1 DEF Holds, Used
  <2>. QED  BY <2>1, <2>2, <2>3, <2>4, TempSet
<1>3. ASSUME NEW c \in Clients, NEW i \in Fids, NEW j \in Fids, NEW names \in Walks,
             Twalk(c, i, j, names)
      PROVE  TemporaryFilesGo'
  <2>. DEFINE f == Forget(fids, c, j).f
  <2>1. DOMAIN files' = DOMAIN files
    <3>1. files' = f \/ \E p : files' = AddRef(f, p, 1)  BY <1>3 DEF Twalk, Serve
    <3>2. DOMAIN f = DOMAIN files  BY OldDomain
    <3>. HIDE DEF f
    <3>. QED  BY <3>1, <3>2, Domains
  <2>2. doomed' = doomed \ Forgotten(fids[c][j])  BY <1>3 DEF Twalk
  <2>3. ASSUME NEW p \in (doomed \cap DOMAIN files)'
        PROVE  p \in doomed \cap DOMAIN files /\ ~ Holds(fids, <<c, j>>, p)
    BY <2>1, <2>2, ForgottenFacts
  <2>4. CASE fids' = DeleteFid(fids, c, j)  BY <2>3, <2>4, TempDeleted
  <2>5. ASSUME NEW q, fids' = SetFid(fids, c, j, Opening(q)), QidOK(q, files, nq)
        PROVE  TemporaryFilesGo'
    <3>1. Opening(q) \in FidState  BY <2>5, OpeningOK
    <3>. QED  BY <2>3, <2>5, <3>1, TempSet
  <2>. QED  BY <1>3, <2>4, <2>5, WalkFacts
<1>4. ASSUME NEW c \in Clients, NEW i \in Fids, NEW names \in Walks,
             TwalkSelf(c, i, names)
      PROVE  TemporaryFilesGo'
  <2>. DEFINE f == Release(files, fids[c][i])
  <2>1. DOMAIN files' = DOMAIN files
    <3>1. files' = f \/ \E p, q : files' = AddRef(AddRef(f, p, -1), q, 1)  BY <1>4 DEF TwalkSelf, Serve
    <3>2. DOMAIN f = DOMAIN files  BY Domains
    <3>. HIDE DEF f
    <3>. QED  BY <3>1, <3>2, Domains
  <2>2. fids' = DeleteFid(fids, c, i) /\ doomed' = doomed \ Forgotten(fids[c][i])
    BY <1>4 DEF TwalkSelf, Serve
  <2>3. ASSUME NEW p \in (doomed \cap DOMAIN files)'
        PROVE  p \in doomed \cap DOMAIN files /\ ~ Holds(fids, <<c, i>>, p)
    BY <2>1, <2>2, ForgottenFacts
  <2>. QED  BY <2>2, <2>3, TempDeleted
<1>5. ASSUME NEW c \in Clients, NEW i \in Fids, NEW rclose \in BOOLEAN,
             Topen(c, i, rclose)
      PROVE  TemporaryFilesGo'
  <2>. DEFINE fid == Opened(fids[c][i], rclose)
  <2>1. /\ fids' = SetFid(fids, c, i, fid) /\ fids[c][i] # NULL /\ fid \in FidState
        /\ fid.open = TRUE /\ ~ fids[c][i].open
    BY <1>5, OpenFacts
  <2>2. \/ doomed' = doomed
        \/ fid.rclose = TRUE /\ doomed' = doomed \cup {fid.qid.path}
    <3>1. fid.qid = fids[c][i].qid /\ fid.rclose = rclose  BY <1>5, OpenFacts
    <3>2. doomed' = doomed \/ (rclose = TRUE /\ doomed' = doomed \cup {fids[c][i].qid.path})
      BY <1>5 DEF Topen
    <3>. HIDE DEF fid
    <3>. QED  BY <3>1, <3>2
  <2>. HIDE DEF fid
  <2>3. DOMAIN files' = DOMAIN files
    <3>1. \E g : files' = AddOpen(files, g, 1)  BY <1>5 DEF Topen, Serve
    <3>. QED  BY <3>1, Domains
  <2>4. \A p : ~ Holds(fids, <<c, i>>, p)
    <3>1. At(fids, <<c, i>>) = fids[c][i]  BY DEF At
    <3>. QED  BY <2>1, <3>1 DEF Holds
  <2>5. ASSUME NEW p \in (doomed \cap DOMAIN files)'
        PROVE  \/ p \in doomed \cap DOMAIN files /\ ~ Holds(fids, <<c, i>>, p)
               \/ fid.qid.path = p /\ fid.open = TRUE /\ fid.rclose = TRUE
    BY <2>1, <2>2, <2>3, <2>4
  <2>. QED  BY <2>1, <2>5, TempSet
<1>6. ASSUME NEW c \in Clients, NEW i \in Fids, NEW n \in NewNames, NEW isDir \in BOOLEAN, NEW rclose \in BOOLEAN,
             Tcreate(c, i, n, isDir, rclose)
      PROVE  TemporaryFilesGo'
  <2>1. CASE UNCHANGED <<files, fids, doomed>>
    BY <2>1 DEF TemporaryFilesGo, On, Used, At
  <2>2. ASSUME NEW fid \in FidState, Created(fid, c, i, rclose)
        PROVE  TemporaryFilesGo'
    <3>1. /\ fids' = SetFid(fids, c, i, fid) /\ fid.qid.path = nq
          /\ fid.open = TRUE /\ fid.rclose = rclose /\ ~ fids[c][i].open
          /\ doomed' = IF rclose THEN doomed \cup {nq} ELSE doomed
          /\ DOMAIN files' \subseteq DOMAIN files \cup {nq}
      BY <2>2 DEF Created
    <3>2. \A p : ~ Holds(fids, <<c, i>>, p)
      <4>1. At(fids, <<c, i>>) = fids[c][i]  BY DEF At
      <4>. QED  BY <3>1, <4>1 DEF Holds
    <3>3. nq \notin doomed  BY PathFacts DEF GhostsOK
    <3>4. nq \notin DOMAIN files  BY PathFacts DEF FilesOK, Tidy
    <3>5. ASSUME NEW p \in (doomed \cap DOMAIN files)'
          PROVE  \/ p \in doomed \cap DOMAIN files /\ ~ Holds(fids, <<c, i>>, p)
                 \/ fid.qid.path = p /\ fid.open = TRUE /\ fid.rclose = TRUE
      <4>1. CASE rclose  BY <3>1, <3>2, <3>3, <3>4, <4>1
      <4>2. CASE ~ rclose  BY <3>1, <3>2, <3>3, <3>4, <4>2
      <4>. QED  BY <4>1, <4>2
    <3>. QED  BY <3>1, <3>5, TempSet
  <2>3. UNCHANGED <<files, fids, doomed>> \/ \E fid \in FidState : Created(fid, c, i, rclose)
    BY <1>6, CreateFacts
  <2>. QED  BY <2>1, <2>2, <2>3
<1>7. ASSUME NEW c \in Clients, NEW i \in Fids,
             Tclunk(c, i)
      PROVE  TemporaryFilesGo'
  <2>. DEFINE fid == fids[c][i]
              f == Release(files, fid)
  <2>1. /\ fids' = DeleteFid(fids, c, i) /\ UNCHANGED doomed
        /\ files' = IF Removes(fid) THEN Left(fid.qid.path, f) ELSE f
    BY <1>7 DEF Tclunk, Serve
  <2>2. DOMAIN f = DOMAIN files  BY Domains
  <2>. HIDE DEF f
  <2>5. DOMAIN Left(fid.qid.path, f) =
          IF Removable(fid.qid.path) THEN DOMAIN f \ {fid.qid.path} ELSE DOMAIN f
    BY LeftDomain
  <2>3. DOMAIN files' \subseteq DOMAIN files
    <3>1. files' = f \/ files' = Left(fid.qid.path, f)  BY <2>1
    <3>. HIDE DEF fid
    <3>. QED  BY <2>2, <2>5, <3>1
  <2>4. ASSUME NEW p \in (doomed \cap DOMAIN files)'
        PROVE  p \in doomed \cap DOMAIN files /\ ~ Holds(fids, <<c, i>>, p)
    <3>1. p \in doomed \cap DOMAIN files  BY <2>1, <2>3
    <3>2. ASSUME Holds(fids, <<c, i>>, p) PROVE FALSE
      <4>1. Removes(fid) /\ fid.qid.path = p /\ Removable(p)  BY <3>1, <3>2, HeldFile
      <4>2. DOMAIN files' = DOMAIN files \ {p}  BY <2>1, <2>2, <2>5, <4>1
      <4>. QED  BY <4>2
    <3>. QED  BY <3>1, <3>2
  <2>. QED  BY <2>1, <2>4, TempDeleted
<1>8. ASSUME NEW c \in Clients, NEW i \in Fids,
             Tremove(c, i)
      PROVE  TemporaryFilesGo'
  <2>. DEFINE f == Release(files, fids[c][i])
  <2>1. DOMAIN files' \subseteq DOMAIN files
    <3>. DEFINE p == fids[c][i].qid.path
    <3>1. files' = f \/ files' = Left(p, f)  BY <1>8 DEF Tremove, Serve
    <3>2. DOMAIN f = DOMAIN files  BY Domains
    <3>. HIDE DEF f, p
    <3>3. DOMAIN Left(p, f) \subseteq DOMAIN f  BY LeftDomain
    <3>. QED  BY <3>1, <3>2, <3>3
  <2>2. fids' = DeleteFid(fids, c, i) /\ doomed' = doomed \ Forgotten(fids[c][i])
    BY <1>8 DEF Tremove, Serve
  <2>3. ASSUME NEW p \in (doomed \cap DOMAIN files)'
        PROVE  p \in doomed \cap DOMAIN files /\ ~ Holds(fids, <<c, i>>, p)
    BY <2>1, <2>2, ForgottenFacts
  <2>. QED  BY <2>2, <2>3, TempDeleted
<1>9. ASSUME NEW c \in Clients, NEW i \in Fids, NEW n \in NewNames \cup {"dev"},
             Twstat(c, i, n)
      PROVE  TemporaryFilesGo'
  <2>1. UNCHANGED <<fids, doomed>> /\ DOMAIN files' = DOMAIN files
    BY <1>9 DEF Twstat, Serve
  <2>. QED  BY <2>1 DEF TemporaryFilesGo, On, Used, At
<1>10. ASSUME NEW c \in Clients, NEW i \in Fids,
             NilFile(c, i)
      PROVE  TemporaryFilesGo'
  BY <1>10 DEF NilFile, Stop, TemporaryFilesGo, On, Used, At
<1>11. ASSUME NEW c \in Clients, NEW i \in Fids,
             FatalRequest(c, i)
      PROVE  TemporaryFilesGo'
  BY <1>11 DEF FatalRequest, Stop, TemporaryFilesGo, On, Used, At
<1>12. CASE UNCHANGED vars
  BY <1>12 DEF vars, TemporaryFilesGo, On, Used, At
<1>. QED  BY <1>1, <1>2, <1>3, <1>4, <1>5, <1>6, <1>7, <1>8, <1>9, <1>10, <1>11, <1>12 DEF
            Next

----------------------------------------------------------------------------
(* The start.                                                               *)

LEMMA InitFiles ==
  ASSUME Init
  PROVE  /\ DOMAIN files = {0, 1, 2, 3}
         /\ files[0] = Entry(Qroot, TRUE, "/", "root")
         /\ files[1] = Entry(Qroot, TRUE, "dev", "dev")
         /\ files[2] = Entry(Qroot, TRUE, "fs", "root")
         /\ files[3] = Entry(Qroot, FALSE, "rpc", "root")
BY DEF Init, Root, Qroot

LEMMA InitFids ==
  ASSUME Init
  PROVE  fids \in FidTable /\ Used(fids) = {}
BY DEF Init, FidTable, Used

LEMMA InitInv == Init => Inv /\ TemporaryFilesGo
<1>. SUFFICES ASSUME Init PROVE Inv /\ TemporaryFilesGo  OBVIOUS
<1>1. /\ nq = 4 /\ qidgen = 1 + Refused /\ doomed = {} /\ spoilt = {} /\ wild = FALSE
      /\ down = FALSE /\ heap = {}
  BY DEF Init
<1>2. GhostsOK
  <2>1. nq \in 4 .. MaxPath + 1 /\ qidgen \in 1 .. MaxPath + 1  BY <1>1, StyxAssumption
  <2>. QED  BY <1>1, <2>1 DEF GhostsOK
<1>3. FilesOK
  <2>1. {0, 1, 2, 3} \subseteq Paths  BY StyxAssumption DEF Paths
  <2>2. \A parent \in {0}, dir \in BOOLEAN, name \in {"/", "dev", "fs", "rpc"}, type \in {"root", "dev"} :
          /\ Entry(parent, dir, name, type) \in FileType
          /\ Entry(parent, dir, name, type).parent = parent /\ Entry(parent, dir, name, type).dir = dir
          /\ Entry(parent, dir, name, type).type = type
    BY <2>1 DEF Entry, FileType, Names
  <2>3. \A p \in DOMAIN files :
          /\ files[p] \in FileType /\ files[p].parent = 0
          /\ files[p].type = "dev" => files[p].dir
    BY <2>2, InitFiles DEF Qroot
  <2>4. files[0].dir  BY <2>2, InitFiles DEF Qroot
  <2>. QED  BY <1>1, <2>3, <2>4, InitFiles DEF FilesOK, Tidy, Qroot
<1>4. FidsOK /\ HereOK  BY InitFids DEF FidsOK, HereOK
<1>5. NamesOK  BY <1>1, InitFids DEF NamesOK, OneName
<1>6. StopOK /\ TemporaryFilesGo  BY <1>1 DEF StopOK, TemporaryFilesGo
<1>. QED  BY <1>2, <1>3, <1>4, <1>5, <1>6 DEF Inv

LEMMA InvStep == Inv /\ [Next]_vars => Inv'
<1>. SUFFICES ASSUME Inv, [Next]_vars PROVE Inv'  OBVIOUS
<1>1. GhostsOK /\ FilesOK /\ FidsOK /\ NamesOK /\ HereOK /\ StopOK  BY DEF Inv
<1>2. FilesOK'  BY <1>1, FilesStep DEF FilesOK
<1>3. GhostsOK' /\ FidsOK' /\ NamesOK'  BY <1>1, GhostsStep, FidsStep, NamesStep
<1>4. HereOK' /\ StopOK'  BY <1>1, HereStep, StopStep
<1>. QED  BY <1>2, <1>3, <1>4 DEF Inv

THEOREM Invariant == Spec => []Inv
<1>1. Init => Inv  BY InitInv
<1>. QED  BY <1>1, InvStep, PTL DEF Spec

\* The files, the fids and the names have their types, for any clients and walks.
THEOREM Types == Spec => []TypeOK
<1>1. Inv => TypeOK
  <2>. SUFFICES ASSUME Inv PROVE TypeOK  OBVIOUS
  <2>1. nq \in Nat /\ nq - 1 <= MaxPath /\ MaxPath \in Nat  BY PathFacts DEF Inv
  <2>2. 0 .. nq - 1 \subseteq Paths  BY <2>1 DEF Paths
  <2>3. DOMAIN files \subseteq Paths /\ doomed \subseteq Paths
    BY <2>2 DEF Inv, FilesOK, Tidy, GhostsOK
  <2>4. \A p \in DOMAIN files : files[p] \in FileType  BY DEF Inv, FilesOK, Tidy
  <2>5. fids \in FidTable /\ heap \subseteq Strings  BY DEF Inv, FidsOK, NamesOK
  <2>. QED  BY <2>3, <2>4, <2>5 DEF Inv, GhostsOK, TypeOK, FileType, FidTable
<1>. QED  BY <1>1, Invariant, PTL

\* A fid keeps its file until another fid removes it, a name of a device is freed once
\* unless its fid was cloned, and the server stops only after such a removal or a request
\* it is not made for.
THEOREM Safe == Spec => []ServerIsSafe
<1>1. Inv => ServerIsSafe
  BY DEF Inv, NamesOK, HereOK, Here, StopOK, ServerIsSafe
<1>. QED  BY <1>1, Invariant, PTL

\* A file opened or created to be removed on close is gone when the fids that would
\* remove it are.
THEOREM Temporary == Spec => []TemporaryFilesGo
<1>1. Init => TemporaryFilesGo  BY InitInv
<1>2. Inv /\ TemporaryFilesGo /\ [Next]_vars => TemporaryFilesGo'
  BY TempStep DEF Inv
<1>. QED  BY <1>1, <1>2, Invariant, PTL DEF Spec

----------------------------------------------------------------------------
(* The tree.                                                                *)

LEMMA ShapeOutline ==
  ASSUME NEW f, NEW g, Shape(f, g)
  PROVE  Outline(g) = Outline(f)
BY DEF Shape, Outline

LEMMA FreeName ==
  ASSUME FilesOK, NEW d, NEW n, NEW p, Children(files, d, n) = {}
  PROVE  ~ Tree!Taken(d, n, p)
<1>. SUFFICES ASSUME NEW q \in DOMAIN files, files[q].parent = d, q # d, files[q].name = n
              PROVE  FALSE
  BY DEF Tree!Taken, Tree!Parent, Outline
<1>1. q # Qroot  BY DEF FilesOK, Tidy
<1>. QED  BY <1>1 DEF Children

LEMMA InitTree == Init => Tree!Init
BY DEF Init, Tree!Init

LEMMA TreeStep == Inv /\ [Next]_vars => [Tree!Next]_(Outline(files))
<1>. SUFFICES ASSUME Inv, [Next]_vars, Outline(files') # Outline(files) PROVE Tree!Next
  OBVIOUS
<1>1. FilesOK /\ FilesOK' /\ Change
  BY FilesChange, InvStep DEF Inv
<1>2. CASE Recounted
  <2>1. Outline(files') = Outline(files)  BY <1>2, ShapeOutline DEF Recounted
  <2>. QED  BY <2>1
<1>3. ASSUME NEW p \in DOMAIN files, NEW m \in Names, Renamed(p, m) PROVE Tree!Next
  <2>1. files' = [files EXCEPT ![p].name = m]  BY <1>3 DEF Renamed
  <2>2. m = Mangled \/ ~ Tree!Taken(files[p].parent, m, p)
    BY <1>1, <1>3, FreeName DEF Renamed
  <2>3. Tree!Rename(p, m)
    <3>. DEFINE e == [files[p] EXCEPT !.name = m]
                a == [Outline(files)[p] EXCEPT !.name = m]
    <3>1. files[p] \in FileType  BY <1>1 DEF FilesOK, Tidy
    <3>2. e.parent = files[p].parent /\ e.dir = files[p].dir /\ e.name = m
      BY <3>1 DEF FileType
    <3>3. a = [parent |-> files[p].parent, dir |-> files[p].dir, name |-> m]
      BY DEF Outline
    <3>4. files' = [files EXCEPT ![p] = e]  BY <2>1
    <3>. HIDE DEF e, a
    <3>5. Outline(files') = [q \in DOMAIN files |-> IF q = p THEN a ELSE Outline(files)[q]]
      BY <3>2, <3>3, <3>4 DEF Outline
    <3>6. [Outline(files) EXCEPT ![p].name = m] = [Outline(files) EXCEPT ![p] = a]  BY DEF a
    <3>7. Outline(files') = [Outline(files) EXCEPT ![p] = a]  BY <3>5 DEF Outline
    <3>8. Outline(files') = [Outline(files) EXCEPT ![p].name = m] /\ Outline(files)[p].parent = files[p].parent
      BY <3>6, <3>7 DEF Outline
    <3>. QED  BY <2>2, <3>8 DEF Tree!Rename, Tree!Parent, Outline
  <2>4. p \in DOMAIN Outline(files) /\ m \in NewNames \cup {"dev"} \cup {Mangled}
    BY <1>3 DEF Outline, Renamed
  <2>. QED  BY <2>3, <2>4 DEF Tree!Next, Outline
<1>4. ASSUME NEW d \in DOMAIN files, NEW n \in NewNames, NEW isDir \in BOOLEAN, Grew(d, n, isDir)
      PROVE  Tree!Next
  <2>. DEFINE f == With(files, nq, Entry(d, isDir, n, "root"))
  <2>1. files[d].dir /\ Children(files, d, n) = {} /\ nq \in Paths /\ Shape(f, files')
    BY <1>4 DEF Grew
  <2>2. nq \notin DOMAIN files /\ nq \notin DOMAIN Outline(files)
    BY PathFacts DEF Inv, FilesOK, Tidy, Outline
  <2>3. Outline(files') = Outline(f)  BY <2>1, ShapeOutline
  <2>4. Outline(f) = [q \in DOMAIN Outline(files) \cup {nq} |->
                    IF q = nq THEN [parent |-> d, dir |-> isDir, name |-> n] ELSE Outline(files)[q]]
    BY <2>2 DEF Outline, With, Entry
  <2>5. ~ Tree!Taken(d, n, nq)  BY <1>1, <2>1, FreeName
  <2>6. d \in DOMAIN Outline(files) /\ Outline(files)[d].dir  BY <2>1 DEF Outline
  <2>. HIDE DEF f
  <2>7. Tree!Create(d, nq, n, isDir)
    BY <2>3, <2>4, <2>5, <2>6 DEF Tree!Create, Outline
  <2>. QED  BY <2>1, <2>2, <2>6, <2>7 DEF Tree!Next, Outline
<1>5. ASSUME NEW p, NEW f, Shrank(p, f) PROVE Tree!Next
  <2>1. Shape(files, f) /\ p # Qroot /\ Empty(files, p) /\ files' = Without(f, p)
    BY <1>5 DEF Shrank, Removable
  <2>2. Outline(files') = [q \in DOMAIN Outline(files) \ {p} |-> Outline(files)[q]]
    <3>1. Outline(f) = Outline(files) /\ DOMAIN f = DOMAIN files  BY <2>1, ShapeOutline DEF Shape
    <3>2. Outline(Without(f, p)) = [q \in DOMAIN f \ {p} |-> Outline(f)[q]]  BY DEF Outline, Without
    <3>. QED  BY <2>1, <3>1, <3>2 DEF Outline
  <2>3. p \in DOMAIN files
    <3>1. CASE p \notin DOMAIN files
      <4>1. Outline(files') = Outline(files)  BY <2>2, <3>1 DEF Outline
      <4>. QED  BY <4>1
    <3>. QED  BY <3>1
  <2>4. \A q \in DOMAIN files : Outline(files)[q].parent = files[q].parent /\ files[q].parent # p
    BY <2>1 DEF Outline, Empty
  <2>5. Tree!Remove(p)
    BY <2>2, <2>3, <2>4 DEF Tree!Remove, Tree!Parent, Outline
  <2>. QED  BY <2>3, <2>5 DEF Tree!Next, Outline
<1>. QED  BY <1>1, <1>2, <1>3, <1>4, <1>5 DEF Change

\* The tree of the server is one that FileTree describes.
THEOREM Refinement == Spec => TreeRefinement
<1>1. Inv /\ [Next]_vars => [Tree!Next]_(Outline(files))  BY TreeStep
<1>. QED  BY <1>1, InitTree, Invariant, PTL DEF Spec, TreeRefinement, Tree!Spec, Outline

----------------------------------------------------------------------------
(* The counts of files.                                                     *)

OpenOn(fs, p) == {ci \in On(fs, p) : At(fs, ci).open}
Counts(f, fs) ==
  \A p \in DOMAIN f : f[p].ref = Cardinality(On(fs, p)) /\ f[p].open = Cardinality(OpenOn(fs, p))

LEMMA FiniteOn ==
  ASSUME NEW fs, NEW p
  PROVE  /\ IsFiniteSet(On(fs, p)) /\ IsFiniteSet(OpenOn(fs, p))
         /\ Cardinality(On(fs, p)) \in Nat /\ Cardinality(OpenOn(fs, p)) \in Nat
<1>1. IsFiniteSet(Clients \X Fids)  BY FS_Product, StyxAssumption
<1>2. On(fs, p) \in SUBSET (Clients \X Fids) /\ OpenOn(fs, p) \in SUBSET (Clients \X Fids)
  BY DEF On, OpenOn, Used
<1>3. IsFiniteSet(On(fs, p)) /\ IsFiniteSet(OpenOn(fs, p))  BY <1>1, <1>2, FS_Subset
<1>. QED  BY <1>3, FS_CardinalityType

LEMMA OneFewer ==
  ASSUME NEW S, IsFiniteSet(S), NEW x, NEW T, T = S \ {x}
  PROVE  /\ x \in S => Cardinality(T) = Cardinality(S) - 1
         /\ x \notin S => Cardinality(T) = Cardinality(S)
BY FS_RemoveElement

LEMMA OneMore ==
  ASSUME NEW S, IsFiniteSet(S), NEW x, x \notin S, NEW T, T = S \cup {x}
  PROVE  Cardinality(T) = Cardinality(S) + 1
BY FS_AddElement

LEMMA OnDeleted ==
  ASSUME NEW fs \in FidTable, NEW c \in Clients, NEW i \in Fids, NEW p
  PROVE  LET g == DeleteFid(fs, c, i)
         IN  /\ On(g, p) = On(fs, p) \ {<<c, i>>} /\ OpenOn(g, p) = OpenOn(fs, p) \ {<<c, i>>}
             /\ <<c, i>> \in On(fs, p) <=> fs[c][i] # NULL /\ fs[c][i].qid.path = p
             /\ <<c, i>> \in OpenOn(fs, p) <=> fs[c][i] # NULL /\ fs[c][i].qid.path = p /\ fs[c][i].open
<1>. DEFINE g == DeleteFid(fs, c, i)
<1>1. /\ g \in FidTable /\ Used(g) = Used(fs) \ {<<c, i>>} /\ Used(fs) \subseteq Clients \X Fids
      /\ \A ci \in Clients \X Fids : ci # <<c, i>> => At(g, ci) = At(fs, ci)
  <2>1. Used(fs) \subseteq Clients \X Fids  BY DEF Used
  <2>. QED  BY <2>1, DeleteFacts
<1>. HIDE DEF g
<1>2. At(fs, <<c, i>>) = fs[c][i] /\ (<<c, i>> \in Used(fs) <=> fs[c][i] # NULL)
  BY DEF At, Used
<1>3. On(g, p) = On(fs, p) \ {<<c, i>>}  BY <1>1 DEF On
<1>4. OpenOn(g, p) = OpenOn(fs, p) \ {<<c, i>>}  BY <1>1, <1>3 DEF OpenOn, On
<1>. QED  BY <1>2, <1>3, <1>4 DEF On, OpenOn, g

LEMMA OnSet ==
  ASSUME NEW fs \in FidTable, NEW c \in Clients, NEW i \in Fids, NEW fid \in FidState, NEW p
  PROVE  LET g == SetFid(fs, c, i, fid)
         IN  /\ On(g, p) = (On(fs, p) \ {<<c, i>>}) \cup {ci \in {<<c, i>>} : fid.qid.path = p}
             /\ OpenOn(g, p) = (OpenOn(fs, p) \ {<<c, i>>}) \cup
                                 {ci \in {<<c, i>>} : fid.qid.path = p /\ fid.open}
<1>. DEFINE g == SetFid(fs, c, i, fid)
<1>1. /\ Used(g) = Used(fs) \cup {<<c, i>>} /\ Used(fs) \subseteq Clients \X Fids
      /\ <<c, i>> \in Clients \X Fids
      /\ \A ci \in Clients \X Fids : At(g, ci) = IF ci = <<c, i>> THEN fid ELSE At(fs, ci)
  <2>1. Used(fs) \subseteq Clients \X Fids  BY DEF Used
  <2>. QED  BY <2>1, SetFacts
<1>. HIDE DEF g
<1>2. /\ At(g, <<c, i>>) = fid
      /\ \A ci \in Used(fs) : ci # <<c, i>> => At(g, ci) = At(fs, ci)
  BY <1>1
<1>3. On(g, p) = (On(fs, p) \ {<<c, i>>}) \cup {ci \in {<<c, i>>} : fid.qid.path = p}
  BY <1>1, <1>2 DEF On
<1>4. OpenOn(g, p) = (OpenOn(fs, p) \ {<<c, i>>}) \cup {ci \in {<<c, i>>} : fid.qid.path = p /\ fid.open}
  BY <1>1, <1>2, <1>3 DEF On, OpenOn
<1>. QED  BY <1>3, <1>4 DEF g

LEMMA AddRefCounts ==
  ASSUME NEW f, Typed(f), NEW p, NEW n \in Int
  PROVE  \A q \in DOMAIN f : /\ AddRef(f, p, n)[q].ref = IF q = p THEN f[q].ref + n ELSE f[q].ref
                             /\ AddRef(f, p, n)[q].open = f[q].open
                             /\ f[q].ref \in Int /\ f[q].open \in Int
<1>. SUFFICES ASSUME NEW q \in DOMAIN f
              PROVE  /\ AddRef(f, p, n)[q].ref = IF q = p THEN f[q].ref + n ELSE f[q].ref
                     /\ AddRef(f, p, n)[q].open = f[q].open
                     /\ f[q].ref \in Int /\ f[q].open \in Int
  OBVIOUS
<1>1. f[q] \in FileType  BY DEF Typed
<1>2. CASE q = p
  <2>. DEFINE e == [f[q] EXCEPT !.ref = f[q].ref + n]
  <2>1. e.ref = f[q].ref + n /\ e.open = f[q].open  BY <1>1 DEF FileType
  <2>2. AddRef(f, p, n)[q] = e  BY <1>2 DEF AddRef
  <2>. HIDE DEF e
  <2>. QED  BY <1>1, <1>2, <2>1, <2>2 DEF FileType
<1>3. CASE q # p
  <2>1. AddRef(f, p, n)[q] = f[q]  BY <1>3 DEF AddRef
  <2>. QED  BY <1>1, <1>3, <2>1 DEF FileType
<1>. QED  BY <1>2, <1>3

LEMMA AddOpenCounts ==
  ASSUME NEW f, Typed(f), NEW fid, NEW n \in Int
  PROVE  \A q \in DOMAIN f :
           /\ AddOpen(f, fid, n)[q].open = IF fid.open /\ q = fid.qid.path THEN f[q].open + n ELSE f[q].open
           /\ AddOpen(f, fid, n)[q].ref = f[q].ref
           /\ f[q].ref \in Int /\ f[q].open \in Int
<1>. SUFFICES ASSUME NEW q \in DOMAIN f
              PROVE  /\ AddOpen(f, fid, n)[q].open =
                          IF fid.open /\ q = fid.qid.path THEN f[q].open + n ELSE f[q].open
                     /\ AddOpen(f, fid, n)[q].ref = f[q].ref
                     /\ f[q].ref \in Int /\ f[q].open \in Int
  OBVIOUS
<1>1. f[q] \in FileType  BY DEF Typed
<1>2. CASE fid.open /\ q = fid.qid.path
  <2>. DEFINE e == [f[q] EXCEPT !.open = f[q].open + n]
  <2>1. e.open = f[q].open + n /\ e.ref = f[q].ref  BY <1>1 DEF FileType
  <2>2. AddOpen(f, fid, n)[q] = e  BY <1>2 DEF AddOpen
  <2>. HIDE DEF e
  <2>. QED  BY <1>1, <1>2, <2>1, <2>2 DEF FileType
<1>3. CASE ~ (fid.open /\ q = fid.qid.path)
  <2>1. AddOpen(f, fid, n)[q] = f[q]  BY <1>3 DEF AddOpen
  <2>. QED  BY <1>1, <1>3, <2>1 DEF FileType
<1>. QED  BY <1>2, <1>3

\* A fid goes, and is released.
LEMMA CountsDeleted ==
  ASSUME NEW f, Typed(f), NEW fs \in FidTable, NEW c \in Clients, NEW i \in Fids,
         fs[c][i] # NULL, Counts(f, fs)
  PROVE  Counts(Release(f, fs[c][i]), DeleteFid(fs, c, i))
<1>. DEFINE fid == fs[c][i]
            h == AddRef(f, fid.qid.path, -1)
            g == DeleteFid(fs, c, i)
<1>1. DOMAIN Release(f, fid) = DOMAIN f /\ DOMAIN h = DOMAIN f
  <2>. HIDE DEF fid
  <2>. QED  BY Domains
<1>. SUFFICES ASSUME NEW p \in DOMAIN f
              PROVE  /\ Release(f, fid)[p].ref = Cardinality(On(g, p))
                     /\ Release(f, fid)[p].open = Cardinality(OpenOn(g, p))
  BY <1>1 DEF Counts
<1>2. f[p].ref = Cardinality(On(fs, p)) /\ f[p].open = Cardinality(OpenOn(fs, p))  BY DEF Counts
<1>3. Typed(h)  BY AddRefShape, ShapeTyped
<1>4. /\ h[p].ref = IF p = fid.qid.path THEN f[p].ref + (-1) ELSE f[p].ref
      /\ h[p].open = f[p].open /\ f[p].ref \in Int /\ f[p].open \in Int
  BY AddRefCounts
<1>5. /\ AddOpen(h, fid, -1)[p].open = IF fid.open /\ p = fid.qid.path THEN h[p].open + (-1) ELSE h[p].open
      /\ AddOpen(h, fid, -1)[p].ref = h[p].ref
  <2>. HIDE DEF h, fid
  <2>. QED  BY <1>1, <1>3, AddOpenCounts
<1>6. Release(f, fid) = AddOpen(h, fid, -1)  BY DEF Release
<1>7. /\ On(g, p) = On(fs, p) \ {<<c, i>>} /\ OpenOn(g, p) = OpenOn(fs, p) \ {<<c, i>>}
      /\ <<c, i>> \in On(fs, p) <=> fid.qid.path = p
      /\ <<c, i>> \in OpenOn(fs, p) <=> fid.qid.path = p /\ fid.open
  BY OnDeleted
<1>. HIDE DEF h, g, fid
<1>10. IsFiniteSet(On(fs, p)) /\ IsFiniteSet(OpenOn(fs, p))  BY FiniteOn
<1>8. Cardinality(On(g, p)) = IF fid.qid.path = p THEN f[p].ref - 1 ELSE f[p].ref
  <2>1. /\ <<c, i>> \in On(fs, p) => Cardinality(On(g, p)) = Cardinality(On(fs, p)) - 1
        /\ <<c, i>> \notin On(fs, p) => Cardinality(On(g, p)) = Cardinality(On(fs, p))
    BY <1>7, <1>10, OneFewer
  <2>. QED  BY <1>2, <1>7, <2>1
<1>9. Cardinality(OpenOn(g, p)) = IF fid.qid.path = p /\ fid.open THEN f[p].open - 1 ELSE f[p].open
  <2>1. /\ <<c, i>> \in OpenOn(fs, p) => Cardinality(OpenOn(g, p)) = Cardinality(OpenOn(fs, p)) - 1
        /\ <<c, i>> \notin OpenOn(fs, p) => Cardinality(OpenOn(g, p)) = Cardinality(OpenOn(fs, p))
    BY <1>7, <1>10, OneFewer
  <2>. QED  BY <1>2, <1>7, <2>1
<1>. QED  BY <1>4, <1>5, <1>6, <1>8, <1>9

\* A fid comes, closed.
LEMMA CountsAdded ==
  ASSUME NEW f, Typed(f), NEW fs \in FidTable, NEW c \in Clients, NEW i \in Fids,
         fs[c][i] = NULL, Counts(f, fs), NEW fid \in FidState, fid.open = FALSE
  PROVE  Counts(AddRef(f, fid.qid.path, 1), SetFid(fs, c, i, fid))
<1>. DEFINE h == AddRef(f, fid.qid.path, 1)
            g == SetFid(fs, c, i, fid)
<1>1. DOMAIN h = DOMAIN f  BY Domains
<1>. SUFFICES ASSUME NEW p \in DOMAIN f
              PROVE  h[p].ref = Cardinality(On(g, p)) /\ h[p].open = Cardinality(OpenOn(g, p))
  BY <1>1 DEF Counts
<1>2. f[p].ref = Cardinality(On(fs, p)) /\ f[p].open = Cardinality(OpenOn(fs, p))  BY DEF Counts
<1>3. /\ h[p].ref = IF p = fid.qid.path THEN f[p].ref + 1 ELSE f[p].ref
      /\ h[p].open = f[p].open
  BY AddRefCounts
<1>4. <<c, i>> \notin On(fs, p) /\ <<c, i>> \notin OpenOn(fs, p)  BY OnDeleted
<1>5. /\ On(g, p) = (On(fs, p) \ {<<c, i>>}) \cup {ci \in {<<c, i>>} : fid.qid.path = p}
      /\ OpenOn(g, p) = (OpenOn(fs, p) \ {<<c, i>>}) \cup {ci \in {<<c, i>>} : fid.qid.path = p /\ fid.open}
  BY OnSet
<1>. HIDE DEF h, g
<1>7. /\ fid.qid.path = p => On(g, p) = On(fs, p) \cup {<<c, i>>}
      /\ fid.qid.path # p => On(g, p) = On(fs, p)
      /\ OpenOn(g, p) = OpenOn(fs, p)
  BY <1>4, <1>5
<1>6. Cardinality(On(g, p)) = IF fid.qid.path = p THEN f[p].ref + 1 ELSE f[p].ref
  <2>1. IsFiniteSet(On(fs, p))  BY FiniteOn
  <2>2. fid.qid.path = p => Cardinality(On(g, p)) = Cardinality(On(fs, p)) + 1
    BY <1>4, <1>7, <2>1, OneMore
  <2>. QED  BY <1>2, <1>7, <2>2
<1>. QED  BY <1>2, <1>3, <1>6, <1>7

\* A closed fid is opened.
LEMMA CountsOpened ==
  ASSUME NEW f, Typed(f), NEW fs \in FidTable, NEW c \in Clients, NEW i \in Fids,
         fs[c][i] # NULL, ~ fs[c][i].open, Counts(f, fs), NEW fid \in FidState, fid.open = TRUE,
         fid.qid.path = fs[c][i].qid.path
  PROVE  Counts(AddOpen(f, fid, 1), SetFid(fs, c, i, fid))
<1>. DEFINE h == AddOpen(f, fid, 1)
            g == SetFid(fs, c, i, fid)
<1>1. DOMAIN h = DOMAIN f  BY Domains
<1>. SUFFICES ASSUME NEW p \in DOMAIN f
              PROVE  h[p].ref = Cardinality(On(g, p)) /\ h[p].open = Cardinality(OpenOn(g, p))
  BY <1>1 DEF Counts
<1>2. f[p].ref = Cardinality(On(fs, p)) /\ f[p].open = Cardinality(OpenOn(fs, p))  BY DEF Counts
<1>3. /\ h[p].open = IF p = fid.qid.path THEN f[p].open + 1 ELSE f[p].open
      /\ h[p].ref = f[p].ref
  BY AddOpenCounts
<1>4. <<c, i>> \in On(fs, p) <=> fid.qid.path = p  BY OnDeleted
<1>5. <<c, i>> \notin OpenOn(fs, p)  BY OnDeleted
<1>8. /\ On(g, p) = (On(fs, p) \ {<<c, i>>}) \cup {ci \in {<<c, i>>} : fid.qid.path = p}
      /\ OpenOn(g, p) = (OpenOn(fs, p) \ {<<c, i>>}) \cup {ci \in {<<c, i>>} : fid.qid.path = p /\ fid.open}
  BY OnSet
<1>. HIDE DEF h, g
<1>6. /\ On(g, p) = On(fs, p)
      /\ fid.qid.path = p => OpenOn(g, p) = OpenOn(fs, p) \cup {<<c, i>>}
      /\ fid.qid.path # p => OpenOn(g, p) = OpenOn(fs, p)
  BY <1>4, <1>5, <1>8
<1>7. Cardinality(OpenOn(g, p)) = IF fid.qid.path = p THEN f[p].open + 1 ELSE f[p].open
  <2>1. IsFiniteSet(OpenOn(fs, p))  BY FiniteOn
  <2>2. fid.qid.path = p => Cardinality(OpenOn(g, p)) = Cardinality(OpenOn(fs, p)) + 1
    BY <1>5, <1>6, <2>1, OneMore
  <2>. QED  BY <1>2, <1>6, <2>2
<1>. QED  BY <1>2, <1>3, <1>6, <1>7

\* Counts of files that stay, with the fids.
LEMMA CountsKept ==
  ASSUME NEW f, NEW fs, Counts(f, fs), NEW g, DOMAIN g \subseteq DOMAIN f,
         \A p \in DOMAIN g : g[p].ref = f[p].ref /\ g[p].open = f[p].open
  PROVE  Counts(g, fs)
BY DEF Counts

LEMMA CountsForgotten ==
  ASSUME FilesOK, FidsOK, Counts(files, fids), NEW c \in Clients, NEW i \in Fids
  PROVE  LET old == Forget(fids, c, i)
         IN  /\ Counts(old.f, old.fs) /\ Typed(old.f)
             /\ old.fs \in FidTable /\ old.fs[c][i] = NULL /\ old.fs = DeleteFid(fids, c, i)
<1>. DEFINE old == Forget(fids, c, i)
<1>1. fids \in FidTable  BY DEF FidsOK
<1>2. old.fs = DeleteFid(fids, c, i)  BY DEF Forget
<1>3. old.fs \in FidTable /\ old.fs[c][i] = NULL
  <2>1. DeleteFid(fids, c, i) \in FidTable /\ Used(DeleteFid(fids, c, i)) = Used(fids) \ {<<c, i>>}
    BY <1>1, DeleteFacts
  <2>2. <<c, i>> \notin Used(DeleteFid(fids, c, i))  BY <2>1
  <2>. QED  BY <1>2, <2>1, <2>2 DEF Used
<1>4. Typed(files)  BY TidyTyped DEF FilesOK
<1>5. Typed(old.f)  BY <1>4, OldShape, ShapeTyped
<1>6. CASE fids[c][i] = NULL
  <2>1. old.f = files  BY <1>6 DEF Forget
  <2>2. DeleteFid(fids, c, i) = fids
    <3>1. fids = [d \in Clients |-> [k \in Fids |-> fids[d][k]]]  BY <1>1 DEF FidTable
    <3>. DEFINE g == DeleteFid(fids, c, i)
    <3>2. g \in [Clients -> [Fids -> FidState \cup {NULL}]]  BY <1>1, DeleteFacts DEF FidTable
    <3>3. \A ci \in Clients \X Fids : ci # <<c, i>> => At(g, ci) = At(fids, ci)  BY <1>1, DeleteFacts
    <3>4. g[c][i] = NULL  BY <1>2, <1>3
    <3>. HIDE DEF g
    <3>5. ASSUME NEW d \in Clients, NEW k \in Fids PROVE g[d][k] = fids[d][k]
      <4>1. CASE d = c /\ k = i  BY <1>6, <3>4, <4>1
      <4>2. CASE ~ (d = c /\ k = i)
        <5>1. <<d, k>> \in Clients \X Fids /\ <<d, k>> # <<c, i>>  BY <4>2
        <5>. QED  BY <3>3, <5>1 DEF At
      <4>. QED  BY <4>1, <4>2
    <3>6. g = [d \in Clients |-> [k \in Fids |-> g[d][k]]]  BY <3>2
    <3>. QED  BY <3>1, <3>5, <3>6 DEF g
  <2>. QED  BY <1>2, <1>3, <1>5, <2>1, <2>2
<1>7. CASE fids[c][i] # NULL
  <2>1. old.f = Release(files, fids[c][i])  BY <1>7 DEF Forget
  <2>2. Counts(old.f, old.fs)  BY <1>1, <1>2, <1>4, <1>7, <2>1, CountsDeleted
  <2>. QED  BY <1>2, <1>3, <1>5, <2>2
<1>. QED  BY <1>6, <1>7

\* A client goes.
MineOn(fs, c, p) == {i \in {k \in Fids : fs[c][k] # NULL} : fs[c][i].qid.path = p}
MineOpenOn(fs, c, p) == {i \in MineOn(fs, c, p) : fs[c][i].open}

LEMMA OnFreed ==
  ASSUME NEW fs \in FidTable, NEW c \in Clients, NEW p
  PROVE  /\ Cardinality(On(FreeFids(fs, c), p)) = Cardinality(On(fs, p)) - Cardinality(MineOn(fs, c, p))
         /\ Cardinality(OpenOn(FreeFids(fs, c), p))
              = Cardinality(OpenOn(fs, p)) - Cardinality(MineOpenOn(fs, c, p))
<1>. DEFINE S == MineOn(fs, c, p)
            O == MineOpenOn(fs, c, p)
<1>0. /\ S = {i \in {k \in Fids : fs[c][k] # NULL} : fs[c][i].qid.path = p}
      /\ O = {i \in S : fs[c][i].open}
  BY DEF MineOn, MineOpenOn
<1>. HIDE DEF S, O
<1>. DEFINE g == FreeFids(fs, c)
<1>1. /\ Used(g) = {ci \in Used(fs) : ci[1] # c}
      /\ \A ci \in Used(g) : At(g, ci) = At(fs, ci)
  BY FreeFacts
<1>. HIDE DEF g
<1>2. /\ On(fs, p) = On(g, p) \cup ({c} \X S) /\ On(g, p) \cap ({c} \X S) = {}
  <2>1. \A ci \in Used(fs) : ci = <<ci[1], ci[2]>> /\ ci[1] \in Clients /\ ci[2] \in Fids
                             /\ At(fs, ci) = fs[ci[1]][ci[2]] /\ At(fs, ci) # NULL
    BY DEF Used, At
  <2>2. \A i \in S : <<c, i>> \in Used(fs) /\ At(fs, <<c, i>>) = fs[c][i]  BY <1>0 DEF Used, At
  <2>3. \A ci \in On(fs, p) : ci[1] = c => ci \in {c} \X S  BY <1>0, <2>1 DEF On
  <2>4. {c} \X S \subseteq On(fs, p)  BY <1>0, <2>2 DEF On
  <2>5. On(g, p) = {ci \in On(fs, p) : ci[1] # c}  BY <1>1 DEF On
  <2>. QED  BY <2>3, <2>4, <2>5
<1>3. /\ OpenOn(fs, p) = OpenOn(g, p) \cup ({c} \X O) /\ OpenOn(g, p) \cap ({c} \X O) = {}
  <2>1. \A ci \in On(g, p) : At(g, ci) = At(fs, ci)  BY <1>1 DEF On
  <2>2. \A i \in S : At(fs, <<c, i>>) = fs[c][i]  BY DEF At
  <2>3. {ci \in {c} \X S : At(fs, ci).open} = {c} \X O  BY <1>0, <2>2
  <2>4. OpenOn(g, p) = {ci \in On(g, p) : At(fs, ci).open}  BY <2>1 DEF OpenOn
  <2>. HIDE DEF On
  <2>. QED  BY <1>2, <2>3, <2>4 DEF OpenOn
<1>4. IsFiniteSet(S) /\ IsFiniteSet(O) /\ Cardinality(S) \in Nat /\ Cardinality(O) \in Nat
  <2>1. S \in SUBSET Fids /\ O \in SUBSET Fids  BY <1>0
  <2>2. IsFiniteSet(S) /\ IsFiniteSet(O)  BY <2>1, StyxAssumption, FS_Subset
  <2>. QED  BY <2>2, FS_CardinalityType
<1>5. ASSUME NEW T, IsFiniteSet(T), Cardinality(T) \in Nat
      PROVE  IsFiniteSet({c} \X T) /\ Cardinality({c} \X T) = Cardinality(T)
  <2>1. IsFiniteSet({c}) /\ Cardinality({c}) = 1  BY FS_Singleton
  <2>2. IsFiniteSet({c} \X T) /\ Cardinality({c} \X T) = Cardinality({c}) * Cardinality(T)
    BY <1>5, <2>1, FS_Product
  <2>. QED  BY <1>5, <2>1, <2>2
<1>6. ASSUME NEW A, NEW B, NEW T, IsFiniteSet(A), IsFiniteSet(T), Cardinality(A) \in Nat,
             Cardinality(T) \in Nat, B = A \cup ({c} \X T), A \cap ({c} \X T) = {}
      PROVE  Cardinality(A) = Cardinality(B) - Cardinality(T)
  <2>1. IsFiniteSet({c} \X T) /\ Cardinality({c} \X T) = Cardinality(T)  BY <1>5, <1>6
  <2>2. Cardinality(B) = Cardinality(A) + Cardinality({c} \X T) - Cardinality(A \cap ({c} \X T))
    BY <1>6, <2>1, FS_Union
  <2>3. Cardinality(A \cap ({c} \X T)) = 0  BY <1>6, FS_EmptySet
  <2>. QED  BY <1>6, <2>1, <2>2, <2>3
<1>7. Cardinality(On(g, p)) = Cardinality(On(fs, p)) - Cardinality(S)
  BY <1>2, <1>4, <1>6, FiniteOn
<1>8. Cardinality(OpenOn(g, p)) = Cardinality(OpenOn(fs, p)) - Cardinality(O)
  BY <1>3, <1>4, <1>6, FiniteOn
<1>. QED  BY <1>7, <1>8 DEF g, S, O

LEMMA SetTwice ==
  ASSUME NEW fs \in FidTable, NEW c \in Clients, NEW i \in Fids, NEW g, NEW h
  PROVE  SetFid(SetFid(fs, c, i, g), c, i, h) = SetFid(fs, c, i, h)
<1>1. fs[c] \in [Fids -> FidState \cup {NULL}] /\ fs \in [Clients -> [Fids -> FidState \cup {NULL}]]
  BY DEF FidTable
<1>. QED  BY <1>1 DEF SetFid

\* Counts stay those of the fids.
LEMMA RefsStep ==
  ASSUME GhostsOK, FilesOK, FidsOK, NamesOK, RefsExact, [Next]_vars
  PROVE  RefsExact'
<1>1. ASSUME NEW c \in Clients,
             FreeClient(c)
      PROVE  RefsExact'
  <2>. SUFFICES ASSUME "selfwalk" \notin spoilt' PROVE Counts(files', fids')
    BY DEF RefsExact, Counts, OpenOn
  <2>0. Counts(files, fids)
    <3>1. "selfwalk" \notin spoilt  BY <1>1 DEF FreeClient, Serve, Goes
    <3>. QED  BY <3>1 DEF RefsExact, Counts, OpenOn
  <2>00. fids \in FidTable /\ Typed(files)  BY TidyTyped DEF FidsOK, FilesOK
  <2>. DEFINE refs(p) == Cardinality(MineOn(fids, c, p))
              opens(p) == Cardinality(MineOpenOn(fids, c, p))
              e(p) == [files[p] EXCEPT !.ref = files[p].ref - refs(p), !.open = files[p].open - opens(p)]
  <2>1. files' = [p \in DOMAIN files |-> e(p)] /\ fids' = FreeFids(fids, c)
    BY <1>1 DEF FreeClient, Serve, FreeFids, MineOn, MineOpenOn
  <2>2. ASSUME NEW p \in DOMAIN files
        PROVE  /\ Cardinality(On(fids', p)) = Cardinality(On(fids, p)) - refs(p)
               /\ Cardinality(OpenOn(fids', p)) = Cardinality(OpenOn(fids, p)) - opens(p)
    BY <2>00, <2>1, OnFreed
  <2>. HIDE DEF refs, opens
  <2>3. ASSUME NEW p \in DOMAIN files
        PROVE  e(p).ref = files[p].ref - refs(p) /\ e(p).open = files[p].open - opens(p)
    <3>1. files[p] \in FileType  BY <2>00 DEF Typed
    <3>. QED  BY <3>1 DEF FileType
  <2>. HIDE DEF e
  <2>. QED  BY <2>0, <2>1, <2>2, <2>3 DEF Counts
<1>2. ASSUME NEW c \in Clients, NEW i \in Fids,
             Tattach(c, i)
      PROVE  RefsExact'
  <2>. SUFFICES ASSUME "selfwalk" \notin spoilt' PROVE Counts(files', fids')
    BY DEF RefsExact, Counts, OpenOn
  <2>0. Counts(files, fids)
    <3>1. "selfwalk" \notin spoilt  BY <1>2 DEF Tattach, Serve, Goes
    <3>. QED  BY <3>1 DEF RefsExact, Counts, OpenOn
  <2>00. fids \in FidTable /\ Typed(files)  BY TidyTyped DEF FidsOK, FilesOK
  <2>. DEFINE q == FileQid(files, Qroot)
  <2>1. /\ fids' = SetFid(fids, c, i, Opening(q)) /\ files' = AddRef(files, Qroot, 1)
        /\ fids[c][i] = NULL
    BY <1>2 DEF Tattach, Serve
  <2>2. QidOK(q, files, nq) /\ q.path = Qroot  BY <1>2, AttachFacts DEF FileQid
  <2>. HIDE DEF q
  <2>3. Opening(q) \in FidState /\ Opening(q).open = FALSE /\ Opening(q).qid.path = Qroot
    BY <2>2, OpeningOK DEF Opening
  <2>. QED  BY <2>0, <2>00, <2>1, <2>3, CountsAdded
<1>3. ASSUME NEW c \in Clients, NEW i \in Fids, NEW j \in Fids, NEW names \in Walks,
             Twalk(c, i, j, names)
      PROVE  RefsExact'
  <2>. SUFFICES ASSUME "selfwalk" \notin spoilt' PROVE Counts(files', fids')
    BY DEF RefsExact, Counts, OpenOn
  <2>0. Counts(files, fids)
    <3>1. "selfwalk" \notin spoilt  BY <1>3 DEF Twalk, Serve, Goes
    <3>. QED  BY <3>1 DEF RefsExact, Counts, OpenOn
  <2>00. fids \in FidTable /\ Typed(files)  BY TidyTyped DEF FidsOK, FilesOK
  <2>. DEFINE old == Forget(fids, c, j)
              w == DevWalk(old.f, FreshString(heap), fids[c][i].qid, names)
  <2>1. /\ Counts(old.f, old.fs) /\ Typed(old.f)
        /\ old.fs \in FidTable /\ old.fs[c][j] = NULL
    BY <2>0, CountsForgotten
  <2>2. \/ files' = old.f /\ fids' = old.fs
        \/ /\ files' = AddRef(old.f, w.qid.path, 1)
           /\ fids' = SetFid(old.fs, c, j, Opening(w.qid))
    <3>1. \/ Serve(AddRef(old.f, w.qid.path, 1),
                   SetFid(old.fs, c, j, Opening(w.qid)), heap \cup {w.qid.name})
          \/ Serve(old.f, old.fs, heap)
      BY <1>3 DEF Twalk
    <3>. HIDE DEF old, w
    <3>. QED  BY <3>1 DEF Serve
  <2>3. w.qid \in Qid
    <3>1. fids[c][i] # NULL  BY <1>3 DEF Twalk
    <3>2. QidOK(fids[c][i].qid, files, nq)  BY <3>1, FidFacts
    <3>3. Shape(files, old.f)  BY OldShape
    <3>4. Tidy(old.f, nq) /\ QidOK(fids[c][i].qid, old.f, nq)
      BY <3>2, <3>3, ShapeTidy, ShapeQid DEF FilesOK
    <3>5. FreshString(heap) \in Strings \cup {NULL}  BY DEF FreshString
    <3>6. GoodWalk(old.f, FreshString(heap), fids[c][i].qid, w, Len(names))
      <4>. HIDE DEF old
      <4>. QED  BY <3>4, <3>5, PathFacts, DevWalkFacts
    <3>. HIDE DEF w, old
    <3>. QED  BY <3>6 DEF GoodWalk, QidOK
  <2>. HIDE DEF old, w
  <2>4. Opening(w.qid) \in FidState /\ Opening(w.qid).open = FALSE /\ Opening(w.qid).qid.path = w.qid.path
    BY <2>3 DEF Opening, FidState
  <2>5. CASE /\ files' = AddRef(old.f, w.qid.path, 1)
             /\ fids' = SetFid(old.fs, c, j, Opening(w.qid))
    BY <2>1, <2>4, <2>5, CountsAdded
  <2>. QED  BY <2>1, <2>2, <2>5
<1>4. ASSUME NEW c \in Clients, NEW i \in Fids, NEW names \in Walks,
             TwalkSelf(c, i, names)
      PROVE  RefsExact'
  <2>1. "selfwalk" \in spoilt'  BY <1>4 DEF TwalkSelf
  <2>. QED  BY <2>1 DEF RefsExact
<1>5. ASSUME NEW c \in Clients, NEW i \in Fids, NEW rclose \in BOOLEAN,
             Topen(c, i, rclose)
      PROVE  RefsExact'
  <2>. SUFFICES ASSUME "selfwalk" \notin spoilt' PROVE Counts(files', fids')
    BY DEF RefsExact, Counts, OpenOn
  <2>0. Counts(files, fids)
    <3>1. "selfwalk" \notin spoilt  BY <1>5 DEF Topen, Serve, Goes
    <3>. QED  BY <3>1 DEF RefsExact, Counts, OpenOn
  <2>00. fids \in FidTable /\ Typed(files)  BY TidyTyped DEF FidsOK, FilesOK
  <2>. DEFINE fid == Opened(fids[c][i], rclose)
  <2>1. /\ fids' = SetFid(fids, c, i, fid) /\ fids[c][i] # NULL /\ fid \in FidState
        /\ fid.qid = fids[c][i].qid /\ fid.open = TRUE /\ ~ fids[c][i].open
    BY <1>5, OpenFacts
  <2>2. files' = AddOpen(files, fid, 1)  BY <1>5 DEF Topen, Serve, Opened
  <2>. HIDE DEF fid
  <2>. QED  BY <2>0, <2>00, <2>1, <2>2, CountsOpened
<1>6. ASSUME NEW c \in Clients, NEW i \in Fids, NEW n \in NewNames, NEW isDir \in BOOLEAN, NEW rclose \in BOOLEAN,
             Tcreate(c, i, n, isDir, rclose)
      PROVE  RefsExact'
  <2>. SUFFICES ASSUME "selfwalk" \notin spoilt' PROVE Counts(files', fids')
    BY DEF RefsExact, Counts, OpenOn
  <2>0. Counts(files, fids)
    <3>1. "selfwalk" \notin spoilt  BY <1>6 DEF Tcreate, Serve, Goes
    <3>. QED  BY <3>1 DEF RefsExact, Counts, OpenOn
  <2>00. fids \in FidTable /\ Typed(files)  BY TidyTyped DEF FidsOK, FilesOK
  <2>. DEFINE fid == fids[c][i]
              p == fid.qid.path
              f == With(files, nq, Entry(p, isDir, n, "root"))
              q == FileQid(f, nq)
              made == [qid |-> q, open |-> TRUE, rclose |-> rclose]
              f1 == AddRef(f, p, -1)
              f2 == AddRef(f1, nq, 1)
              g1 == DeleteFid(fids, c, i)
              g2 == SetFid(g1, c, i, Opening(q))
  <2>1. CASE UNCHANGED <<files, fids>>
    BY <2>0, <2>1
  <2>2. CASE /\ p \in DOMAIN files /\ files[p].dir /\ files' = AddOpen(f2, made, 1)
             /\ fids' = SetFid(fids, c, i, made)
    <3>1. fid # NULL /\ ~ fid.open /\ nq \in Nat /\ nq \in Paths
      BY <1>6, PathFacts DEF Tcreate, Paths
    <3>2. Tidy(f, nq + 1) /\ nq \notin DOMAIN files
      <4>1. n \in Names  BY DEF Names
      <4>. QED  BY <2>2, <3>1, <4>1, WithTidy DEF FilesOK
    <3>3. nq \in DOMAIN f /\ f[nq].ref = 0 /\ f[nq].open = 0 /\ DOMAIN f = DOMAIN files \cup {nq}
          /\ \A r \in DOMAIN files : f[r] = files[r]
      BY <3>2 DEF With, Entry
    <3>4. QidOK(q, f, nq + 1) /\ q.path = nq
      <4>1. (nq + 1) - 1 <= MaxPath /\ nq + 1 \in Nat  BY <3>1 DEF Paths
      <4>. HIDE DEF f
      <4>. QED  BY <3>2, <3>3, <4>1, FileQidOK
    <3>5. Typed(f)  BY <3>2, TidyTyped
    <3>. HIDE DEF q, f
    <3>6. /\ Opening(q) \in FidState /\ Opening(q).open = FALSE /\ Opening(q).qid.path = nq
          /\ made \in FidState /\ made.open = TRUE /\ made.qid.path = nq
      <4>1. q \in Qid  BY <3>4 DEF QidOK
      <4>. QED  BY <3>4, <4>1 DEF Opening, FidState
    <3>. HIDE DEF made
    <3>7. On(fids, nq) = {} /\ OpenOn(fids, nq) = {}
      <4>1. \A ci \in Used(fids) : At(fids, ci).qid.path # nq
        <5>1. \A ci \in Used(fids) : At(fids, ci).qid.path \in 0 .. nq - 1 \cup {DevPath}
          BY DEF FidsOK, FidOK, QidOK
        <5>. QED  BY <3>1, <5>1 DEF DevPath
      <4>. QED  BY <4>1 DEF On, OpenOn
    <3>8. Counts(f, fids)
      <4>1. Cardinality({}) = 0  BY FS_EmptySet
      <4>. QED  BY <2>0, <3>3, <3>7, <4>1 DEF Counts
    <3>9. fid \in FidState /\ f1 = Release(f, fid)
      <4>1. AddOpen(f1, fid, -1) = f1  BY <3>1 DEF AddOpen
      <4>. QED  BY <3>1, <4>1, FidFacts DEF Release
    <3>10. Counts(f1, g1) /\ Typed(f1) /\ g1 \in FidTable /\ g1[c][i] = NULL
      <4>1. Counts(f1, g1)  BY <2>00, <3>1, <3>5, <3>8, <3>9, CountsDeleted
      <4>2. Typed(f1)  BY <3>5, AddRefShape, ShapeTyped
      <4>3. g1 \in FidTable /\ Used(g1) = Used(fids) \ {<<c, i>>}  BY <2>00, DeleteFacts
      <4>4. g1[c][i] = NULL  BY <4>3 DEF Used
      <4>. QED  BY <4>1, <4>2, <4>3, <4>4
    <3>11. g2 = SetFid(fids, c, i, Opening(q))  BY <2>00, SetDeleted
    <3>. HIDE DEF f1, g1
    <3>12. Counts(f2, g2) /\ Typed(f2)
      <4>1. Typed(f2)  BY <3>10, AddRefShape, ShapeTyped
      <4>. QED  BY <3>6, <3>10, <4>1, CountsAdded
    <3>. HIDE DEF f2, g2
    <3>13. g2 \in FidTable /\ g2[c][i] = Opening(q)
      <4>1. g2 \in FidTable /\ At(g2, <<c, i>>) = Opening(q)
        BY <2>00, <3>6, <3>11, SetFacts
      <4>. QED  BY <4>1 DEF At
    <3>14. Counts(AddOpen(f2, made, 1), SetFid(g2, c, i, made))
      <4>1. Opening(q) # NULL  BY <3>6, NoFid
      <4>. QED  BY <3>6, <3>12, <3>13, <4>1, CountsOpened
    <3>15. SetFid(g2, c, i, made) = SetFid(fids, c, i, made)
      BY <2>00, <3>11, SetTwice
    <3>. QED  BY <2>2, <3>14, <3>15
  <2>3. \/ UNCHANGED <<files, fids>>
        \/ /\ p \in DOMAIN files /\ files[p].dir /\ files' = AddOpen(f2, made, 1)
           /\ fids' = SetFid(fids, c, i, made)
    BY <1>6 DEF Tcreate, Serve, Addable
  <2>. QED  BY <2>1, <2>2, <2>3
<1>7. ASSUME NEW c \in Clients, NEW i \in Fids,
             Tclunk(c, i)
      PROVE  RefsExact'
  <2>. SUFFICES ASSUME "selfwalk" \notin spoilt' PROVE Counts(files', fids')
    BY DEF RefsExact, Counts, OpenOn
  <2>0. Counts(files, fids)
    <3>1. "selfwalk" \notin spoilt  BY <1>7 DEF Tclunk, Serve, Goes
    <3>. QED  BY <3>1 DEF RefsExact, Counts, OpenOn
  <2>00. fids \in FidTable /\ Typed(files)  BY TidyTyped DEF FidsOK, FilesOK
  <2>. DEFINE f == Release(files, fids[c][i])
              p == fids[c][i].qid.path
  <2>1. /\ fids[c][i] # NULL /\ fids' = DeleteFid(fids, c, i)
        /\ files' = f \/ files' = Left(p, f)
    BY <1>7 DEF Tclunk, Serve
  <2>2. Counts(f, fids')  BY <2>0, <2>00, <2>1, CountsDeleted
  <2>. HIDE DEF f, p
  <2>3. CASE files' = Left(p, f)
    <3>1. DOMAIN files' \subseteq DOMAIN f /\ \A r \in DOMAIN files' : files'[r] = f[r]
      BY <2>3 DEF Left, Without
    <3>. QED  BY <2>2, <3>1, CountsKept
  <2>. QED  BY <2>1, <2>2, <2>3
<1>8. ASSUME NEW c \in Clients, NEW i \in Fids,
             Tremove(c, i)
      PROVE  RefsExact'
  <2>. SUFFICES ASSUME "selfwalk" \notin spoilt' PROVE Counts(files', fids')
    BY DEF RefsExact, Counts, OpenOn
  <2>0. Counts(files, fids)
    <3>1. "selfwalk" \notin spoilt  BY <1>8 DEF Tremove, Serve, Goes
    <3>. QED  BY <3>1 DEF RefsExact, Counts, OpenOn
  <2>00. fids \in FidTable /\ Typed(files)  BY TidyTyped DEF FidsOK, FilesOK
  <2>. DEFINE f == Release(files, fids[c][i])
              p == fids[c][i].qid.path
  <2>1. /\ fids[c][i] # NULL /\ fids' = DeleteFid(fids, c, i)
        /\ files' = f \/ files' = Left(p, f)
    BY <1>8 DEF Tremove, Serve
  <2>2. Counts(f, fids')  BY <2>0, <2>00, <2>1, CountsDeleted
  <2>. HIDE DEF f, p
  <2>3. CASE files' = Left(p, f)
    <3>1. DOMAIN files' \subseteq DOMAIN f /\ \A r \in DOMAIN files' : files'[r] = f[r]
      BY <2>3 DEF Left, Without
    <3>. QED  BY <2>2, <3>1, CountsKept
  <2>. QED  BY <2>1, <2>2, <2>3
<1>9. ASSUME NEW c \in Clients, NEW i \in Fids, NEW n \in NewNames \cup {"dev"},
             Twstat(c, i, n)
      PROVE  RefsExact'
  <2>. SUFFICES ASSUME "selfwalk" \notin spoilt' PROVE Counts(files', fids')
    BY DEF RefsExact, Counts, OpenOn
  <2>0. Counts(files, fids)
    <3>1. "selfwalk" \notin spoilt  BY <1>9 DEF Twstat, Serve, Goes
    <3>. QED  BY <3>1 DEF RefsExact, Counts, OpenOn
  <2>00. fids \in FidTable /\ Typed(files)  BY TidyTyped DEF FidsOK, FilesOK
  <2>1. /\ UNCHANGED fids
        /\ files' = files \/ \E m : files' = [files EXCEPT ![fids[c][i].qid.path].name = m]
    BY <1>9 DEF Twstat, Serve
  <2>2. ASSUME NEW p, NEW m, files' = [files EXCEPT ![p].name = m]
        PROVE  Counts(files', fids)
    <3>1. ASSUME NEW r \in DOMAIN files PROVE files'[r].ref = files[r].ref /\ files'[r].open = files[r].open
      <4>1. files[r] \in FileType  BY <2>00 DEF Typed
      <4>. DEFINE e == [files[r] EXCEPT !.name = m]
      <4>2. e.ref = files[r].ref /\ e.open = files[r].open  BY <4>1 DEF FileType
      <4>3. files'[r] = e \/ files'[r] = files[r]  BY <2>2
      <4>. HIDE DEF e
      <4>. QED  BY <4>2, <4>3
    <3>2. DOMAIN files' = DOMAIN files  BY <2>2
    <3>. QED  BY <2>0, <3>1, <3>2, CountsKept
  <2>. QED  BY <2>0, <2>1, <2>2
<1>10. ASSUME NEW c \in Clients, NEW i \in Fids,
             NilFile(c, i)
      PROVE  RefsExact'
  BY <1>10 DEF NilFile, Stop, RefsExact, On, Used, At
<1>11. ASSUME NEW c \in Clients, NEW i \in Fids,
             FatalRequest(c, i)
      PROVE  RefsExact'
  <2>1. UNCHANGED <<files, fids>> /\ spoilt \subseteq spoilt'  BY <1>11 DEF FatalRequest, Stop
  <2>. QED  BY <2>1 DEF RefsExact, On, Used, At
<1>12. CASE UNCHANGED vars
  BY <1>12 DEF vars, RefsExact, On, Used, At
<1>. QED  BY <1>1, <1>2, <1>3, <1>4, <1>5, <1>6, <1>7, <1>8, <1>9, <1>10, <1>11, <1>12 DEF
            Next

\* The counts of a file are those of the fids on it and of the open ones, whatever clients
\* do but walk a fid to its own number.
THEOREM Refs == Spec => []RefsExact
<1>1. Init => RefsExact
  <2>. SUFFICES ASSUME Init PROVE RefsExact  OBVIOUS
  <2>1. \A parent, dir, name, type : /\ Entry(parent, dir, name, type).ref = 0
                                     /\ Entry(parent, dir, name, type).open = 0
    BY DEF Entry
  <2>2. ASSUME NEW p \in DOMAIN files PROVE files[p].ref = 0 /\ files[p].open = 0
    <3>1. p = 0 \/ p = 1 \/ p = 2 \/ p = 3  BY InitFiles
    <3>2. /\ files[0].ref = 0 /\ files[1].ref = 0 /\ files[2].ref = 0 /\ files[3].ref = 0
          /\ files[0].open = 0 /\ files[1].open = 0 /\ files[2].open = 0 /\ files[3].open = 0
      BY <2>1, InitFiles
    <3>. QED  BY <3>1, <3>2
  <2>3. \A p : On(fids, p) = {}  BY InitFids DEF On
  <2>4. \A p : OpenOn(fids, p) = {}  BY <2>3 DEF OpenOn
  <2>5. Cardinality({}) = 0  BY FS_EmptySet
  <2>6. Counts(files, fids)  BY <2>2, <2>3, <2>4, <2>5 DEF Counts
  <2>. QED  BY <2>6 DEF RefsExact, Counts, OpenOn
<1>2. Inv /\ RefsExact /\ [Next]_vars => RefsExact'
  BY RefsStep DEF Inv
<1>. QED  BY <1>1, <1>2, Invariant, PTL DEF Spec
=============================================================================

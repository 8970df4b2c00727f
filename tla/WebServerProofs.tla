--------------------------- MODULE WebServerProofs ---------------------------
(***************************************************************************)
(* Invariants of WebServer for any number of connections, peers and places  *)
(* in the tables.                                                           *)
(***************************************************************************)
EXTENDS WebServer, SetInduction, SequenceTheorems, TLAPS

----------------------------------------------------------------------------
(* The tables.                                                              *)

LEMMA RemoveAtFacts ==
  ASSUME NEW S, NEW s \in Seq(S), NEW i \in 1 .. Len(s)
  PROVE  /\ RemoveAt(s, i) \in Seq(S)
         /\ Len(RemoveAt(s, i)) = Len(s) - 1
         /\ \A j \in 1 .. Len(s) - 1 : RemoveAt(s, i)[j] = IF j < i THEN s[j] ELSE s[j + 1]
<1>. DEFINE a == SubSeq(s, 1, i - 1)
            b == SubSeq(s, i + 1, Len(s))
<1>. HIDE DEF a, b
<1>1. Len(s) \in Nat /\ i \in Nat  BY LenProperties
<1>2. /\ a \in Seq(S) /\ Len(a) = i - 1
      /\ \A j \in 1 .. i - 1 : a[j] = s[j]
  BY <1>1, SubSeqProperties DEF a
<1>3. /\ b \in Seq(S) /\ Len(b) = Len(s) - i
      /\ \A j \in 1 .. Len(s) - i : b[j] = s[i + j]
  <2>1. /\ b \in Seq(S)
        /\ Len(b) = IF i + 1 <= Len(s) THEN Len(s) - (i + 1) + 1 ELSE 0
        /\ \A j \in 1 .. Len(s) - (i + 1) + 1 : b[j] = s[(i + 1) + j - 1]
    BY <1>1, SubSeqProperties DEF b
  <2>2. Len(b) = Len(s) - i  BY <2>1, <1>1
  <2>3. ASSUME NEW j \in 1 .. Len(s) - i PROVE b[j] = s[i + j]
    <3>1. j \in 1 .. Len(s) - (i + 1) + 1 /\ (i + 1) + j - 1 = i + j  BY <1>1
    <3>. QED  BY <2>1, <3>1
  <2>4. b \in Seq(S)  BY <2>1
  <2>. QED  BY <2>2, <2>3, <2>4
<1>4. /\ a \o b \in Seq(S)
      /\ Len(a \o b) = Len(a) + Len(b)
      /\ \A j \in 1 .. Len(a) + Len(b) :
           (a \o b)[j] = IF j <= Len(a) THEN a[j] ELSE b[j - Len(a)]
  BY <1>2, <1>3, ConcatProperties
<1>5. \A j \in 1 .. Len(s) - 1 : (a \o b)[j] = IF j < i THEN s[j] ELSE s[j + 1]
  <2>. SUFFICES ASSUME NEW j \in 1 .. Len(s) - 1
                PROVE  (a \o b)[j] = IF j < i THEN s[j] ELSE s[j + 1]
    OBVIOUS
  <2>1. /\ j \in 1 .. Len(a) + Len(b) /\ (j <= Len(a) <=> j < i)
        /\ j - Len(a) = j - i + 1
    BY <1>1, <1>2, <1>3
  <2>2. (a \o b)[j] = IF j < i THEN a[j] ELSE b[j - i + 1]  BY <1>4, <2>1
  <2>3. CASE j < i
    <3>1. j \in 1 .. i - 1  BY <1>1, <2>3
    <3>. QED  BY <2>2, <2>3, <3>1, <1>2
  <2>4. CASE ~ j < i
    <3>1. j - i + 1 \in 1 .. Len(s) - i /\ i + (j - i + 1) = j + 1  BY <1>1, <2>4
    <3>2. b[j - i + 1] = s[j + 1]  BY <1>3, <3>1
    <3>. QED  BY <2>2, <2>4, <3>2
  <2>. QED  BY <2>3, <2>4
<1>6. RemoveAt(s, i) = a \o b  BY DEF RemoveAt, a, b
<1>7. Len(a \o b) = Len(s) - 1  BY <1>1, <1>2, <1>3, <1>4
<1>. QED  BY <1>4, <1>5, <1>6, <1>7

\* A table whose entries have connections of their own.
Owned(s) ==
  /\ \A i \in 1 .. Len(s) : s[i].clnt \in Conns
  /\ \A i, j \in 1 .. Len(s) : s[i].clnt = s[j].clnt => i = j

LEMMA RemoveAtOwned ==
  ASSUME NEW S, NEW s \in Seq(S), Owned(s), NEW i \in 1 .. Len(s)
  PROVE  /\ Owned(RemoveAt(s, i))
         /\ ClientsOf(RemoveAt(s, i)) = ClientsOf(s) \ {s[i].clnt}
<1>. DEFINE r == RemoveAt(s, i)
<1>. HIDE DEF r
<1>1. Len(s) \in Nat /\ DOMAIN s = 1 .. Len(s)  BY LenProperties
<1>2. /\ r \in Seq(S) /\ Len(r) = Len(s) - 1
      /\ \A j \in 1 .. Len(s) - 1 : r[j] = IF j < i THEN s[j] ELSE s[j + 1]
  BY RemoveAtFacts DEF r
<1>3. DOMAIN r = 1 .. Len(s) - 1  BY <1>2, LenProperties
<1>. DEFINE from(j) == IF j < i THEN j ELSE j + 1
<1>4. ASSUME NEW j \in 1 .. Len(s) - 1
      PROVE  from(j) \in 1 .. Len(s) /\ from(j) # i /\ r[j] = s[from(j)]
  BY <1>1, <1>2
<1>5. ASSUME NEW j \in 1 .. Len(s) - 1, NEW k \in 1 .. Len(s) - 1, from(j) = from(k)
      PROVE  j = k
  BY <1>1, <1>5
<1>6. ASSUME NEW k \in 1 .. Len(s), k # i
      PROVE  \E j \in 1 .. Len(s) - 1 : from(j) = k
  <2>1. CASE k < i
    <3>1. k \in 1 .. Len(s) - 1 /\ from(k) = k  BY <1>1, <2>1
    <3>. QED  BY <3>1
  <2>2. CASE ~ k < i
    <3>1. k - 1 \in 1 .. Len(s) - 1 /\ from(k - 1) = k  BY <1>1, <1>6, <2>2
    <3>. QED  BY <3>1
  <2>. QED  BY <2>1, <2>2
<1>. HIDE DEF from
<1>7. Owned(r)
  <2>1. \A j \in 1 .. Len(s) - 1 : r[j].clnt \in Conns  BY <1>4 DEF Owned
  <2>2. ASSUME NEW j \in 1 .. Len(s) - 1, NEW k \in 1 .. Len(s) - 1, r[j].clnt = r[k].clnt
        PROVE  j = k
    <3>1. s[from(j)].clnt = s[from(k)].clnt  BY <1>4, <2>2
    <3>2. from(j) = from(k)  BY <1>4, <3>1 DEF Owned
    <3>. QED  BY <1>5, <3>2
  <2>. QED  BY <1>2, <2>1, <2>2 DEF Owned
<1>8. ClientsOf(r) \subseteq ClientsOf(s) \ {s[i].clnt}
  <2>. SUFFICES ASSUME NEW j \in 1 .. Len(s) - 1, r[j].clnt # NULL
                PROVE  r[j].clnt \in ClientsOf(s) \ {s[i].clnt}
    BY <1>3 DEF ClientsOf
  <2>1. r[j].clnt = s[from(j)].clnt /\ from(j) \in 1 .. Len(s) /\ from(j) # i  BY <1>4
  <2>2. r[j].clnt # s[i].clnt  BY <2>1 DEF Owned
  <2>. QED  BY <1>1, <2>1, <2>2 DEF ClientsOf
<1>9. ClientsOf(s) \ {s[i].clnt} \subseteq ClientsOf(r)
  <2>. SUFFICES ASSUME NEW k \in 1 .. Len(s), s[k].clnt # NULL, s[k].clnt # s[i].clnt
                PROVE  s[k].clnt \in ClientsOf(r)
    BY <1>1 DEF ClientsOf
  <2>1. PICK j \in 1 .. Len(s) - 1 : from(j) = k  BY <1>6
  <2>2. r[j].clnt = s[k].clnt  BY <1>4, <2>1
  <2>. QED  BY <1>3, <2>2 DEF ClientsOf
<1>. QED  BY <1>7, <1>8, <1>9 DEF r

\* The doubles of a peer go from the last to the first; what is left is part of the table.
LEMMA WithoutDoublesFacts ==
  ASSUME NEW S, NEW s \in Seq(S), Owned(s), NEW c
  PROVE  LET r == WithoutDoubles(s, c)
         IN  /\ r \in Seq(S) /\ Len(r) <= Len(s) /\ Owned(r)
             /\ ClientsOf(r) \subseteq ClientsOf(s)
<1>. DEFINE N == Len(s)
            goes(n) == peer[s[N - n + 1].clnt] = peer[c]
            step(v, n) == IF goes(n) THEN RemoveAt(v, N - n + 1) ELSE v
            next(v, n) == IF n = 0 THEN s ELSE step(v, n)
            good(v, n) == /\ v \in Seq(S) /\ Len(v) <= N /\ N - n <= Len(v)
                          /\ Owned(v) /\ ClientsOf(v) \subseteq ClientsOf(s)
<1>1. N \in Nat  BY LenProperties
<1>. HIDE DEF N, goes, step, next, good
<1>2. \E g : g = [n \in 0 .. N |-> next(g[n - 1], n)]
  <2>. DEFINE T == {m \in Nat : \E g : g = [n \in 0 .. m |-> next(g[n - 1], n)]}
  <2>1. 0 \in T
    <3>. DEFINE g == [n \in 0 .. 0 |-> s]
    <3>1. g = [n \in 0 .. 0 |-> next(g[n - 1], n)]  BY DEF next
    <3>. QED  BY <3>1
  <2>2. ASSUME NEW m \in Nat, m \in T PROVE m + 1 \in T
    <3>1. PICK g : g = [n \in 0 .. m |-> next(g[n - 1], n)]  BY <2>2
    <3>. DEFINE h == [n \in 0 .. m + 1 |-> IF n = m + 1 THEN next(g[m], n) ELSE g[n]]
    <3>2. ASSUME NEW n \in 0 .. m + 1 PROVE h[n] = next(h[n - 1], n)
      <4>1. CASE n = m + 1
        <5>1. m \in 0 .. m + 1 /\ m # m + 1 /\ n - 1 = m  BY <4>1
        <5>2. h[n - 1] = g[m]  BY <5>1
        <5>. QED  BY <4>1, <5>2
      <4>2. CASE n # m + 1 /\ n # 0
        <5>1. /\ n \in 0 .. m /\ n - 1 \in 0 .. m + 1 /\ n - 1 # m + 1  BY <4>2
        <5>2. h[n] = g[n] /\ h[n - 1] = g[n - 1]  BY <4>2, <5>1
        <5>3. g[n] = next(g[n - 1], n)  BY <3>1, <5>1
        <5>. QED  BY <5>2, <5>3
      <4>3. CASE n # m + 1 /\ n = 0
        <5>1. n \in 0 .. m  BY <4>3
        <5>2. h[n] = g[n] /\ g[n] = next(g[n - 1], n)  BY <3>1, <4>3, <5>1
        <5>. QED  BY <4>3, <5>2 DEF next
      <4>. QED  BY <4>1, <4>2, <4>3
    <3>3. h = [n \in 0 .. m + 1 |-> next(h[n - 1], n)]
      <4>1. h = [n \in 0 .. m + 1 |-> h[n]]  OBVIOUS
      <4>. HIDE DEF h
      <4>. QED  BY <3>2, <4>1
    <3>. HIDE DEF h
    <3>4. \E f : f = [n \in 0 .. m + 1 |-> next(f[n - 1], n)]  BY <3>3
    <3>5. m + 1 \in Nat  OBVIOUS
    <3>. QED  BY Zenon, <3>4, <3>5
  <2>. HIDE DEF T
  <2>3. N \in T  BY <1>1, <2>1, <2>2, Induction
  <2>. QED  BY <2>3 DEF T
<1>. DEFINE kept == CHOOSE g : g = [n \in 0 .. N |-> next(g[n - 1], n)]
<1>3. kept = [n \in 0 .. N |-> next(kept[n - 1], n)]  BY <1>2
<1>4. WithoutDoubles(s, c) = kept[N]
  BY DEF WithoutDoubles, kept, next, step, goes, N
<1>. HIDE DEF kept
<1>5. ASSUME NEW n \in 0 .. N PROVE good(kept[n], n)
  <2>. DEFINE T == {m \in Nat : m <= N => good(kept[m], m)}
  <2>1. 0 \in T
    <3>1. kept[0] = s  BY <1>1, <1>3 DEF next
    <3>. QED  BY <1>1, <3>1 DEF good, N
  <2>2. ASSUME NEW m \in Nat, m \in T PROVE m + 1 \in T
    <3>. SUFFICES ASSUME m + 1 <= N PROVE good(kept[m + 1], m + 1)  OBVIOUS
    <3>. DEFINE v == kept[m]  i == N - (m + 1) + 1
    <3>1. good(v, m)  BY <1>1, <2>2
    <3>2. m + 1 \in 0 .. N /\ m + 1 # 0 /\ (m + 1) - 1 = m  BY <1>1
    <3>3. kept[m + 1] = step(v, m + 1)
      <4>1. kept[m + 1] = next(kept[(m + 1) - 1], m + 1)  BY <1>3, <3>2
      <4>. QED  BY <4>1, <3>2 DEF next
    <3>. HIDE DEF v
    <3>4. v \in Seq(S) /\ Owned(v) /\ Len(v) \in Nat /\ Len(v) <= N /\ N - m <= Len(v)
          /\ ClientsOf(v) \subseteq ClientsOf(s)
      BY <3>1, LenProperties DEF good
    <3>5. i \in 1 .. Len(v)  BY <1>1, <3>4
    <3>6. CASE goes(m + 1)
      <4>. DEFINE r == RemoveAt(v, i)
      <4>1. kept[m + 1] = r  BY <3>3, <3>6 DEF step
      <4>. HIDE DEF i
      <4>2. r \in Seq(S) /\ Len(r) = Len(v) - 1  BY <3>4, <3>5, RemoveAtFacts
      <4>3. Owned(r) /\ ClientsOf(r) \subseteq ClientsOf(v)  BY <3>4, <3>5, RemoveAtOwned
      <4>. HIDE DEF r
      <4>4. Len(r) <= N /\ N - (m + 1) <= Len(r)  BY <1>1, <3>4, <4>2
      <4>. QED  BY <3>4, <4>1, <4>2, <4>3, <4>4 DEF good
    <3>7. CASE ~ goes(m + 1)
      <4>1. kept[m + 1] = v  BY <3>3, <3>7 DEF step
      <4>2. N - (m + 1) <= Len(v)  BY <1>1, <3>4
      <4>. QED  BY <3>4, <4>1, <4>2 DEF good
    <3>. QED  BY <3>6, <3>7
  <2>. HIDE DEF T
  <2>3. n \in T  BY <2>1, <2>2, Induction
  <2>. QED  BY <2>3 DEF T
<1>6. good(kept[N], N)  BY <1>1, <1>5
<1>. QED  BY <1>4, <1>6 DEF good, N

LEMMA FrontFacts ==
  ASSUME NEW S, NEW s \in Seq(S), s # <<>>
  PROVE  /\ Len(s) \in Nat \ {0} /\ Front(s) = RemoveAt(s, Len(s))
         /\ Front(s) \in Seq(S) /\ Len(Front(s)) = Len(s) - 1
         /\ \A j \in 1 .. Len(s) - 1 : Front(s)[j] = s[j]
<1>1. Len(s) \in Nat \ {0}  BY LenProperties, EmptySeq
<1>2. /\ Front(s) \in Seq(S) /\ Len(Front(s)) = Len(s) - 1
      /\ \A j \in 1 .. Len(s) - 1 : Front(s)[j] = s[j]
  <2>. DEFINE n == Len(s) - 1
  <2>1. n \in Int /\ 1 \in Int /\ n >= 0 /\ \A j \in 1 .. n : s[j] \in S  BY <1>1
  <2>. HIDE DEF n
  <2>2. /\ SubSeq(s, 1, n) \in Seq(S)
        /\ Len(SubSeq(s, 1, n)) = IF 1 <= n THEN n - 1 + 1 ELSE 0
        /\ \A j \in 1 .. n - 1 + 1 : SubSeq(s, 1, n)[j] = s[1 + j - 1]
    BY <2>1, SubSeqProperties
  <2>3. n - 1 + 1 = n /\ (IF 1 <= n THEN n - 1 + 1 ELSE 0) = n  BY <2>1
  <2>4. \A j \in 1 .. n : 1 + j - 1 = j  BY <2>1
  <2>5. Front(s) = SubSeq(s, 1, n)  BY DEF Front, n
  <2>6. Front(s) \in Seq(S) /\ Len(Front(s)) = n  BY <2>2, <2>3, <2>5
  <2>7. \A j \in 1 .. n : Front(s)[j] = s[j]  BY <2>2, <2>3, <2>4, <2>5
  <2>. QED  BY <2>6, <2>7 DEF n
<1>. DEFINE r == RemoveAt(s, Len(s))
<1>3. /\ r \in Seq(S) /\ Len(r) = Len(s) - 1
      /\ \A j \in 1 .. Len(s) - 1 : r[j] = IF j < Len(s) THEN s[j] ELSE s[j + 1]
  BY <1>1, RemoveAtFacts
<1>. HIDE DEF r
<1>4. \A j \in 1 .. Len(s) - 1 : r[j] = s[j]  BY <1>1, <1>3
<1>5. Front(s) = r  BY <1>2, <1>3, <1>4, SeqEqual
<1>. QED  BY <1>1, <1>2, <1>5 DEF r

LEMMA TailFacts ==
  ASSUME NEW S, NEW s \in Seq(S), s # <<>>
  PROVE  /\ Len(s) \in Nat \ {0} /\ Tail(s) = RemoveAt(s, 1)
         /\ Tail(s) \in Seq(S) /\ Len(Tail(s)) = Len(s) - 1
         /\ \A j \in 1 .. Len(s) - 1 : Tail(s)[j] = s[j + 1]
<1>1. Len(s) \in Nat \ {0}  BY LenProperties, EmptySeq
<1>2. /\ Tail(s) \in Seq(S) /\ Len(Tail(s)) = Len(s) - 1
      /\ \A j \in 1 .. Len(s) - 1 : Tail(s)[j] = s[j + 1]
  BY <1>1, HeadTailProperties
<1>. DEFINE r == RemoveAt(s, 1)
<1>3. /\ r \in Seq(S) /\ Len(r) = Len(s) - 1
      /\ \A j \in 1 .. Len(s) - 1 : r[j] = IF j < 1 THEN s[j] ELSE s[j + 1]
  BY <1>1, RemoveAtFacts
<1>. HIDE DEF r
<1>4. \A j \in 1 .. Len(s) - 1 : r[j] = s[j + 1]  BY <1>1, <1>3
<1>5. Tail(s) = r  BY <1>2, <1>3, <1>4, SeqEqual
<1>. QED  BY <1>1, <1>2, <1>5 DEF r

\* An entry is put in front of a table.
LEMMA PrependFacts ==
  ASSUME NEW S, NEW s \in Seq(S), NEW e \in S
  PROVE  /\ <<e>> \o s \in Seq(S) /\ Len(<<e>> \o s) = Len(s) + 1
         /\ \A j \in 1 .. Len(s) + 1 : (<<e>> \o s)[j] = IF j = 1 THEN e ELSE s[j - 1]
<1>1. <<e>> \in Seq(S) /\ Len(<<e>>) = 1 /\ <<e>>[1] = e  OBVIOUS
<1>2. Len(s) \in Nat  BY LenProperties
<1>. DEFINE r == <<e>> \o s
<1>3. /\ r \in Seq(S) /\ Len(r) = Len(<<e>>) + Len(s)
      /\ \A j \in 1 .. Len(<<e>>) + Len(s) :
           r[j] = IF j <= Len(<<e>>) THEN <<e>>[j] ELSE s[j - Len(<<e>>)]
  BY <1>1, ConcatProperties
<1>. HIDE DEF r
<1>4. Len(r) = Len(s) + 1  BY <1>1, <1>2, <1>3
<1>5. ASSUME NEW j \in 1 .. Len(s) + 1 PROVE r[j] = IF j = 1 THEN e ELSE s[j - 1]
  <2>1. j \in 1 .. Len(<<e>>) + Len(s)  BY <1>1, <1>2
  <2>2. r[j] = IF j <= 1 THEN <<e>>[j] ELSE s[j - 1]  BY <1>1, <1>3, <2>1
  <2>3. j <= 1 <=> j = 1  BY <1>2
  <2>. QED  BY <1>1, <2>2, <2>3
<1>. QED  BY <1>3, <1>4, <1>5 DEF r

LEMMA PrependOwned ==
  ASSUME NEW S, NEW s \in Seq(S), NEW e \in S, Owned(s),
         e.clnt \in Conns, e.clnt \notin ClientsOf(s)
  PROVE  /\ Owned(<<e>> \o s)
         /\ ClientsOf(<<e>> \o s) = ClientsOf(s) \cup {e.clnt}
<1>. DEFINE r == <<e>> \o s
<1>1. Len(s) \in Nat /\ DOMAIN s = 1 .. Len(s) /\ NULL \notin Conns
  BY LenProperties, WebServerAssumption
<1>2. /\ r \in Seq(S) /\ Len(r) = Len(s) + 1
      /\ \A j \in 1 .. Len(s) + 1 : r[j] = IF j = 1 THEN e ELSE s[j - 1]
  BY PrependFacts
<1>3. DOMAIN r = 1 .. Len(s) + 1  BY <1>2, LenProperties
<1>. HIDE DEF r
<1>4. 1 \in 1 .. Len(s) + 1 /\ r[1] = e  BY <1>1, <1>2
<1>5. ASSUME NEW j \in 1 .. Len(s) + 1, j # 1
      PROVE  j - 1 \in 1 .. Len(s) /\ r[j] = s[j - 1] /\ s[j - 1].clnt \in ClientsOf(s)
  <2>1. j - 1 \in 1 .. Len(s) /\ r[j] = s[j - 1]  BY <1>1, <1>2, <1>5
  <2>2. s[j - 1].clnt # NULL  BY <1>1, <2>1 DEF Owned
  <2>. QED  BY <1>1, <2>1, <2>2 DEF ClientsOf
<1>6. ASSUME NEW k \in 1 .. Len(s)
      PROVE  k + 1 \in 1 .. Len(s) + 1 /\ r[k + 1] = s[k]
  <2>1. k + 1 \in 1 .. Len(s) + 1 /\ k + 1 # 1 /\ (k + 1) - 1 = k  BY <1>1
  <2>. QED  BY <1>5, <2>1
<1>7. Owned(r)
  <2>1. \A j \in 1 .. Len(s) + 1 : r[j].clnt \in Conns  BY <1>4, <1>5 DEF Owned
  <2>2. ASSUME NEW j \in 1 .. Len(s) + 1, NEW k \in 1 .. Len(s) + 1, r[j].clnt = r[k].clnt
        PROVE  j = k
    <3>1. CASE j = 1 \/ k = 1  BY <1>4, <1>5, <2>2, <3>1
    <3>2. CASE j # 1 /\ k # 1
      <4>1. s[j - 1].clnt = s[k - 1].clnt /\ j - 1 \in 1 .. Len(s) /\ k - 1 \in 1 .. Len(s)
        BY <1>5, <2>2, <3>2
      <4>2. j - 1 = k - 1  BY <4>1 DEF Owned
      <4>. QED  BY <1>1, <4>2
    <3>. QED  BY <3>1, <3>2
  <2>. QED  BY <1>2, <2>1, <2>2 DEF Owned
<1>8. ClientsOf(r) \subseteq ClientsOf(s) \cup {e.clnt}
  <2>. SUFFICES ASSUME NEW j \in 1 .. Len(s) + 1 PROVE r[j].clnt \in ClientsOf(s) \cup {e.clnt}
    BY <1>3 DEF ClientsOf
  <2>. QED  BY <1>4, <1>5
<1>9. ClientsOf(s) \cup {e.clnt} \subseteq ClientsOf(r)
  <2>1. e.clnt \in ClientsOf(r)  BY <1>1, <1>3, <1>4 DEF ClientsOf
  <2>2. ASSUME NEW k \in 1 .. Len(s), s[k].clnt # NULL PROVE s[k].clnt \in ClientsOf(r)
    BY <1>3, <1>6, <2>2 DEF ClientsOf
  <2>. QED  BY <1>1, <2>1, <2>2 DEF ClientsOf
<1>. QED  BY <1>7, <1>8, <1>9 DEF r

\* An entry is put behind a table.
LEMMA AppendOwned ==
  ASSUME NEW S, NEW s \in Seq(S), NEW e \in S, Owned(s),
         e.clnt \in Conns, e.clnt \notin ClientsOf(s)
  PROVE  /\ Owned(Append(s, e))
         /\ ClientsOf(Append(s, e)) = ClientsOf(s) \cup {e.clnt}
<1>. DEFINE r == Append(s, e)
<1>1. Len(s) \in Nat /\ DOMAIN s = 1 .. Len(s) /\ NULL \notin Conns
  BY LenProperties, WebServerAssumption
<1>2. /\ r \in Seq(S) /\ Len(r) = Len(s) + 1 /\ r[Len(s) + 1] = e
      /\ \A j \in 1 .. Len(s) : r[j] = s[j]
  BY AppendProperties
<1>3. DOMAIN r = 1 .. Len(s) + 1  BY <1>2, LenProperties
<1>. HIDE DEF r
<1>4. \A j \in 1 .. Len(s) + 1 : j = Len(s) + 1 \/ j \in 1 .. Len(s)  BY <1>1
<1>5. 1 .. Len(s) \subseteq 1 .. Len(s) + 1 /\ Len(s) + 1 \in 1 .. Len(s) + 1  BY <1>1
<1>6. \A j \in 1 .. Len(s) : s[j].clnt \in ClientsOf(s)  BY <1>1 DEF ClientsOf, Owned
<1>7. Owned(r)
  <2>1. \A j \in 1 .. Len(s) + 1 : r[j].clnt \in Conns  BY <1>2, <1>4 DEF Owned
  <2>2. ASSUME NEW j \in 1 .. Len(s) + 1, NEW k \in 1 .. Len(s) + 1, r[j].clnt = r[k].clnt
        PROVE  j = k
    <3>1. CASE j = Len(s) + 1 \/ k = Len(s) + 1  BY <1>2, <1>4, <1>6, <2>2, <3>1
    <3>2. CASE j \in 1 .. Len(s) /\ k \in 1 .. Len(s)  BY <1>2, <2>2, <3>2 DEF Owned
    <3>. QED  BY <1>4, <3>1, <3>2
  <2>. QED  BY <1>2, <2>1, <2>2 DEF Owned
<1>8. ClientsOf(r) = ClientsOf(s) \cup {e.clnt}
  <2>1. ClientsOf(r) \subseteq ClientsOf(s) \cup {e.clnt}
    BY <1>2, <1>3, <1>4, <1>6 DEF ClientsOf
  <2>2. ClientsOf(s) \subseteq ClientsOf(r)  BY <1>1, <1>2, <1>3, <1>5 DEF ClientsOf
  <2>3. e.clnt \in ClientsOf(r)  BY <1>1, <1>2, <1>3, <1>5 DEF ClientsOf
  <2>. QED  BY <2>1, <2>2, <2>3
<1>. QED  BY <1>7, <1>8 DEF r

\* A change of an entry that leaves it its connection.
LEMMA SameClients ==
  ASSUME NEW S, NEW s \in Seq(S), NEW T, NEW r \in Seq(T), Len(r) = Len(s),
         \A j \in 1 .. Len(s) : r[j].clnt = s[j].clnt
  PROVE  ClientsOf(r) = ClientsOf(s) /\ (Owned(s) => Owned(r))
<1>1. DOMAIN s = 1 .. Len(s) /\ DOMAIN r = 1 .. Len(s)  BY LenProperties
<1>. QED  BY <1>1 DEF ClientsOf, Owned
----------------------------------------------------------------------------
(* The parts of the inductive invariant.                                    *)

CtlOK ==
  /\ run \in 0 .. 4 /\ mode \in {"none", "loop", "callback"}
  /\ pc \in {"off", "open", "loop", "recv", "tail", "ws", "wsrecv", "end", "exit", "leave"}
  /\ cut \in BOOLEAN /\ wild \in BOOLEAN /\ saved \in 0 .. 2
  /\ pc = "wsrecv" => saved \in {1, 2}

NetOK ==
  /\ peer \in [Conns -> Peers \cup {Listening, NULL}] /\ nc \in Conns \cup {NULL}
  /\ lost \subseteq Conns

StackOK == stack \in Seq(Conns \cup {NULL})

\* The type of a node is "ws" only while it is being deleted; the newest has no script yet.
NodesOK ==
  /\ nodes \in Seq(NodeType) /\ Len(nodes) <= NcMax
  /\ \A j \in 1 .. Len(nodes) : nodes[j].type # "ws"
  /\ pc = "recv" => nodes # <<>> /\ nodes[Len(nodes)].level = 0

WsOK == ws \in Seq(SocketType) /\ Len(ws) <= WsMax

PollOK ==
  /\ poll \in 0 .. WsMax + 1
  /\ pc \in {"ws", "wsrecv"} => poll >= 1
  /\ pc = "wsrecv" => poll <= Len(ws)

\* A websocket that has reached the age at which it is closed is the one that is polled,
\* or the server no longer runs and will close them all.
AgeOK ==
  \A j \in 1 .. Len(ws) : ws[j].age = MaxAge =>
    \/ pc = "ws" /\ ~ Running /\ j < poll
    \/ pc \in {"end", "loop", "exit"} /\ ~ Running
    \/ pc = "wsrecv" /\ j = poll

\* Each open connection is in one place, and each place names open connections.
Shared(a, b, c, d, all) ==
  /\ all = a \cup b \cup c \cup d
  /\ a \cap b = {} /\ a \cap c = {} /\ a \cap d = {}
  /\ b \cap c = {} /\ b \cap d = {} /\ c \cap d = {}

Listener == {nc} \ {NULL}

OwnOK ==
  /\ Owned(nodes) /\ Owned(ws)
  /\ Shared(Listener, ClientsOf(nodes), ClientsOf(ws), lost, Open)

Inv == CtlOK /\ NetOK /\ StackOK /\ NodesOK /\ WsOK /\ PollOK /\ AgeOK /\ OwnOK

----------------------------------------------------------------------------
\* The control variables.
LEMMA CtlStep ==
  ASSUME CtlOK, [Next]_vars
  PROVE  CtlOK'
<1>1. CASE StartLoop
  BY <1>1 DEF StartLoop, At, Goto, Running, After, Outcomes, KeepNet, KeepWs, KeepScripts,
    KeepRest, CloseSockets, Serving, Polled, CtlOK
<1>2. CASE AddCallback
  BY <1>2 DEF AddCallback, At, Goto, Running, After, Outcomes, KeepNet, KeepWs,
    KeepScripts, KeepRest, CloseSockets, Serving, Polled, CtlOK
<1>3. CASE Called
  BY <1>3 DEF Called, At, Goto, Running, After, Outcomes, KeepNet, KeepWs, KeepScripts,
    KeepRest, CloseSockets, Serving, Polled, CtlOK
<1>4. CASE Stop
  BY <1>4 DEF Stop, At, Goto, Running, After, Outcomes, KeepNet, KeepWs, KeepScripts,
    KeepRest, CloseSockets, Serving, Polled, CtlOK
<1>5. ASSUME NEW p \in Peers, Accept(p) PROVE CtlOK'
  BY <1>5 DEF Accept, At, Goto, Running, After, Outcomes, KeepNet, KeepWs, KeepScripts,
    KeepRest, CloseSockets, Serving, Polled, CtlOK
<1>6. CASE Listen
  BY <1>6 DEF Listen, At, Goto, Running, After, Outcomes, KeepNet, KeepWs, KeepScripts,
    KeepRest, CloseSockets, Serving, Polled, CtlOK
<1>7. CASE ListenDown
  BY <1>7 DEF ListenDown, At, Goto, Running, After, Outcomes, KeepNet, KeepWs,
    KeepScripts, KeepRest, CloseSockets, Serving, Polled, CtlOK
<1>8. CASE LeaveLoop
  BY <1>8 DEF LeaveLoop, At, Goto, Running, After, Outcomes, KeepNet, KeepWs, KeepScripts,
    KeepRest, CloseSockets, Serving, Polled, CtlOK
<1>9. CASE AcceptNone
  BY <1>9 DEF AcceptNone, At, Goto, Running, After, Outcomes, KeepNet, KeepWs,
    KeepScripts, KeepRest, CloseSockets, Serving, Polled, CtlOK
<1>10. CASE LoopEnd
  BY <1>10 DEF LoopEnd, At, Goto, Running, After, Outcomes, KeepNet, KeepWs, KeepScripts,
    KeepRest, CloseSockets, Serving, Polled, CtlOK
<1>11. CASE Exit
  BY <1>11 DEF Exit, At, Goto, Running, After, Outcomes, KeepNet, KeepWs, KeepScripts,
    KeepRest, CloseSockets, Serving, Polled, CtlOK
<1>12. CASE Leave
  BY <1>12 DEF Leave, At, Goto, Running, After, Outcomes, KeepNet, KeepWs, KeepScripts,
    KeepRest, CloseSockets, Serving, Polled, CtlOK
<1>13. CASE ReceiveFails
  BY <1>13 DEF ReceiveFails, At, Goto, Running, After, Outcomes, KeepNet, KeepWs,
    KeepScripts, KeepRest, CloseSockets, Serving, Polled, CtlOK
<1>14. CASE ReceiveStopped
  BY <1>14 DEF ReceiveStopped, At, Goto, Running, After, Outcomes, KeepNet, KeepWs,
    KeepScripts, KeepRest, CloseSockets, Serving, Polled, CtlOK
<1>15. CASE ReceiveOther
  BY <1>15 DEF ReceiveOther, At, Goto, Running, After, Outcomes, KeepNet, KeepWs,
    KeepScripts, KeepRest, CloseSockets, Serving, Polled, CtlOK
<1>16. CASE RefuseWebsocket
  BY <1>16 DEF RefuseWebsocket, UseFreedNode, At, Goto, Running, After, Outcomes, KeepNet, KeepWs,
    KeepScripts, KeepRest, CloseSockets, Serving, Polled, CtlOK
<1>17. CASE Wild
  BY <1>17 DEF Wild, At, Goto, Running, After, Outcomes, KeepNet, KeepWs, KeepScripts,
    KeepRest, CloseSockets, Serving, Polled, CtlOK
<1>18. ASSUME NEW dev \in BOOLEAN, NEW found \in BOOLEAN, AddWebsocket(dev, found) PROVE CtlOK'
  BY <1>18 DEF AddWebsocket, UseFreedNode, At, Goto, Running, After, Outcomes, KeepNet, KeepWs,
    KeepScripts, KeepRest, CloseSockets, Serving, Polled, CtlOK
<1>19. ASSUME NEW loads \in BOOLEAN, NEW left \in 0 .. MaxPieces, GetScript(loads, left) PROVE CtlOK'
  BY <1>19 DEF GetScript, At, Goto, Running, After, Outcomes, KeepNet, KeepWs,
    KeepScripts, KeepRest, CloseSockets, Serving, Polled, CtlOK
<1>20. ASSUME NEW found \in BOOLEAN, NEW left \in 0 .. MaxPieces, GetFile(found, left) PROVE CtlOK'
  BY <1>20 DEF GetFile, At, Goto, Running, After, Outcomes, KeepNet, KeepWs, KeepScripts,
    KeepRest, CloseSockets, Serving, Polled, CtlOK
<1>21. CASE DropFirst
  BY <1>21 DEF DropFirst, At, Goto, Running, After, Outcomes, KeepNet, KeepWs,
    KeepScripts, KeepRest, CloseSockets, Serving, Polled, CtlOK
<1>22. CASE ServePiece
  BY <1>22 DEF ServePiece, At, Goto, Running, After, Outcomes, KeepNet, KeepWs,
    KeepScripts, KeepRest, CloseSockets, Serving, Polled, CtlOK
<1>23. CASE EndFirst
  BY <1>23 DEF EndFirst, At, Goto, Running, After, Outcomes, KeepNet, KeepWs, KeepScripts,
    KeepRest, CloseSockets, Serving, Polled, CtlOK
<1>24. CASE PollStart
  BY <1>24 DEF PollStart, At, Goto, Running, After, Outcomes, KeepNet, KeepWs,
    KeepScripts, KeepRest, CloseSockets, Serving, Polled, CtlOK
<1>25. CASE PollEnd
  BY <1>25 DEF PollEnd, At, Goto, Running, After, Outcomes, KeepNet, KeepWs, KeepScripts,
    KeepRest, CloseSockets, Serving, Polled, CtlOK
<1>26. CASE Poll
  BY <1>26 DEF Poll, At, Goto, Running, After, Outcomes, KeepNet, KeepWs, KeepScripts,
    KeepRest, CloseSockets, Serving, Polled, CtlOK
<1>27. CASE PollQuiet
  BY <1>27 DEF PollQuiet, At, Goto, Running, After, Outcomes, KeepNet, KeepWs,
    KeepScripts, KeepRest, CloseSockets, Serving, Polled, CtlOK
<1>28. CASE PollAborted
  BY <1>28 DEF PollAborted, At, Goto, Running, After, Outcomes, KeepNet, KeepWs,
    KeepScripts, KeepRest, CloseSockets, Serving, Polled, CtlOK
<1>29. CASE PollBroken
  BY <1>29 DEF PollBroken, At, Goto, Running, After, Outcomes, KeepNet, KeepWs,
    KeepScripts, KeepRest, CloseSockets, Serving, Polled, CtlOK
<1>30. ASSUME NEW j \in 1 .. WsMax + 1, PollMessage(j) PROVE CtlOK'
  BY <1>30 DEF PollMessage, At, Goto, Running, After, Outcomes, KeepNet, KeepWs,
    KeepScripts, KeepRest, CloseSockets, Serving, Polled, CtlOK
<1>31. CASE UNCHANGED vars
  BY <1>31 DEF vars, At, Goto, Running, After, Outcomes, KeepNet, KeepWs, KeepScripts,
    KeepRest, CloseSockets, Serving, Polled, CtlOK
<1>. QED
  BY <1>1, <1>2, <1>3, <1>4, <1>5, <1>6, <1>7, <1>8, <1>9, <1>10, <1>11, <1>12, <1>13,
    <1>14, <1>15, <1>16, <1>17, <1>18, <1>19, <1>20, <1>21, <1>22, <1>23, <1>24, <1>25,
    <1>26, <1>27, <1>28, <1>29, <1>30, <1>31 DEF Next, Task, Request, Serve, Websockets

\* The conn that is taken is free; closing conns closes those and no other.
LEMMA FreshIsFree == NetOK /\ Open # Conns => Fresh \in Conns \ Open
BY DEF Open, Fresh

LEMMA CloseFacts ==
  ASSUME NEW cs, NetOK
  PROVE  /\ Close(cs) \in [Conns -> Peers \cup {Listening, NULL}]
         /\ {c \in Conns : Close(cs)[c] # NULL} = Open \ cs
BY DEF NetOK, Close, Open

\* The network.
LEMMA NetStep ==
  ASSUME NetOK, NodesOK, OwnOK, [Next]_vars
  PROVE  NetOK'
<1>1. CASE StartLoop
  BY <1>1 DEF StartLoop, Goto, KeepNet, KeepWs, KeepScripts, KeepRest, CloseSockets, NetOK
<1>2. CASE AddCallback
  BY <1>2 DEF AddCallback, Goto, KeepNet, KeepWs, KeepScripts, KeepRest, CloseSockets,
    NetOK
<1>3. CASE Called
  BY <1>3 DEF Called, Goto, KeepNet, KeepWs, KeepScripts, KeepRest, CloseSockets, NetOK
<1>4. CASE Stop
  BY <1>4 DEF Stop, Goto, KeepNet, KeepWs, KeepScripts, KeepRest, CloseSockets, NetOK
<1>5. ASSUME NEW p \in Peers, Accept(p) PROVE NetOK'
  BY <1>5, FreshIsFree DEF Accept, Goto, KeepNet, KeepWs, KeepScripts, KeepRest, CloseSockets, NetOK
<1>6. CASE Listen
  BY <1>6, FreshIsFree DEF Listen, Goto, KeepNet, KeepWs, KeepScripts, KeepRest, CloseSockets, NetOK
<1>7. CASE ListenDown
  BY <1>7, CloseFacts DEF ListenDown, Goto, KeepNet, KeepWs, KeepScripts, KeepRest,
    CloseSockets, NetOK
<1>8. CASE LeaveLoop
  BY <1>8 DEF LeaveLoop, Goto, KeepNet, KeepWs, KeepScripts, KeepRest, CloseSockets, NetOK
<1>9. CASE AcceptNone
  BY <1>9 DEF AcceptNone, Goto, KeepNet, KeepWs, KeepScripts, KeepRest, CloseSockets,
    NetOK
<1>10. CASE LoopEnd
  BY <1>10 DEF LoopEnd, Goto, KeepNet, KeepWs, KeepScripts, KeepRest, CloseSockets, NetOK
<1>11. CASE Exit
  <2>1. PICK cs \in MayClose(nodes) :
          peer' = Close(ClientsOf(ws) \cup cs \cup {nc}) /\ lost' = lost \cup Stray(nodes, cs)
    BY <1>11 DEF Exit
  <2>2. Stray(nodes, cs) \subseteq Conns
    BY LenProperties DEF Stray, NodesOK, OwnOK, Owned
  <2>. QED  BY <1>11, <2>1, <2>2, CloseFacts DEF Exit, Goto, KeepNet, KeepWs, KeepScripts, KeepRest, CloseSockets, NetOK
<1>12. CASE Leave
  BY <1>12 DEF Leave, Goto, KeepNet, KeepWs, KeepScripts, KeepRest, CloseSockets, NetOK
<1>13. CASE ReceiveFails
  BY <1>13 DEF ReceiveFails, Goto, KeepNet, KeepWs, KeepScripts, KeepRest, CloseSockets,
    NetOK
<1>14. CASE ReceiveStopped
  BY <1>14 DEF ReceiveStopped, Goto, KeepNet, KeepWs, KeepScripts, KeepRest, CloseSockets,
    NetOK
<1>15. CASE ReceiveOther
  BY <1>15 DEF ReceiveOther, Goto, KeepNet, KeepWs, KeepScripts, KeepRest, CloseSockets,
    NetOK
<1>16. CASE RefuseWebsocket
  BY <1>16, CloseFacts DEF RefuseWebsocket, Goto, KeepNet, KeepWs, KeepScripts, KeepRest,
    CloseSockets, NetOK
<1>17. CASE Wild
  BY <1>17 DEF Wild, Goto, KeepNet, KeepWs, KeepScripts, KeepRest, CloseSockets, NetOK
<1>18. ASSUME NEW dev \in BOOLEAN, NEW found \in BOOLEAN, AddWebsocket(dev, found) PROVE NetOK'
  BY <1>18, CloseFacts DEF AddWebsocket, Goto, KeepNet, KeepWs, KeepScripts, KeepRest,
    CloseSockets, NetOK
<1>19. ASSUME NEW loads \in BOOLEAN, NEW left \in 0 .. MaxPieces, GetScript(loads, left) PROVE NetOK'
  BY <1>19, CloseFacts DEF GetScript, Goto, KeepNet, KeepWs, KeepScripts, KeepRest,
    CloseSockets, NetOK
<1>20. ASSUME NEW found \in BOOLEAN, NEW left \in 0 .. MaxPieces, GetFile(found, left) PROVE NetOK'
  BY <1>20, CloseFacts DEF GetFile, Goto, KeepNet, KeepWs, KeepScripts, KeepRest,
    CloseSockets, NetOK
<1>21. CASE DropFirst
  <2>1. PICK cs \in MayClose(<<First>>) : peer' = Close(cs) /\ lost' = lost \cup Stray(<<First>>, cs)
    BY <1>21 DEF DropFirst
  <2>2. nodes # <<>> /\ Len(nodes) \in Nat \ {0} /\ First.clnt \in Conns
    BY <1>21, EmptySeq, LenProperties DEF DropFirst, Serving, NodesOK, OwnOK, Owned, First
  <2>3. Stray(<<First>>, cs) \subseteq Conns  BY <2>2 DEF Stray
  <2>. QED  BY <1>21, <2>1, <2>3, CloseFacts DEF DropFirst, Goto, KeepNet, KeepWs, KeepScripts, KeepRest, CloseSockets, NetOK
<1>22. CASE ServePiece
  BY <1>22 DEF ServePiece, Goto, KeepNet, KeepWs, KeepScripts, KeepRest, CloseSockets,
    NetOK
<1>23. CASE EndFirst
  BY <1>23 DEF EndFirst, Goto, KeepNet, KeepWs, KeepScripts, KeepRest, CloseSockets, NetOK
<1>24. CASE PollStart
  BY <1>24, CloseFacts DEF PollStart, Goto, KeepNet, KeepWs, KeepScripts, KeepRest, CloseSockets, NetOK
<1>25. CASE PollEnd
  BY <1>25 DEF PollEnd, Goto, KeepNet, KeepWs, KeepScripts, KeepRest, CloseSockets, NetOK
<1>26. CASE Poll
  BY <1>26 DEF Poll, Goto, KeepNet, KeepWs, KeepScripts, KeepRest, CloseSockets, NetOK
<1>27. CASE PollQuiet
  BY <1>27, CloseFacts DEF PollQuiet, Polled, Goto, KeepNet, KeepWs, KeepScripts, KeepRest,
    CloseSockets, NetOK
<1>28. CASE PollAborted
  BY <1>28, CloseFacts DEF PollAborted, Polled, Goto, KeepNet, KeepWs, KeepScripts, KeepRest,
    CloseSockets, NetOK
<1>29. CASE PollBroken
  BY <1>29, CloseFacts DEF PollBroken, Polled, Goto, KeepNet, KeepWs, KeepScripts, KeepRest,
    CloseSockets, NetOK
<1>30. ASSUME NEW j \in 1 .. WsMax + 1, PollMessage(j) PROVE NetOK'
  BY <1>30, CloseFacts DEF PollMessage, Polled, Goto, KeepNet, KeepWs, KeepScripts, KeepRest,
    CloseSockets, NetOK
<1>31. CASE UNCHANGED vars
  BY <1>31 DEF vars, Goto, KeepNet, KeepWs, KeepScripts, KeepRest, CloseSockets, NetOK
<1>. QED
  BY <1>1, <1>2, <1>3, <1>4, <1>5, <1>6, <1>7, <1>8, <1>9, <1>10, <1>11, <1>12, <1>13,
    <1>14, <1>15, <1>16, <1>17, <1>18, <1>19, <1>20, <1>21, <1>22, <1>23, <1>24, <1>25,
    <1>26, <1>27, <1>28, <1>29, <1>30, <1>31 DEF Next, Task, Request, Serve, Websockets

LEMMA FirstFacts ==
  ASSUME NodesOK, OwnOK, nodes # <<>>
  PROVE  /\ Len(nodes) \in Nat \ {0} /\ 1 \in 1 .. Len(nodes) /\ Len(nodes) \in 1 .. Len(nodes)
         /\ DOMAIN nodes = 1 .. Len(nodes)
         /\ First \in NodeType /\ First.clnt \in Conns /\ First.type # "ws"
         /\ First.level \in Nat /\ First.left \in Nat
<1>1. Len(nodes) \in Nat \ {0} /\ DOMAIN nodes = 1 .. Len(nodes)
  BY EmptySeq, LenProperties DEF NodesOK
<1>2. First \in NodeType  BY <1>1, ElementOfSeq DEF NodesOK, First
<1>. QED  BY <1>1, <1>2, WebServerAssumption DEF NodesOK, OwnOK, Owned, First, NodeType

LEMMA NewFacts ==
  ASSUME NodesOK, OwnOK, pc = "recv"
  PROVE  /\ nodes # <<>> /\ Len(nodes) \in Nat \ {0} /\ New = Len(nodes) /\ New \in 1 .. Len(nodes)
         /\ nodes[New] \in NodeType /\ Last(nodes) = nodes[New] /\ nodes[New].clnt \in Conns
         /\ nodes[New].type # "ws" /\ nodes[New].level = 0
<1>1. nodes # <<>> /\ Len(nodes) \in Nat \ {0} /\ New = Len(nodes) /\ nodes \in Seq(NodeType)
  BY EmptySeq DEF NodesOK, New
<1>2. New \in 1 .. Len(nodes)  BY <1>1
<1>3. nodes[New] \in NodeType  BY <1>1, <1>2, ElementOfSeq
<1>. QED  BY <1>1, <1>2, <1>3 DEF NodesOK, OwnOK, Owned, Last, New

\* lua_settop leaves what lies below the new top as it is.
LEMMA SettopFacts ==
  ASSUME NEW s \in Seq(Conns \cup {NULL}), NEW n \in Nat
  PROVE  /\ Settop(s, n) \in Seq(Conns \cup {NULL})
         /\ \A j \in 1 .. Len(s) : j <= n => j <= Len(Settop(s, n)) /\ Settop(s, n)[j] = s[j]
<1>. DEFINE S == Conns \cup {NULL}
<1>. HIDE DEF S
<1>1. s \in Seq(S) /\ Len(s) \in Nat /\ NULL \in S  BY LenProperties DEF S
<1>2. CASE n < Len(s)
  <2>1. Settop(s, n) = SubSeq(s, 1, n)  BY <1>2 DEF Settop
  <2>2. \A j \in 1 .. n : s[j] \in S  BY <1>1, <1>2, ElementOfSeq
  <2>3. /\ SubSeq(s, 1, n) \in Seq(S)
        /\ Len(SubSeq(s, 1, n)) = IF 1 <= n THEN n - 1 + 1 ELSE 0
        /\ \A j \in 1 .. n - 1 + 1 : SubSeq(s, 1, n)[j] = s[1 + j - 1]
    BY <2>2, SubSeqProperties
  <2>4. n - 1 + 1 = n /\ (IF 1 <= n THEN n - 1 + 1 ELSE 0) = n  OBVIOUS
  <2>5. \A j \in 1 .. n : 1 + j - 1 = j  OBVIOUS
  <2>6. \A j \in 1 .. n : SubSeq(s, 1, n)[j] = s[j]  BY <2>3, <2>4, <2>5
  <2>7. Len(SubSeq(s, 1, n)) = n  BY <2>3, <2>4
  <2>8. \A j \in 1 .. Len(s) : j <= n => j \in 1 .. n  BY <1>1
  <2>. QED  BY <2>1, <2>3, <2>6, <2>7, <2>8 DEF S
<1>3. CASE ~ n < Len(s)
  <2>. DEFINE pad == [j \in 1 .. n - Len(s) |-> NULL]
  <2>1. n - Len(s) \in Nat  BY <1>1, <1>3
  <2>2. pad \in Seq(S) /\ Len(pad) = n - Len(s)
    <3>1. pad \in [1 .. n - Len(s) -> S]  BY <1>1
    <3>2. pad \in Seq(S)  BY <2>1, <3>1, SeqDef
    <3>3. DOMAIN pad = 1 .. Len(pad) /\ Len(pad) \in Nat  BY <3>2, LenProperties
    <3>. QED  BY <2>1, <3>2, <3>3
  <2>3. Settop(s, n) = s \o pad  BY <1>3 DEF Settop
  <2>. HIDE DEF pad
  <2>4. /\ s \o pad \in Seq(S) /\ Len(s \o pad) = Len(s) + Len(pad)
        /\ \A j \in 1 .. Len(s) + Len(pad) :
             (s \o pad)[j] = IF j <= Len(s) THEN s[j] ELSE pad[j - Len(s)]
    BY <1>1, <2>2, ConcatProperties
  <2>5. \A j \in 1 .. Len(s) : j \in 1 .. Len(s) + Len(pad) /\ j <= Len(s) + Len(pad)
    BY <1>1, <2>1, <2>2
  <2>6. \A j \in 1 .. Len(s) : j <= Len(s)  BY <1>1
  <2>. QED  BY <2>3, <2>4, <2>5, <2>6 DEF S
<1>. QED  BY <1>2, <1>3

\* The Lua stack.
LEMMA StackStep ==
  ASSUME StackOK, NodesOK, OwnOK, [Next]_vars
  PROVE  StackOK'
<1>1. CASE StartLoop
  BY <1>1 DEF StartLoop, KeepScripts, StackOK
<1>2. CASE AddCallback
  BY <1>2 DEF AddCallback, KeepScripts, StackOK
<1>3. CASE Called
  BY <1>3 DEF Called, KeepScripts, StackOK
<1>4. CASE Stop
  BY <1>4 DEF Stop, KeepScripts, StackOK
<1>5. ASSUME NEW p \in Peers, Accept(p) PROVE StackOK'
  BY <1>5 DEF Accept, KeepScripts, StackOK
<1>6. CASE Listen
  BY <1>6 DEF Listen, KeepScripts, StackOK
<1>7. CASE ListenDown
  BY <1>7 DEF ListenDown, KeepScripts, StackOK
<1>8. CASE LeaveLoop
  BY <1>8 DEF LeaveLoop, KeepScripts, StackOK
<1>9. CASE AcceptNone
  BY <1>9 DEF AcceptNone, KeepScripts, StackOK
<1>10. CASE LoopEnd
  BY <1>10 DEF LoopEnd, KeepScripts, StackOK
<1>11. CASE Exit
  BY <1>11 DEF Exit, KeepScripts, StackOK
<1>12. CASE Leave
  BY <1>12 DEF Leave, KeepScripts, StackOK
<1>13. CASE ReceiveFails
  BY <1>13 DEF ReceiveFails, KeepScripts, StackOK
<1>14. CASE ReceiveStopped
  BY <1>14 DEF ReceiveStopped, KeepScripts, StackOK
<1>15. CASE ReceiveOther
  BY <1>15 DEF ReceiveOther, KeepScripts, StackOK
<1>16. CASE RefuseWebsocket
  BY <1>16 DEF RefuseWebsocket, KeepScripts, StackOK
<1>17. CASE Wild
  BY <1>17 DEF Wild, KeepScripts, StackOK
<1>18. ASSUME NEW dev \in BOOLEAN, NEW found \in BOOLEAN, AddWebsocket(dev, found) PROVE StackOK'
  BY <1>18 DEF AddWebsocket, KeepScripts, StackOK
<1>19. ASSUME NEW loads \in BOOLEAN, NEW left \in 0 .. MaxPieces, GetScript(loads, left) PROVE StackOK'
  <2>1. nodes # <<>> /\ Last(nodes).clnt \in Conns
    BY <1>19, NewFacts DEF GetScript, At
  <2>2. Append(stack, Last(nodes).clnt) \in Seq(Conns \cup {NULL})
    BY <2>1, AppendProperties DEF StackOK
  <2>. QED  BY <1>19, <2>2 DEF GetScript, Chunk, StackOK
<1>20. ASSUME NEW found \in BOOLEAN, NEW left \in 0 .. MaxPieces, GetFile(found, left) PROVE StackOK'
  BY <1>20 DEF GetFile, KeepScripts, StackOK
<1>21. CASE DropFirst
  BY <1>21 DEF DropFirst, KeepScripts, StackOK
<1>22. CASE ServePiece
  BY <1>22 DEF ServePiece, KeepScripts, StackOK
<1>23. CASE EndFirst
  <2>1. Settop(stack, First.level - 1) \in Seq(Conns \cup {NULL}) \/ ~ First.level > 0
    BY <1>23, SettopFacts, FirstFacts DEF EndFirst, Serving, StackOK
  <2>. QED  BY <1>23, <2>1 DEF EndFirst, StackOK
<1>24. CASE PollStart
  BY <1>24 DEF PollStart, KeepScripts, StackOK
<1>25. CASE PollEnd
  BY <1>25 DEF PollEnd, KeepScripts, StackOK
<1>26. CASE Poll
  BY <1>26 DEF Poll, KeepScripts, StackOK
<1>27. CASE PollQuiet
  BY <1>27 DEF PollQuiet, KeepScripts, StackOK
<1>28. CASE PollAborted
  BY <1>28 DEF PollAborted, KeepScripts, StackOK
<1>29. CASE PollBroken
  BY <1>29 DEF PollBroken, KeepScripts, StackOK
<1>30. ASSUME NEW j \in 1 .. WsMax + 1, PollMessage(j) PROVE StackOK'
  BY <1>30 DEF PollMessage, KeepScripts, StackOK
<1>31. CASE UNCHANGED vars
  BY <1>31 DEF vars, KeepScripts, StackOK
<1>. QED
  BY <1>1, <1>2, <1>3, <1>4, <1>5, <1>6, <1>7, <1>8, <1>9, <1>10, <1>11, <1>12, <1>13,
    <1>14, <1>15, <1>16, <1>17, <1>18, <1>19, <1>20, <1>21, <1>22, <1>23, <1>24, <1>25,
    <1>26, <1>27, <1>28, <1>29, <1>30, <1>31 DEF Next, Task, Request, Serve, Websockets

----------------------------------------------------------------------------
\* A step that changes one node and leaves it its connection.
NodeChanged ==
  \E i \in 1 .. Len(nodes), e \in NodeType :
    e.clnt = nodes[i].clnt /\ e.type # "ws" /\ nodes' = [nodes EXCEPT ![i] = e]

LEMMA NodeChangedFacts ==
  ASSUME NodesOK, NodeChanged
  PROVE  /\ nodes' \in Seq(NodeType) /\ Len(nodes') = Len(nodes)
         /\ \A j \in 1 .. Len(nodes) : nodes'[j].type # "ws" /\ nodes'[j].clnt = nodes[j].clnt
         /\ ClientsOf(nodes') = ClientsOf(nodes)
         /\ Owned(nodes) => Owned(nodes')
<1>1. PICK i \in 1 .. Len(nodes), e \in NodeType :
        e.clnt = nodes[i].clnt /\ e.type # "ws" /\ nodes' = [nodes EXCEPT ![i] = e]
  BY DEF NodeChanged
<1>2. /\ nodes' \in Seq(NodeType) /\ Len(nodes') = Len(nodes)
      /\ \A j \in 1 .. Len(nodes) : nodes'[j] = IF j = i THEN e ELSE nodes[j]
  BY <1>1, ExceptSeq DEF NodesOK
<1>3. \A j \in 1 .. Len(nodes) : nodes'[j].type # "ws" /\ nodes'[j].clnt = nodes[j].clnt
  BY <1>1, <1>2 DEF NodesOK
<1>4. ClientsOf(nodes') = ClientsOf(nodes) /\ (Owned(nodes) => Owned(nodes'))
  BY <1>2, <1>3, SameClients DEF NodesOK
<1>. QED  BY <1>2, <1>3, <1>4

LEMMA NodeChanges ==
  ASSUME NodesOK, StackOK, OwnOK,
         \/ ReceiveStopped \/ ServePiece \/ EndFirst
         \/ \E loads \in BOOLEAN, left \in 0 .. MaxPieces : GetScript(loads, left)
         \/ \E found \in BOOLEAN, left \in 0 .. MaxPieces : GetFile(found, left)
  PROVE  NodeChanged
<1>0. 0 \in 0 .. MaxStack + 1 /\ MaxStack \in Nat /\ MaxPieces \in Nat  BY WebServerAssumption
<1>1. CASE ReceiveStopped
  <2>. DEFINE e == [nodes[New] EXCEPT !.state = "close"]
  <2>1. New \in 1 .. Len(nodes) /\ nodes[New] \in NodeType /\ nodes[New].type # "ws"
    BY <1>1, NewFacts DEF ReceiveStopped, At
  <2>2. e \in NodeType /\ e.clnt = nodes[New].clnt /\ e.type # "ws"  BY <2>1 DEF NodeType
  <2>3. nodes' = [nodes EXCEPT ![New] = e]  BY <1>1 DEF ReceiveStopped
  <2>. HIDE DEF e
  <2>. QED  BY <2>1, <2>2, <2>3 DEF NodeChanged
<1>2. CASE ServePiece
  <2>. DEFINE ends == [First EXCEPT !.state = "end"]
              less == [First EXCEPT !.left = @ - 1]
  <2>1. /\ 1 \in 1 .. Len(nodes) /\ First \in NodeType /\ First.type # "ws"
        /\ First.left \in Nat
    BY <1>2, FirstFacts DEF ServePiece, Serving
  <2>2. ends \in NodeType /\ ends.clnt = First.clnt /\ ends.type # "ws"  BY <2>1 DEF NodeType
  <2>3. First.left > 0 => less \in NodeType /\ less.clnt = First.clnt /\ less.type # "ws"
    <3>1. First.left > 0 => First.left - 1 \in 0 .. MaxPieces  BY <1>0, <2>1 DEF NodeType
    <3>. QED  BY <2>1, <3>1 DEF NodeType
  <2>4. \/ nodes' = [nodes EXCEPT ![1] = ends]
        \/ First.left > 0 /\ nodes' = [nodes EXCEPT ![1] = less]
    BY <1>2 DEF ServePiece, First
  <2>. HIDE DEF ends, less
  <2>. QED  BY <2>1, <2>2, <2>3, <2>4 DEF NodeChanged, First
<1>3. CASE EndFirst
  <2>. DEFINE e == Ended(First)
  <2>1. 1 \in 1 .. Len(nodes) /\ First \in NodeType /\ First.type # "ws"
    BY <1>3, FirstFacts DEF EndFirst, Serving
  <2>2. e \in NodeType /\ e.clnt = First.clnt /\ e.type # "ws"
    BY <1>0, <2>1 DEF NodeType, Ended
  <2>3. nodes' = [nodes EXCEPT ![1] = e]  BY <1>3 DEF EndFirst, First
  <2>. HIDE DEF e
  <2>. QED  BY <2>1, <2>2, <2>3 DEF NodeChanged, First
<1>4. ASSUME NEW loads \in BOOLEAN, NEW left \in 0 .. MaxPieces, GetScript(loads, left)
      PROVE  NodeChanged
  <2>. DEFINE begun(state, level) == [nodes[New] EXCEPT !.uri = "script", !.type = "get",
                                        !.state = state, !.level = level, !.left = left]
  <2>1. New \in 1 .. Len(nodes) /\ nodes[New] \in NodeType
    BY <1>4, NewFacts DEF GetScript, At
  <2>2. \A state \in {"close", "pas", "end"}, level \in 0 .. MaxStack + 1 :
          /\ begun(state, level) \in NodeType
          /\ begun(state, level).clnt = nodes[New].clnt /\ begun(state, level).type # "ws"
    BY <2>1 DEF NodeType
  <2>3. \E state \in {"close", "pas", "end"}, level \in 0 .. MaxStack + 1 :
          nodes' = [nodes EXCEPT ![New] = begun(state, level)]
    <3>1. CASE loads
      <4>1. /\ Len(stack) < MaxStack
            /\ \E state \in {"end", "pas"} :
                 nodes' = [nodes EXCEPT ![New] = begun(state, Len(stack) + 1)]
        BY <1>4, <3>1 DEF GetScript, Chunk
      <4>2. Len(stack) + 1 \in 0 .. MaxStack + 1  BY <1>0, <4>1, LenProperties DEF StackOK
      <4>. HIDE DEF begun
      <4>. QED  BY <4>1, <4>2
    <3>2. CASE ~ loads
      <4>1. \E state \in {"end", "close"} : nodes' = [nodes EXCEPT ![New] = begun(state, 0)]
        BY <1>4, <3>2 DEF GetScript
      <4>. HIDE DEF begun
      <4>. QED  BY <1>0, <4>1
    <3>. QED  BY <3>1, <3>2
  <2>. HIDE DEF begun
  <2>. QED  BY <2>1, <2>2, <2>3 DEF NodeChanged
<1>5. ASSUME NEW found \in BOOLEAN, NEW left \in 0 .. MaxPieces, GetFile(found, left)
      PROVE  NodeChanged
  <2>. DEFINE begun(state) == [nodes[New] EXCEPT !.uri = "file", !.type = "get",
                                 !.left = left, !.state = state]
  <2>1. New \in 1 .. Len(nodes) /\ nodes[New] \in NodeType
    BY <1>5, NewFacts DEF GetFile, At
  <2>2. \A state \in {"close", "pas"} :
          begun(state) \in NodeType /\ begun(state).clnt = nodes[New].clnt /\ begun(state).type # "ws"
    BY <2>1 DEF NodeType
  <2>3. \E state \in {"close", "pas"} : nodes' = [nodes EXCEPT ![New] = begun(state)]
    BY <1>5 DEF GetFile
  <2>. HIDE DEF begun
  <2>. QED  BY <2>1, <2>2, <2>3 DEF NodeChanged
<1>. QED  BY <1>1, <1>2, <1>3, <1>4, <1>5

LEMMA FrontNodes ==
  ASSUME NodesOK, nodes # <<>>, nodes' = Front(nodes), pc' # "recv"
  PROVE  NodesOK'
<1>1. /\ Len(nodes) \in Nat \ {0} /\ nodes' \in Seq(NodeType) /\ Len(nodes') = Len(nodes) - 1
      /\ \A j \in 1 .. Len(nodes) - 1 : nodes'[j] = nodes[j]
  BY FrontFacts DEF NodesOK
<1>2. /\ Len(nodes) - 1 <= NcMax /\ \A j \in 1 .. Len(nodes) - 1 : j \in 1 .. Len(nodes)
  BY <1>1, WebServerAssumption DEF NodesOK
<1>. QED  BY <1>1, <1>2 DEF NodesOK

LEMMA TailNodes ==
  ASSUME NodesOK, nodes # <<>>, nodes' = Tail(nodes), pc' # "recv"
  PROVE  NodesOK'
<1>1. /\ Len(nodes) \in Nat \ {0} /\ nodes' \in Seq(NodeType) /\ Len(nodes') = Len(nodes) - 1
      /\ \A j \in 1 .. Len(nodes) - 1 : nodes'[j] = nodes[j + 1]
  BY TailFacts DEF NodesOK
<1>2. /\ Len(nodes) - 1 <= NcMax /\ \A j \in 1 .. Len(nodes) - 1 : j + 1 \in 1 .. Len(nodes)
  BY <1>1, WebServerAssumption DEF NodesOK
<1>. QED  BY <1>1, <1>2 DEF NodesOK

\* The connections that are answered.
LEMMA NodesStep ==
  ASSUME NetOK, NodesOK, StackOK, OwnOK, [Next]_vars
  PROVE  NodesOK'
<1>1. CASE StartLoop
  BY <1>1 DEF StartLoop, At, Goto, CloseSockets, Serving, Polled, NodesOK
<1>2. CASE AddCallback
  BY <1>2 DEF AddCallback, At, Goto, CloseSockets, Serving, Polled, NodesOK
<1>3. CASE Called
  BY <1>3 DEF Called, At, Goto, CloseSockets, Serving, Polled, NodesOK
<1>4. CASE Stop
  BY <1>4 DEF Stop, At, Goto, CloseSockets, Serving, Polled, NodesOK
<1>5. ASSUME NEW p \in Peers, Accept(p) PROVE NodesOK'
  <2>1. CASE UNCHANGED nodes /\ pc' = "tail"  BY <2>1 DEF NodesOK
  <2>2. CASE Len(nodes) < NcMax /\ nodes' = Append(nodes, Node(Fresh))
    <3>1. Node(Fresh) \in NodeType
      BY <1>5, FreshIsFree, WebServerAssumption DEF Accept, Node, NodeType
    <3>2. nodes \in Seq(NodeType) /\ Len(nodes) \in Nat  BY LenProperties DEF NodesOK
    <3>3. /\ nodes' \in Seq(NodeType) /\ nodes' # <<>> /\ Len(nodes') = Len(nodes) + 1
          /\ nodes'[Len(nodes) + 1] = Node(Fresh)
          /\ \A k \in 1 .. Len(nodes) : nodes'[k] = nodes[k]
      BY <2>2, <3>1, <3>2, AppendProperties
    <3>4. \A k \in 1 .. Len(nodes) + 1 : k \in 1 .. Len(nodes) \/ k = Len(nodes) + 1  BY <3>2
    <3>5. Node(Fresh).type # "ws" /\ Node(Fresh).level = 0  BY DEF Node
    <3>6. \A k \in 1 .. Len(nodes') : nodes'[k].type # "ws"  BY <3>3, <3>4, <3>5 DEF NodesOK
    <3>7. Len(nodes') <= NcMax  BY <2>2, <3>2, <3>3, WebServerAssumption
    <3>8. nodes'[Len(nodes')].level = 0  BY <3>3, <3>5
    <3>. QED  BY <3>3, <3>6, <3>7, <3>8 DEF NodesOK
  <2>. QED  BY <1>5, <2>1, <2>2 DEF Accept, Goto
<1>6. CASE Listen
  BY <1>6 DEF Listen, At, Goto, CloseSockets, Serving, Polled, NodesOK
<1>7. CASE ListenDown
  BY <1>7 DEF ListenDown, At, Goto, CloseSockets, Serving, Polled, NodesOK
<1>8. CASE LeaveLoop
  BY <1>8 DEF LeaveLoop, At, Goto, CloseSockets, Serving, Polled, NodesOK
<1>9. CASE AcceptNone
  BY <1>9 DEF AcceptNone, At, Goto, CloseSockets, Serving, Polled, NodesOK
<1>10. CASE LoopEnd
  BY <1>10 DEF LoopEnd, At, Goto, CloseSockets, Serving, Polled, NodesOK
<1>11. CASE Exit
  BY <1>11, EmptySeq, WebServerAssumption DEF Exit, At, Goto, CloseSockets, Serving, Polled, NodesOK
<1>12. CASE Leave
  BY <1>12 DEF Leave, At, Goto, CloseSockets, Serving, Polled, NodesOK
<1>13. CASE ReceiveFails
  BY <1>13 DEF ReceiveFails, At, Goto, CloseSockets, Serving, Polled, NodesOK
<1>14. CASE ReceiveStopped
  <2>1. NodeChanged  BY <1>14, NodeChanges, WebServerAssumption
  <2>2. pc' # "recv"  BY <1>14 DEF ReceiveStopped, Serving, Goto
  <2>. QED  BY <2>1, <2>2, NodeChangedFacts DEF NodesOK
<1>15. CASE ReceiveOther
  BY <1>15 DEF ReceiveOther, At, Goto, CloseSockets, Serving, Polled, NodesOK
<1>16. CASE RefuseWebsocket
  <2>1. nodes # <<>> /\ nodes' = Front(nodes) /\ pc' # "recv"
    BY <1>16, NewFacts DEF RefuseWebsocket, At, Goto
  <2>. QED  BY <2>1, FrontNodes
<1>17. CASE Wild
  BY <1>17 DEF Wild, At, Goto, CloseSockets, Serving, Polled, NodesOK
<1>18. ASSUME NEW dev \in BOOLEAN, NEW found \in BOOLEAN, AddWebsocket(dev, found) PROVE NodesOK'
  <2>1. nodes # <<>> /\ nodes' = Front(nodes) /\ pc' # "recv"
    BY <1>18, NewFacts DEF AddWebsocket, At, Goto
  <2>. QED  BY <2>1, FrontNodes
<1>19. ASSUME NEW loads \in BOOLEAN, NEW left \in 0 .. MaxPieces, GetScript(loads, left) PROVE NodesOK'
  <2>1. NodeChanged  BY <1>19, NodeChanges, WebServerAssumption
  <2>2. pc' # "recv"  BY <1>19 DEF GetScript, Serving, Goto
  <2>. QED  BY <2>1, <2>2, NodeChangedFacts DEF NodesOK
<1>20. ASSUME NEW found \in BOOLEAN, NEW left \in 0 .. MaxPieces, GetFile(found, left) PROVE NodesOK'
  <2>1. NodeChanged  BY <1>20, NodeChanges, WebServerAssumption
  <2>2. pc' # "recv"  BY <1>20 DEF GetFile, Serving, Goto
  <2>. QED  BY <2>1, <2>2, NodeChangedFacts DEF NodesOK
<1>21. CASE DropFirst
  <2>1. nodes # <<>> /\ nodes' = Tail(nodes) /\ pc' # "recv"
    BY <1>21 DEF DropFirst, Serving, Goto
  <2>. QED  BY <2>1, TailNodes
<1>22. CASE ServePiece
  <2>1. NodeChanged  BY <1>22, NodeChanges, WebServerAssumption
  <2>2. pc' # "recv"  BY <1>22 DEF ServePiece, Serving, Goto
  <2>. QED  BY <2>1, <2>2, NodeChangedFacts DEF NodesOK
<1>23. CASE EndFirst
  <2>1. NodeChanged  BY <1>23, NodeChanges, WebServerAssumption
  <2>2. pc' # "recv"  BY <1>23 DEF EndFirst, Serving, Goto
  <2>. QED  BY <2>1, <2>2, NodeChangedFacts DEF NodesOK
<1>24. CASE PollStart
  BY <1>24 DEF PollStart, At, Goto, CloseSockets, Serving, Polled, NodesOK
<1>25. CASE PollEnd
  BY <1>25 DEF PollEnd, At, Goto, CloseSockets, Serving, Polled, NodesOK
<1>26. CASE Poll
  BY <1>26 DEF Poll, At, Goto, CloseSockets, Serving, Polled, NodesOK
<1>27. CASE PollQuiet
  BY <1>27 DEF PollQuiet, At, Goto, CloseSockets, Serving, Polled, NodesOK
<1>28. CASE PollAborted
  BY <1>28 DEF PollAborted, At, Goto, CloseSockets, Serving, Polled, NodesOK
<1>29. CASE PollBroken
  BY <1>29 DEF PollBroken, At, Goto, CloseSockets, Serving, Polled, NodesOK
<1>30. ASSUME NEW j \in 1 .. WsMax + 1, PollMessage(j) PROVE NodesOK'
  BY <1>30 DEF PollMessage, At, Goto, CloseSockets, Serving, Polled, NodesOK
<1>31. CASE UNCHANGED vars
  BY <1>31 DEF vars, At, Goto, CloseSockets, Serving, Polled, NodesOK
<1>. QED
  BY <1>1, <1>2, <1>3, <1>4, <1>5, <1>6, <1>7, <1>8, <1>9, <1>10, <1>11, <1>12, <1>13,
    <1>14, <1>15, <1>16, <1>17, <1>18, <1>19, <1>20, <1>21, <1>22, <1>23, <1>24, <1>25,
    <1>26, <1>27, <1>28, <1>29, <1>30, <1>31 DEF Next, Task, Request, Serve, Websockets

----------------------------------------------------------------------------
(* The websockets.                                                          *)

Young == {w \in SocketType : w.age # MaxAge}

\* The receive of a poll is for a websocket of the table.
LEMMA PolledFacts ==
  ASSUME WsOK, PollOK, AgeOK, pc = "wsrecv"
  PROVE  /\ poll \in 1 .. Len(ws) /\ Len(ws) \in Nat /\ ws[poll] \in SocketType
         /\ \A k \in 1 .. Len(ws) : k # poll => ws[k].age # MaxAge
<1>1. Len(ws) \in Nat /\ poll \in Nat /\ WsMax \in Nat
  BY LenProperties, WebServerAssumption DEF WsOK, PollOK
<1>2. poll \in 1 .. Len(ws)  BY <1>1 DEF PollOK
<1>3. ws[poll] \in SocketType  BY <1>2, ElementOfSeq DEF WsOK
<1>. QED  BY <1>1, <1>2, <1>3 DEF AgeOK

LEMMA YoungSeq ==
  ASSUME NEW s \in Seq(SocketType), \A k \in 1 .. Len(s) : s[k].age # MaxAge
  PROVE  s \in Seq(Young)
<1>1. Len(s) \in Nat /\ s \in [1 .. Len(s) -> SocketType]  BY LenProperties
<1>2. s \in [1 .. Len(s) -> Young]  BY <1>1 DEF Young
<1>. QED  BY <1>1, <1>2, SeqDef

LEMMA YoungIsSocket ==
  ASSUME NEW s \in Seq(Young)
  PROVE  s \in Seq(SocketType) /\ \A k \in 1 .. Len(s) : s[k].age # MaxAge
<1>1. Young \subseteq SocketType  BY DEF Young
<1>2. s \in Seq(SocketType)  BY <1>1, SeqMonotonic
<1>3. \A k \in 1 .. Len(s) : s[k] \in Young  BY ElementOfSeq
<1>. QED  BY <1>2, <1>3 DEF Young

\* A websocket that is moved to the top keeps its place in the table.
LEMMA ToTopFacts ==
  ASSUME NEW S, NEW s \in Seq(S), NEW k
  PROVE  /\ ToTop(s, k) \in Seq(S) /\ Len(ToTop(s, k)) = Len(s)
         /\ Owned(s) => Owned(ToTop(s, k)) /\ ClientsOf(ToTop(s, k)) = ClientsOf(s)
<1>1. Len(s) \in Nat /\ DOMAIN s = 1 .. Len(s) /\ NULL \notin Conns
  BY LenProperties, WebServerAssumption
<1>2. CASE k \in 1 .. Len(s)
  <2>. DEFINE r == RemoveAt(s, k)
  <2>1. s[k] \in S /\ ToTop(s, k) = <<s[k]>> \o r  BY <1>1, <1>2, ElementOfSeq DEF ToTop
  <2>2. r \in Seq(S) /\ Len(r) = Len(s) - 1  BY <1>2, RemoveAtFacts
  <2>3. Owned(s) => Owned(r) /\ ClientsOf(r) = ClientsOf(s) \ {s[k].clnt}
    BY <1>2, RemoveAtOwned
  <2>. HIDE DEF r
  <2>4. /\ <<s[k]>> \o r \in Seq(S) /\ Len(<<s[k]>> \o r) = Len(r) + 1
    BY <2>1, <2>2, PrependFacts
  <2>5. ASSUME Owned(s)
        PROVE  Owned(<<s[k]>> \o r) /\ ClientsOf(<<s[k]>> \o r) = ClientsOf(s)
    <3>1. s[k].clnt \in Conns /\ s[k].clnt \in ClientsOf(s)
      BY <1>1, <1>2, <2>5 DEF Owned, ClientsOf
    <3>2. /\ Owned(<<s[k]>> \o r)
          /\ ClientsOf(<<s[k]>> \o r) = ClientsOf(r) \cup {s[k].clnt}
      BY <2>1, <2>2, <2>3, <2>5, <3>1, PrependOwned
    <3>. QED  BY <2>3, <2>5, <3>1, <3>2
  <2>6. Len(r) + 1 = Len(s)  BY <1>1, <2>2
  <2>. QED  BY <2>1, <2>4, <2>5, <2>6
<1>3. CASE k \notin 1 .. Len(s)  BY <1>1, <1>3 DEF ToTop
<1>. QED  BY <1>2, <1>3

LEMMA MessageFacts ==
  ASSUME WsOK, PollOK, AgeOK, OwnOK, NEW j \in 1 .. WsMax + 1, PollMessage(j)
  PROVE  /\ ws' \in Seq(Young) /\ Len(ws') = Len(ws)
         /\ Owned(ws') /\ ClientsOf(ws') = ClientsOf(ws)
<1>. DEFINE e == [ws[poll] EXCEPT !.age = 0]
            woken == Woken(ws, poll)
            top == ToTop(woken, IF ws[poll].dev THEN j ELSE poll)
<1>1. /\ poll \in 1 .. Len(ws) /\ Len(ws) \in Nat /\ ws[poll] \in SocketType
      /\ \A k \in 1 .. Len(ws) : k # poll => ws[k].age # MaxAge
  BY PolledFacts DEF PollMessage, At
<1>2. MaxAge \in Nat \ {0}  BY WebServerAssumption
<1>3. e \in SocketType /\ e.age = 0 /\ e.clnt = ws[poll].clnt  BY <1>1, <1>2 DEF SocketType
<1>4. woken = [ws EXCEPT ![poll] = e]  BY DEF Woken
<1>. HIDE DEF e, woken
<1>5. /\ woken \in Seq(SocketType) /\ Len(woken) = Len(ws)
      /\ \A k \in 1 .. Len(ws) : woken[k] = IF k = poll THEN e ELSE ws[k]
  BY <1>1, <1>3, <1>4, ExceptSeq DEF WsOK
<1>6. woken \in Seq(Young)
  <2>1. \A k \in 1 .. Len(woken) : woken[k].age # MaxAge  BY <1>1, <1>2, <1>3, <1>5
  <2>. QED  BY <1>5, <2>1, YoungSeq
<1>7. Owned(woken) /\ ClientsOf(woken) = ClientsOf(ws)
  <2>1. \A k \in 1 .. Len(ws) : woken[k].clnt = ws[k].clnt  BY <1>3, <1>5
  <2>2. /\ ClientsOf(woken) = ClientsOf(ws)
        /\ Owned(ws) => Owned(woken)
    BY <1>5, <2>1, SameClients DEF WsOK
  <2>. QED  BY <2>2 DEF OwnOK
<1>8. /\ top \in Seq(Young) /\ Len(top) = Len(woken)
      /\ Owned(top) /\ ClientsOf(top) = ClientsOf(woken)
  BY <1>6, <1>7, ToTopFacts
<1>. HIDE DEF top
<1>9. ~ woken[poll].age >= MaxAge  BY <1>1, <1>2, <1>3, <1>5
<1>10. ws' = IF woken[poll].age >= MaxAge THEN RemoveAt(top, poll) ELSE top
  BY DEF PollMessage, woken, top
<1>. QED  BY <1>5, <1>7, <1>8, <1>9, <1>10

\* The other answers of a poll: the websocket goes or is young enough to stay.
LEMMA DroppedFacts ==
  ASSUME WsOK, PollOK, AgeOK, OwnOK, PollQuiet \/ PollAborted
  PROVE  /\ ws' \in Seq(Young) /\ Len(ws') <= Len(ws)
         /\ Owned(ws') /\ ClientsOf(ws') \subseteq ClientsOf(ws)
         /\ ClientsOf(ws) \ ClientsOf(ws') \subseteq {ws[poll].clnt}
         /\ PollAborted => ws[poll].clnt \in ClientsOf(ws) \ ClientsOf(ws')
<1>1. /\ poll \in 1 .. Len(ws) /\ Len(ws) \in Nat /\ ws[poll] \in SocketType
      /\ \A k \in 1 .. Len(ws) : k # poll => ws[k].age # MaxAge
  BY PolledFacts DEF PollQuiet, PollAborted, At
<1>2. MaxAge \in Nat \ {0}  BY WebServerAssumption
<1>3. ws \in Seq(SocketType) /\ Owned(ws) /\ DOMAIN ws = 1 .. Len(ws) /\ NULL \notin Conns
  BY LenProperties, WebServerAssumption DEF WsOK, OwnOK
<1>4. ws[poll].clnt \in ClientsOf(ws)  BY <1>1, <1>3 DEF Owned, ClientsOf
<1>5. CASE ws' = RemoveAt(ws, poll)
  <2>1. /\ ws' \in Seq(SocketType) /\ Len(ws') = Len(ws) - 1
        /\ \A k \in 1 .. Len(ws) - 1 : ws'[k] = IF k < poll THEN ws[k] ELSE ws[k + 1]
    BY <1>1, <1>3, <1>5, RemoveAtFacts
  <2>2. Owned(ws') /\ ClientsOf(ws') = ClientsOf(ws) \ {ws[poll].clnt}
    BY <1>1, <1>3, <1>5, RemoveAtOwned
  <2>3. ASSUME NEW k \in 1 .. Len(ws) - 1 PROVE ws'[k].age # MaxAge
    <3>1. CASE k < poll
      <4>1. k \in 1 .. Len(ws) /\ k # poll  BY <1>1, <3>1
      <4>. QED  BY <1>1, <2>1, <3>1, <4>1
    <3>2. CASE ~ k < poll
      <4>1. k + 1 \in 1 .. Len(ws) /\ k + 1 # poll  BY <1>1, <3>2
      <4>. QED  BY <1>1, <2>1, <3>2, <4>1
    <3>. QED  BY <3>1, <3>2
  <2>4. ws' \in Seq(Young)  BY <2>1, <2>3, YoungSeq
  <2>5. Len(ws') <= Len(ws)  BY <1>1, <2>1
  <2>. QED  BY <1>4, <2>2, <2>4, <2>5
<1>6. CASE UNCHANGED ws /\ PollQuiet /\ ~ ws[poll].age >= MaxAge
  <2>1. \A k \in 1 .. Len(ws) : ws[k].age # MaxAge
    <3>1. ws[poll].age # MaxAge  BY <1>1, <1>2, <1>6 DEF SocketType
    <3>. QED  BY <1>1, <3>1
  <2>2. ws \in Seq(Young)  BY <1>3, <2>1, YoungSeq
  <2>3. PollAborted => ws' = RemoveAt(ws, poll)  BY DEF PollAborted
  <2>. QED  BY <1>1, <1>3, <1>5, <1>6, <2>2, <2>3
<1>. QED  BY <1>5, <1>6 DEF PollQuiet, PollAborted, AgeOut

LEMMA AddedFacts ==
  ASSUME WsOK, NodesOK, AgeOK, OwnOK,
         NEW dev \in BOOLEAN, NEW found \in BOOLEAN, AddWebsocket(dev, found)
  PROVE  /\ ws' \in Seq(Young) /\ Len(ws') <= WsMax /\ Owned(ws')
         /\ ClientsOf(ws') \subseteq ClientsOf(ws) \cup {Last(nodes).clnt}
<1>. DEFINE c == Last(nodes).clnt
            kept == WithoutDoubles(Evict(ws), c)
<1>1. c \in Conns /\ WsMax \in Nat \ {0} /\ MaxAge \in Nat \ {0}
  BY NewFacts, WebServerAssumption DEF AddWebsocket, At
<1>2. c \notin ClientsOf(ws)
  <2>1. c \in ClientsOf(nodes)
    BY NewFacts, WebServerAssumption, LenProperties DEF AddWebsocket, At, ClientsOf, NodesOK
  <2>. QED  BY <2>1 DEF OwnOK, Shared
<1>3. ws \in Seq(SocketType) /\ Len(ws) \in Nat /\ Len(ws) <= WsMax /\ Owned(ws)
  BY LenProperties DEF WsOK, OwnOK
<1>4. ws \in Seq(Young)
  <2>1. pc = "recv"  BY DEF AddWebsocket, At
  <2>2. \A k \in 1 .. Len(ws) : ws[k].age # MaxAge  BY <2>1 DEF AgeOK
  <2>. QED  BY <1>3, <2>2, YoungSeq
<1>5. /\ Evict(ws) \in Seq(Young) /\ Len(Evict(ws)) < WsMax /\ Owned(Evict(ws))
      /\ ClientsOf(Evict(ws)) \subseteq ClientsOf(ws)
  <2>1. CASE Len(ws) = WsMax
    <3>1. ws # <<>>  BY <1>1, <2>1
    <3>2. /\ Len(ws) \in 1 .. Len(ws) /\ Front(ws) = RemoveAt(ws, Len(ws))
          /\ Front(ws) \in Seq(Young) /\ Len(Front(ws)) = Len(ws) - 1
      BY <1>3, <1>4, <3>1, FrontFacts
    <3>3. Owned(Front(ws)) /\ ClientsOf(Front(ws)) \subseteq ClientsOf(ws)
      BY <1>3, <1>4, <3>2, RemoveAtOwned
    <3>4. Len(ws) - 1 < WsMax  BY <1>1, <1>3
    <3>. QED  BY <2>1, <3>2, <3>3, <3>4 DEF Evict
  <2>2. CASE Len(ws) # WsMax
    <3>1. Len(ws) < WsMax  BY <1>1, <1>3, <2>2
    <3>. QED  BY <1>3, <1>4, <2>2, <3>1 DEF Evict
  <2>. QED  BY <2>1, <2>2
<1>6. /\ kept \in Seq(Young) /\ Len(kept) <= Len(Evict(ws)) /\ Owned(kept)
      /\ ClientsOf(kept) \subseteq ClientsOf(Evict(ws))
  BY <1>5, WithoutDoublesFacts
<1>. HIDE DEF kept
<1>7. Len(kept) \in Nat /\ Len(Evict(ws)) \in Nat  BY <1>5, <1>6, LenProperties
<1>8. CASE ws' = <<Socket(c, dev)>> \o kept
  <2>1. Socket(c, dev) \in Young /\ Socket(c, dev).clnt = c
    BY <1>1 DEF Socket, Young, SocketType
  <2>2. /\ ws' \in Seq(Young) /\ Len(ws') = Len(kept) + 1
    BY <1>6, <1>8, <2>1, PrependFacts
  <2>3. Owned(ws') /\ ClientsOf(ws') = ClientsOf(kept) \cup {c}
    BY <1>1, <1>2, <1>5, <1>6, <1>8, <2>1, PrependOwned
  <2>4. Len(ws') <= WsMax  BY <1>1, <1>5, <1>6, <1>7, <2>2
  <2>. QED  BY <1>5, <1>6, <2>2, <2>3, <2>4
<1>9. CASE ws' = <<>>
  <2>1. ws' \in Seq(Young) /\ Len(ws') = 0  BY <1>9, EmptySeq
  <2>2. Owned(ws') /\ ClientsOf(ws') = {}  BY <1>9 DEF Owned, ClientsOf
  <2>. QED  BY <1>1, <2>1, <2>2
<1>. QED  BY <1>8, <1>9 DEF AddWebsocket, kept

\* A poll makes its websocket one older, and no other.
LEMMA OlderFacts ==
  ASSUME WsOK, PollOK, AgeOK, Poll
  PROVE  /\ ws' \in Seq(SocketType) /\ Len(ws') = Len(ws) /\ Len(ws) \in Nat /\ poll \in 1 .. Len(ws)
         /\ \A k \in 1 .. Len(ws) : k # poll => ws'[k] = ws[k]
         /\ ClientsOf(ws') = ClientsOf(ws) /\ (Owned(ws) => Owned(ws'))
<1>. DEFINE e == [ws[poll] EXCEPT !.age = @ + 1]
<1>1. Len(ws) \in Nat /\ poll \in Nat /\ MaxAge \in Nat \ {0}
  BY LenProperties, WebServerAssumption DEF WsOK, PollOK
<1>2. poll \in 1 .. Len(ws)  BY <1>1 DEF Poll, PollOK, At
<1>3. ws[poll] \in SocketType  BY <1>2, ElementOfSeq DEF WsOK
<1>4. ws[poll].age # MaxAge
  <2>1. pc = "ws" /\ ~ poll < poll  BY <1>1 DEF Poll, At
  <2>. QED  BY <1>2, <2>1 DEF AgeOK
<1>5. ws[poll].age \in 0 .. MaxAge /\ ws[poll].age + 1 \in 0 .. MaxAge
  <2>1. ws[poll].age \in 0 .. MaxAge  BY <1>3 DEF SocketType
  <2>. QED  BY <1>1, <1>4, <2>1
<1>6. e \in SocketType /\ e.clnt = ws[poll].clnt  BY <1>3, <1>5 DEF SocketType
<1>7. ws' = [ws EXCEPT ![poll] = e]  BY DEF Poll
<1>. HIDE DEF e
<1>8. /\ ws' \in Seq(SocketType) /\ Len(ws') = Len(ws)
      /\ \A k \in 1 .. Len(ws) : ws'[k] = IF k = poll THEN e ELSE ws[k]
  BY <1>2, <1>6, <1>7, ExceptSeq DEF WsOK
<1>9. \A k \in 1 .. Len(ws) : ws'[k].clnt = ws[k].clnt  BY <1>6, <1>8
<1>10. ClientsOf(ws') = ClientsOf(ws) /\ (Owned(ws) => Owned(ws'))
  BY <1>8, <1>9, SameClients DEF WsOK
<1>. QED  BY <1>1, <1>2, <1>8, <1>10

\* The table of the websockets.
LEMMA WsStep ==
  ASSUME NodesOK, WsOK, PollOK, AgeOK, OwnOK, [Next]_vars
  PROVE  WsOK'
<1>1. CASE StartLoop
  BY <1>1 DEF StartLoop, Goto, CloseSockets, Serving, Polled, KeepWs, WsOK
<1>2. CASE AddCallback
  BY <1>2 DEF AddCallback, Goto, CloseSockets, Serving, Polled, KeepWs, WsOK
<1>3. CASE Called
  BY <1>3 DEF Called, Goto, CloseSockets, Serving, Polled, KeepWs, WsOK
<1>4. CASE Stop
  BY <1>4 DEF Stop, Goto, CloseSockets, Serving, Polled, KeepWs, WsOK
<1>5. ASSUME NEW p \in Peers, Accept(p) PROVE WsOK'
  BY <1>5 DEF Accept, Goto, CloseSockets, Serving, Polled, KeepWs, WsOK
<1>6. CASE Listen
  BY <1>6 DEF Listen, Goto, CloseSockets, Serving, Polled, KeepWs, WsOK
<1>7. CASE ListenDown
  BY <1>7 DEF ListenDown, Goto, CloseSockets, Serving, Polled, KeepWs, WsOK
<1>8. CASE LeaveLoop
  BY <1>8 DEF LeaveLoop, Goto, CloseSockets, Serving, Polled, KeepWs, WsOK
<1>9. CASE AcceptNone
  BY <1>9 DEF AcceptNone, Goto, CloseSockets, Serving, Polled, KeepWs, WsOK
<1>10. CASE LoopEnd
  BY <1>10 DEF LoopEnd, Goto, CloseSockets, Serving, Polled, KeepWs, WsOK
<1>11. CASE Exit
  <2>1. ws' = <<>>  BY <1>11 DEF Exit, CloseSockets
  <2>. QED  BY <2>1, EmptySeq, WebServerAssumption DEF WsOK
<1>12. CASE Leave
  BY <1>12 DEF Leave, Goto, CloseSockets, Serving, Polled, KeepWs, WsOK
<1>13. CASE ReceiveFails
  BY <1>13 DEF ReceiveFails, Goto, CloseSockets, Serving, Polled, KeepWs, WsOK
<1>14. CASE ReceiveStopped
  BY <1>14 DEF ReceiveStopped, Goto, CloseSockets, Serving, Polled, KeepWs, WsOK
<1>15. CASE ReceiveOther
  BY <1>15 DEF ReceiveOther, Goto, CloseSockets, Serving, Polled, KeepWs, WsOK
<1>16. CASE RefuseWebsocket
  BY <1>16 DEF RefuseWebsocket, Goto, CloseSockets, Serving, Polled, KeepWs, WsOK
<1>17. CASE Wild
  BY <1>17 DEF Wild, Goto, CloseSockets, Serving, Polled, KeepWs, WsOK
<1>18. ASSUME NEW dev \in BOOLEAN, NEW found \in BOOLEAN, AddWebsocket(dev, found) PROVE WsOK'
  <2>1. ws' \in Seq(Young) /\ Len(ws') <= WsMax  BY <1>18, AddedFacts
  <2>. QED  BY <2>1, YoungIsSocket DEF WsOK
<1>19. ASSUME NEW loads \in BOOLEAN, NEW left \in 0 .. MaxPieces, GetScript(loads, left) PROVE WsOK'
  <2>1. ws' = <<>>  BY <1>19 DEF GetScript, CloseSockets
  <2>. QED  BY <2>1, EmptySeq, WebServerAssumption DEF WsOK
<1>20. ASSUME NEW found \in BOOLEAN, NEW left \in 0 .. MaxPieces, GetFile(found, left) PROVE WsOK'
  <2>1. ws' = <<>>  BY <1>20 DEF GetFile, CloseSockets
  <2>. QED  BY <2>1, EmptySeq, WebServerAssumption DEF WsOK
<1>21. CASE DropFirst
  BY <1>21 DEF DropFirst, Goto, CloseSockets, Serving, Polled, KeepWs, WsOK
<1>22. CASE ServePiece
  BY <1>22 DEF ServePiece, Goto, CloseSockets, Serving, Polled, KeepWs, WsOK
<1>23. CASE EndFirst
  BY <1>23 DEF EndFirst, Goto, CloseSockets, Serving, Polled, KeepWs, WsOK
<1>24. CASE PollStart
  <2>1. ws' = <<>> \/ ws' = ws  BY <1>24 DEF PollStart, CloseSockets
  <2>2. ws' = <<>> => WsOK'  BY EmptySeq, WebServerAssumption DEF WsOK
  <2>3. ws' = ws => WsOK'  BY DEF WsOK
  <2>. QED  BY <2>1, <2>2, <2>3
<1>25. CASE PollEnd
  BY <1>25 DEF PollEnd, Goto, CloseSockets, Serving, Polled, KeepWs, WsOK
<1>26. CASE Poll
  <2>1. /\ ws' \in Seq(SocketType) /\ Len(ws') = Len(ws)
    BY <1>26, OlderFacts
  <2>. QED  BY <2>1 DEF WsOK
<1>27. CASE PollQuiet
  <2>1. ws' \in Seq(Young) /\ Len(ws') <= Len(ws)  BY <1>27, DroppedFacts
  <2>2. Len(ws) \in Nat /\ Len(ws') \in Nat /\ WsMax \in Nat
    BY <2>1, LenProperties, WebServerAssumption DEF WsOK
  <2>3. Len(ws') <= WsMax  BY <2>1, <2>2 DEF WsOK
  <2>. QED  BY <2>1, <2>3, YoungIsSocket DEF WsOK
<1>28. CASE PollAborted
  <2>1. ws' \in Seq(Young) /\ Len(ws') <= Len(ws)  BY <1>28, DroppedFacts
  <2>2. Len(ws) \in Nat /\ Len(ws') \in Nat /\ WsMax \in Nat
    BY <2>1, LenProperties, WebServerAssumption DEF WsOK
  <2>3. Len(ws') <= WsMax  BY <2>1, <2>2 DEF WsOK
  <2>. QED  BY <2>1, <2>3, YoungIsSocket DEF WsOK
<1>29. CASE PollBroken
  <2>1. ws' = <<>> \/ ws' = ws  BY <1>29 DEF PollBroken
  <2>2. ws' = <<>> => WsOK'  BY EmptySeq, WebServerAssumption DEF WsOK
  <2>3. ws' = ws => WsOK'  BY DEF WsOK
  <2>. QED  BY <2>1, <2>2, <2>3
<1>30. ASSUME NEW j \in 1 .. WsMax + 1, PollMessage(j) PROVE WsOK'
  <2>1. ws' \in Seq(Young) /\ Len(ws') = Len(ws)  BY <1>30, MessageFacts
  <2>. QED  BY <2>1, YoungIsSocket DEF WsOK
<1>31. CASE UNCHANGED vars
  BY <1>31 DEF vars, Goto, CloseSockets, Serving, Polled, KeepWs, WsOK
<1>. QED
  BY <1>1, <1>2, <1>3, <1>4, <1>5, <1>6, <1>7, <1>8, <1>9, <1>10, <1>11, <1>12, <1>13,
    <1>14, <1>15, <1>16, <1>17, <1>18, <1>19, <1>20, <1>21, <1>22, <1>23, <1>24, <1>25,
    <1>26, <1>27, <1>28, <1>29, <1>30, <1>31 DEF Next, Task, Request, Serve, Websockets

\* Where the poll is.
LEMMA PollStep ==
  ASSUME WsOK, PollOK, AgeOK, [Next]_vars
  PROVE  PollOK'
<1>1. CASE StartLoop
  BY <1>1 DEF StartLoop, At, Goto, CloseSockets, KeepWs, Serving, PollOK
<1>2. CASE AddCallback
  BY <1>2 DEF AddCallback, At, Goto, CloseSockets, KeepWs, Serving, PollOK
<1>3. CASE Called
  BY <1>3 DEF Called, At, Goto, CloseSockets, KeepWs, Serving, PollOK
<1>4. CASE Stop
  BY <1>4 DEF Stop, At, Goto, CloseSockets, KeepWs, Serving, PollOK
<1>5. ASSUME NEW p \in Peers, Accept(p) PROVE PollOK'
  BY <1>5 DEF Accept, At, Goto, CloseSockets, KeepWs, Serving, PollOK
<1>6. CASE Listen
  BY <1>6 DEF Listen, At, Goto, CloseSockets, KeepWs, Serving, PollOK
<1>7. CASE ListenDown
  BY <1>7 DEF ListenDown, At, Goto, CloseSockets, KeepWs, Serving, PollOK
<1>8. CASE LeaveLoop
  BY <1>8 DEF LeaveLoop, At, Goto, CloseSockets, KeepWs, Serving, PollOK
<1>9. CASE AcceptNone
  BY <1>9 DEF AcceptNone, At, Goto, CloseSockets, KeepWs, Serving, PollOK
<1>10. CASE LoopEnd
  BY <1>10 DEF LoopEnd, At, Goto, CloseSockets, KeepWs, Serving, PollOK
<1>11. CASE Exit
  BY <1>11 DEF Exit, At, Goto, CloseSockets, KeepWs, Serving, PollOK
<1>12. CASE Leave
  BY <1>12 DEF Leave, At, Goto, CloseSockets, KeepWs, Serving, PollOK
<1>13. CASE ReceiveFails
  BY <1>13 DEF ReceiveFails, At, Goto, CloseSockets, KeepWs, Serving, PollOK
<1>14. CASE ReceiveStopped
  BY <1>14 DEF ReceiveStopped, At, Goto, CloseSockets, KeepWs, Serving, PollOK
<1>15. CASE ReceiveOther
  BY <1>15 DEF ReceiveOther, At, Goto, CloseSockets, KeepWs, Serving, PollOK
<1>16. CASE RefuseWebsocket
  BY <1>16 DEF RefuseWebsocket, At, Goto, CloseSockets, KeepWs, Serving, PollOK
<1>17. CASE Wild
  BY <1>17 DEF Wild, At, Goto, CloseSockets, KeepWs, Serving, PollOK
<1>18. ASSUME NEW dev \in BOOLEAN, NEW found \in BOOLEAN, AddWebsocket(dev, found) PROVE PollOK'
  BY <1>18 DEF AddWebsocket, At, Goto, CloseSockets, KeepWs, Serving, PollOK
<1>19. ASSUME NEW loads \in BOOLEAN, NEW left \in 0 .. MaxPieces, GetScript(loads, left) PROVE PollOK'
  BY <1>19 DEF GetScript, At, Goto, CloseSockets, KeepWs, Serving, PollOK
<1>20. ASSUME NEW found \in BOOLEAN, NEW left \in 0 .. MaxPieces, GetFile(found, left) PROVE PollOK'
  BY <1>20 DEF GetFile, At, Goto, CloseSockets, KeepWs, Serving, PollOK
<1>21. CASE DropFirst
  BY <1>21 DEF DropFirst, At, Goto, CloseSockets, KeepWs, Serving, PollOK
<1>22. CASE ServePiece
  BY <1>22 DEF ServePiece, At, Goto, CloseSockets, KeepWs, Serving, PollOK
<1>23. CASE EndFirst
  BY <1>23 DEF EndFirst, At, Goto, CloseSockets, KeepWs, Serving, PollOK
<1>24. CASE PollStart
  <2>1. /\ poll' \in 0 .. WsMax + 1 /\ pc' # "wsrecv"
        /\ pc' = "ws" => poll' = 1
    BY <1>24, WebServerAssumption DEF PollStart, CloseSockets, Goto, PollOK
  <2>. QED  BY <2>1 DEF PollOK
<1>25. CASE PollEnd
  BY <1>25, WebServerAssumption DEF PollEnd, Goto, PollOK
<1>26. CASE Poll
  <2>1. /\ poll \in 1 .. Len(ws) /\ Len(ws') = Len(ws) /\ Len(ws) \in Nat  BY <1>26, OlderFacts
  <2>2. poll + 1 \in 0 .. WsMax + 1 /\ poll + 1 >= 1
    BY <2>1, WebServerAssumption DEF WsOK
  <2>. QED  BY <1>26, <2>1, <2>2 DEF Poll, At, Goto, PollOK
<1>27. CASE PollQuiet
  <2>1. poll \in 1 .. Len(ws) /\ Len(ws) \in Nat  BY <1>27, PolledFacts DEF PollQuiet, At
  <2>2. poll + 1 \in 0 .. WsMax + 1 /\ poll + 1 >= 1
    BY <2>1, WebServerAssumption DEF WsOK
  <2>. QED  BY <1>27, <2>2 DEF PollQuiet, Polled, Goto, PollOK
<1>28. CASE PollAborted
  <2>1. poll \in 1 .. Len(ws) /\ Len(ws) \in Nat  BY <1>28, PolledFacts DEF PollAborted, At
  <2>2. poll + 1 \in 0 .. WsMax + 1 /\ poll + 1 >= 1
    BY <2>1, WebServerAssumption DEF WsOK
  <2>. QED  BY <1>28, <2>2 DEF PollAborted, Polled, Goto, PollOK
<1>29. CASE PollBroken
  <2>1. poll \in 1 .. Len(ws) /\ Len(ws) \in Nat  BY <1>29, PolledFacts DEF PollBroken, At
  <2>2. poll + 1 \in 0 .. WsMax + 1 /\ poll + 1 >= 1
    BY <2>1, WebServerAssumption DEF WsOK
  <2>. QED  BY <1>29, <2>2 DEF PollBroken, Polled, Goto, PollOK
<1>30. ASSUME NEW j \in 1 .. WsMax + 1, PollMessage(j) PROVE PollOK'
  <2>1. poll \in 1 .. Len(ws) /\ Len(ws) \in Nat  BY <1>30, PolledFacts DEF PollMessage, At
  <2>2. poll + 1 \in 0 .. WsMax + 1 /\ poll + 1 >= 1
    BY <2>1, WebServerAssumption DEF WsOK
  <2>. QED  BY <1>30, <2>2 DEF PollMessage, Polled, Goto, PollOK
<1>31. CASE UNCHANGED vars
  BY <1>31 DEF vars, At, Goto, CloseSockets, KeepWs, Serving, PollOK
<1>. QED
  BY <1>1, <1>2, <1>3, <1>4, <1>5, <1>6, <1>7, <1>8, <1>9, <1>10, <1>11, <1>12, <1>13,
    <1>14, <1>15, <1>16, <1>17, <1>18, <1>19, <1>20, <1>21, <1>22, <1>23, <1>24, <1>25,
    <1>26, <1>27, <1>28, <1>29, <1>30, <1>31 DEF Next, Task, Request, Serve, Websockets

\* The ages of the websockets.
LEMMA AgeStep ==
  ASSUME CtlOK, WsOK, NodesOK, PollOK, AgeOK, OwnOK, [Next]_vars
  PROVE  AgeOK'
<1>1. CASE StartLoop
  BY <1>1 DEF StartLoop, At, Goto, Running, After, CloseSockets, Serving, KeepWs, AgeOK
<1>2. CASE AddCallback
  BY <1>2 DEF AddCallback, At, Goto, Running, After, CloseSockets, Serving, KeepWs, AgeOK
<1>3. CASE Called
  BY <1>3 DEF Called, At, Goto, Running, After, CloseSockets, Serving, KeepWs, AgeOK
<1>4. CASE Stop
  BY <1>4 DEF Stop, At, Goto, Running, After, CloseSockets, Serving, KeepWs, AgeOK
<1>5. ASSUME NEW p \in Peers, Accept(p) PROVE AgeOK'
  BY <1>5 DEF Accept, At, Goto, Running, After, CloseSockets, Serving, KeepWs, AgeOK
<1>6. CASE Listen
  BY <1>6 DEF Listen, At, Goto, Running, After, CloseSockets, Serving, KeepWs, AgeOK
<1>7. CASE ListenDown
  BY <1>7 DEF ListenDown, At, Goto, Running, After, CloseSockets, Serving, KeepWs, AgeOK
<1>8. CASE LeaveLoop
  <2>1. pc = "loop" /\ pc' = "exit" /\ UNCHANGED <<run, ws>>
    BY <1>8 DEF LeaveLoop, At, Goto, KeepWs
  <2>. QED  BY <2>1 DEF AgeOK, Running
<1>9. CASE AcceptNone
  BY <1>9 DEF AcceptNone, At, Goto, Running, After, CloseSockets, Serving, KeepWs, AgeOK
<1>10. CASE LoopEnd
  <2>1. /\ pc = "end" /\ pc' = "loop" /\ UNCHANGED ws /\ (Running' => Running)
    BY <1>10 DEF LoopEnd, At, Goto, KeepWs, Running
  <2>. QED  BY <2>1 DEF AgeOK
<1>11. CASE Exit
  <2>1. ws' = <<>>  BY <1>11 DEF Exit, CloseSockets
  <2>. QED  BY <2>1, EmptySeq DEF AgeOK
<1>12. CASE Leave
  BY <1>12 DEF Leave, At, Goto, Running, After, CloseSockets, Serving, KeepWs, AgeOK
<1>13. CASE ReceiveFails
  BY <1>13 DEF ReceiveFails, At, Goto, Running, After, CloseSockets, Serving, KeepWs,
    AgeOK
<1>14. CASE ReceiveStopped
  BY <1>14 DEF ReceiveStopped, At, Goto, Running, After, CloseSockets, Serving, KeepWs,
    AgeOK
<1>15. CASE ReceiveOther
  BY <1>15 DEF ReceiveOther, At, Goto, Running, After, CloseSockets, Serving, KeepWs,
    AgeOK
<1>16. CASE RefuseWebsocket
  BY <1>16 DEF RefuseWebsocket, At, Goto, Running, After, CloseSockets, Serving, KeepWs,
    AgeOK
<1>17. CASE Wild
  BY <1>17 DEF Wild, At, Goto, Running, After, CloseSockets, Serving, KeepWs, AgeOK
<1>18. ASSUME NEW dev \in BOOLEAN, NEW found \in BOOLEAN, AddWebsocket(dev, found) PROVE AgeOK'
  <2>1. ws' \in Seq(Young)  BY <1>18, AddedFacts
  <2>. QED  BY <2>1, YoungIsSocket DEF AgeOK
<1>19. ASSUME NEW loads \in BOOLEAN, NEW left \in 0 .. MaxPieces, GetScript(loads, left) PROVE AgeOK'
  <2>1. ws' = <<>>  BY <1>19 DEF GetScript, CloseSockets
  <2>. QED  BY <2>1, EmptySeq DEF AgeOK
<1>20. ASSUME NEW found \in BOOLEAN, NEW left \in 0 .. MaxPieces, GetFile(found, left) PROVE AgeOK'
  <2>1. ws' = <<>>  BY <1>20 DEF GetFile, CloseSockets
  <2>. QED  BY <2>1, EmptySeq DEF AgeOK
<1>21. CASE DropFirst
  BY <1>21 DEF DropFirst, At, Goto, Running, After, CloseSockets, Serving, KeepWs, AgeOK
<1>22. CASE ServePiece
  BY <1>22 DEF ServePiece, At, Goto, Running, After, CloseSockets, Serving, KeepWs, AgeOK
<1>23. CASE EndFirst
  BY <1>23 DEF EndFirst, At, Goto, Running, After, CloseSockets, Serving, KeepWs, AgeOK
<1>24. CASE PollStart
  <2>1. CASE Running
    <3>1. \A k \in 1 .. Len(ws) : ws[k].age # MaxAge  BY <1>24, <2>1 DEF PollStart, At, AgeOK
    <3>2. UNCHANGED ws  BY <1>24, <2>1 DEF PollStart
    <3>. QED  BY <3>1, <3>2 DEF AgeOK
  <2>2. CASE ~ Running
    <3>1. ws' = <<>>  BY <1>24, <2>2 DEF PollStart, CloseSockets
    <3>. QED  BY <3>1, EmptySeq DEF AgeOK
  <2>. QED  BY <2>1, <2>2
<1>25. CASE PollEnd
  <2>1. /\ pc = "ws" /\ pc' = "end" /\ UNCHANGED <<run, ws>>  BY <1>25 DEF PollEnd, At, Goto, KeepWs
  <2>. QED  BY <2>1 DEF AgeOK, Running
<1>26. CASE Poll
  <2>1. /\ ws' \in Seq(SocketType) /\ Len(ws') = Len(ws) /\ Len(ws) \in Nat /\ poll \in 1 .. Len(ws)
        /\ \A k \in 1 .. Len(ws) : k # poll => ws'[k] = ws[k]
    BY <1>26, OlderFacts
  <2>2. pc = "ws" /\ UNCHANGED run  BY <1>26 DEF Poll, At
  <2>3. CASE Running
    <3>1. pc' = "wsrecv" /\ UNCHANGED poll  BY <1>26, <2>3 DEF Poll, Goto
    <3>2. \A k \in 1 .. Len(ws) : ws[k].age # MaxAge  BY <2>2, <2>3 DEF AgeOK
    <3>. QED  BY <2>1, <3>1, <3>2 DEF AgeOK
  <2>4. CASE ~ Running
    <3>1. pc' = "ws" /\ poll' = poll + 1 /\ ~ Running'
      BY <1>26, <2>2, <2>4 DEF Poll, Goto, Running
    <3>2. \A k \in 1 .. Len(ws) : ws[k].age = MaxAge => k < poll  BY <2>2, <2>4 DEF AgeOK
    <3>3. \A k \in 1 .. Len(ws) : k < poll \/ k = poll => k < poll + 1  BY <2>1
    <3>4. \A k \in 1 .. Len(ws') : ws'[k].age = MaxAge => k < poll'
      BY <2>1, <3>1, <3>2, <3>3
    <3>. QED  BY <3>1, <3>4 DEF AgeOK
  <2>. QED  BY <2>3, <2>4
<1>27. CASE PollQuiet
  <2>1. ws' \in Seq(Young)  BY <1>27, DroppedFacts
  <2>. QED  BY <2>1, YoungIsSocket DEF AgeOK
<1>28. CASE PollAborted
  <2>1. ws' \in Seq(Young)  BY <1>28, DroppedFacts
  <2>. QED  BY <2>1, YoungIsSocket DEF AgeOK
<1>29. CASE PollBroken
  <2>1. CASE ws' = <<>>  BY <2>1, EmptySeq DEF AgeOK
  <2>2. CASE UNCHANGED ws
    <3>1. run' = 4 /\ pc' = "ws" /\ poll' = poll + 1 /\ pc = "wsrecv"
      BY <1>29 DEF PollBroken, Polled, Goto, At
    <3>2. poll \in 1 .. Len(ws)  BY <3>1, PolledFacts
    <3>3. poll < poll + 1 /\ ~ Running'  BY <3>1, <3>2 DEF Running
    <3>. QED  BY <2>2, <3>1, <3>3, PolledFacts DEF AgeOK
  <2>. QED  BY <1>29, <2>1, <2>2 DEF PollBroken
<1>30. ASSUME NEW j \in 1 .. WsMax + 1, PollMessage(j) PROVE AgeOK'
  <2>1. ws' \in Seq(Young)  BY <1>30, MessageFacts
  <2>. QED  BY <2>1, YoungIsSocket DEF AgeOK
<1>31. CASE UNCHANGED vars
  BY <1>31 DEF vars, At, Goto, Running, After, CloseSockets, Serving, KeepWs, AgeOK
<1>. QED
  BY <1>1, <1>2, <1>3, <1>4, <1>5, <1>6, <1>7, <1>8, <1>9, <1>10, <1>11, <1>12, <1>13,
    <1>14, <1>15, <1>16, <1>17, <1>18, <1>19, <1>20, <1>21, <1>22, <1>23, <1>24, <1>25,
    <1>26, <1>27, <1>28, <1>29, <1>30, <1>31 DEF Next, Task, Request, Serve, Websockets

----------------------------------------------------------------------------
(* Whose the connections are.                                               *)

LEMMA OwnedNext ==
  ASSUME Owned(nodes'), Owned(ws'),
         Shared({nc'} \ {NULL}, ClientsOf(nodes'), ClientsOf(ws'), lost', Open')
  PROVE  OwnOK'
BY DEF OwnOK, Listener, Owned, ClientsOf, Shared

LEMMA Closed ==
  ASSUME NetOK, NEW cs, peer' = Close(cs)
  PROVE  Open' = Open \ cs
BY CloseFacts DEF Open

LEMMA Opened ==
  ASSUME NetOK, NEW c \in Conns, NEW v, v # NULL, peer' = [peer EXCEPT ![c] = v]
  PROVE  Open' = Open \cup {c}
BY DEF Open, NetOK

\* A table with nothing in it.
LEMMA EmptyOwned == Owned(<<>>) /\ ClientsOf(<<>>) = {}
BY DEF Owned, ClientsOf

\* Websockets go and their connections are closed; the nodes keep theirs.
LEMMA SocketsClosed ==
  ASSUME NetOK, OwnOK, Owned(nodes'), ClientsOf(nodes') = ClientsOf(nodes),
         Owned(ws'), ClientsOf(ws') \subseteq ClientsOf(ws),
         peer' = Close(ClientsOf(ws) \ ClientsOf(ws')), UNCHANGED <<nc, lost>>
  PROVE  OwnOK'
<1>1. Open' = Open \ (ClientsOf(ws) \ ClientsOf(ws'))  BY Closed
<1>2. Shared({nc'} \ {NULL}, ClientsOf(nodes'), ClientsOf(ws'), lost', Open')
  BY <1>1 DEF OwnOK, Listener, Shared
<1>. QED  BY <1>2, OwnedNext

\* The nodes that are deleted: what is not closed is lost.
LEMMA DeletedFacts ==
  ASSUME NEW s \in Seq(NodeType), \A j \in 1 .. Len(s) : s[j].type # "ws", Owned(s),
         NEW cs \in MayClose(s)
  PROVE  cs \subseteq ClientsOf(s) /\ Stray(s, cs) = ClientsOf(s) \ cs
<1>1. DOMAIN s = 1 .. Len(s) /\ NULL \notin Conns  BY LenProperties, WebServerAssumption
<1>2. \A j \in 1 .. Len(s) : s[j].clnt \in Conns /\ s[j].type \in {"junk", "get"}
  <2>1. \A j \in 1 .. Len(s) : s[j] \in NodeType  BY ElementOfSeq
  <2>. QED  BY <2>1 DEF NodeType, Owned
<1>3. cs \subseteq ClientsOf(s) /\ \A j \in 1 .. Len(s) : s[j].type = "get" => s[j].clnt \in cs
  BY <1>1, <1>2 DEF MayClose
<1>4. Stray(s, cs) \subseteq ClientsOf(s) \ cs  BY <1>1 DEF Stray, ClientsOf
<1>5. ASSUME NEW c \in ClientsOf(s) \ cs PROVE c \in Stray(s, cs)
  <2>1. PICK j \in 1 .. Len(s) : c = s[j].clnt  BY <1>1 DEF ClientsOf
  <2>2. s[j].type = "junk" /\ c # NULL  BY <1>1, <1>2, <1>3, <1>5, <2>1
  <2>. QED  BY <1>1, <1>5, <2>1, <2>2 DEF Stray
<1>. QED  BY <1>3, <1>4, <1>5

\* The newest and the oldest connection leave the table with their client.
LEMMA FrontOwned ==
  ASSUME NodesOK, OwnOK, pc = "recv"
  PROVE  /\ Last(nodes).clnt \in ClientsOf(nodes) /\ Owned(Front(nodes))
         /\ ClientsOf(Front(nodes)) = ClientsOf(nodes) \ {Last(nodes).clnt}
<1>1. /\ nodes # <<>> /\ Len(nodes) \in 1 .. Len(nodes) /\ Last(nodes) = nodes[Len(nodes)]
      /\ nodes \in Seq(NodeType) /\ Owned(nodes) /\ Last(nodes).clnt \in Conns
      /\ DOMAIN nodes = 1 .. Len(nodes)
  BY NewFacts, FirstFacts DEF NodesOK, OwnOK
<1>2. Front(nodes) = RemoveAt(nodes, Len(nodes))  BY <1>1, FrontFacts
<1>3. Last(nodes).clnt \in ClientsOf(nodes)  BY <1>1, WebServerAssumption DEF ClientsOf
<1>. QED  BY <1>1, <1>2, <1>3, RemoveAtOwned

LEMMA TailOwned ==
  ASSUME NodesOK, OwnOK, nodes # <<>>
  PROVE  /\ First.clnt \in ClientsOf(nodes) /\ Owned(Tail(nodes))
         /\ ClientsOf(Tail(nodes)) = ClientsOf(nodes) \ {First.clnt}
<1>1. /\ 1 \in 1 .. Len(nodes) /\ First = nodes[1] /\ DOMAIN nodes = 1 .. Len(nodes)
      /\ nodes \in Seq(NodeType) /\ Owned(nodes) /\ First.clnt \in Conns
  BY FirstFacts DEF NodesOK, OwnOK, First
<1>2. Tail(nodes) = RemoveAt(nodes, 1)  BY <1>1, TailFacts
<1>3. First.clnt \in ClientsOf(nodes)  BY <1>1, WebServerAssumption DEF ClientsOf
<1>. QED  BY <1>1, <1>2, <1>3, RemoveAtOwned

\* Whose the connections are.
LEMMA OwnStep ==
  ASSUME NetOK, StackOK, NodesOK, WsOK, PollOK, AgeOK, OwnOK, [Next]_vars
  PROVE  OwnOK'
<1>1. CASE StartLoop
  BY <1>1 DEF StartLoop, Goto, KeepNet, KeepWs, KeepScripts, KeepRest, Serving, Polled,
    OwnOK, Listener, Open
<1>2. CASE AddCallback
  BY <1>2 DEF AddCallback, Goto, KeepNet, KeepWs, KeepScripts, KeepRest, Serving, Polled,
    OwnOK, Listener, Open
<1>3. CASE Called
  BY <1>3 DEF Called, Goto, KeepNet, KeepWs, KeepScripts, KeepRest, Serving, Polled,
    OwnOK, Listener, Open
<1>4. CASE Stop
  BY <1>4 DEF Stop, Goto, KeepNet, KeepWs, KeepScripts, KeepRest, Serving, Polled, OwnOK,
    Listener, Open
<1>5. ASSUME NEW p \in Peers, Accept(p) PROVE OwnOK'
  <2>1. UNCHANGED <<ws, nc, lost>> /\ Open # Conns  BY <1>5 DEF Accept, KeepWs
  <2>2. CASE UNCHANGED <<nodes, peer>>  BY <2>1, <2>2 DEF OwnOK, Listener, Open
  <2>3. CASE nodes' = Append(nodes, Node(Fresh)) /\ peer' = [peer EXCEPT ![Fresh] = p]
    <3>1. Fresh \in Conns /\ Fresh \notin Open  BY <2>1, FreshIsFree
    <3>2. Open' = Open \cup {Fresh}
      <4>1. p # NULL  BY <1>5, WebServerAssumption
      <4>. QED  BY <2>3, <3>1, <4>1, Opened
    <3>3. Node(Fresh) \in NodeType /\ Node(Fresh).clnt = Fresh
      BY <3>1, WebServerAssumption DEF Node, NodeType
    <3>. HIDE DEF Fresh
    <3>4. Fresh \notin ClientsOf(nodes)  BY <3>1 DEF OwnOK, Shared
    <3>5. Owned(nodes') /\ ClientsOf(nodes') = ClientsOf(nodes) \cup {Fresh}
      BY <2>3, <3>1, <3>3, <3>4, AppendOwned DEF OwnOK, NodesOK
    <3>6. Shared(Listener, ClientsOf(nodes'), ClientsOf(ws), lost, Open')
      BY <3>1, <3>2, <3>5 DEF OwnOK, Shared
    <3>. QED  BY <2>1, <3>5, <3>6, OwnedNext DEF OwnOK, Listener
  <2>. QED  BY <1>5, <2>2, <2>3 DEF Accept
<1>6. CASE Listen
  <2>1. UNCHANGED <<nodes, ws>>  BY <1>6 DEF Listen, KeepWs
  <2>2. CASE Open # Conns /\ peer' = [peer EXCEPT ![Fresh] = Listening] /\ nc' = Fresh
    <3>1. Fresh \in Conns /\ Fresh \notin Open  BY <2>2, FreshIsFree
    <3>2. Open' = Open \cup {Fresh}
      <4>1. Listening # NULL  BY WebServerAssumption DEF Listening
      <4>. QED  BY <2>2, <3>1, <4>1, Opened
    <3>3. NULL \notin Conns /\ lost' = lost \cup Listener
      BY <1>6, WebServerAssumption DEF Listen, Listener
    <3>. HIDE DEF Fresh
    <3>4. {nc'} \ {NULL} = {Fresh}  BY <2>2, <3>1, <3>3
    <3>5. Shared({Fresh}, ClientsOf(nodes), ClientsOf(ws), lost', Open')
      BY <3>1, <3>2, <3>3 DEF OwnOK, Shared
    <3>. QED  BY <2>1, <3>4, <3>5, OwnedNext DEF OwnOK
  <2>3. CASE nc' = NULL /\ UNCHANGED peer
    <3>1. Open' = Open /\ lost' = lost \cup Listener /\ {nc'} \ {NULL} = {}
      BY <1>6, <2>3 DEF Listen, Listener, Open
    <3>2. Shared({}, ClientsOf(nodes), ClientsOf(ws), lost', Open')
      BY <3>1 DEF OwnOK, Shared
    <3>. QED  BY <2>1, <3>1, <3>2, OwnedNext DEF OwnOK
  <2>. QED  BY <1>6, <2>2, <2>3 DEF Listen
<1>7. CASE ListenDown
  <2>1. /\ UNCHANGED <<nodes, ws, lost>> /\ nc' = NULL /\ peer' = Close({nc})
    BY <1>7 DEF ListenDown, KeepWs
  <2>2. Open' = Open \ {nc} /\ NULL \notin Open
    BY <2>1, Closed, WebServerAssumption DEF Open
  <2>3. {nc'} \ {NULL} = {}  BY <2>1
  <2>4. Shared({}, ClientsOf(nodes), ClientsOf(ws), lost, Open')
    BY <2>2 DEF OwnOK, Shared, Listener
  <2>. QED  BY <2>1, <2>3, <2>4, OwnedNext DEF OwnOK
<1>8. CASE LeaveLoop
  BY <1>8 DEF LeaveLoop, Goto, KeepNet, KeepWs, KeepScripts, KeepRest, Serving, Polled,
    OwnOK, Listener, Open
<1>9. CASE AcceptNone
  BY <1>9 DEF AcceptNone, Goto, KeepNet, KeepWs, KeepScripts, KeepRest, Serving, Polled,
    OwnOK, Listener, Open
<1>10. CASE LoopEnd
  BY <1>10 DEF LoopEnd, Goto, KeepNet, KeepWs, KeepScripts, KeepRest, Serving, Polled,
    OwnOK, Listener, Open
<1>11. CASE Exit
  <2>1. ws' = <<>> /\ nodes' = <<>> /\ nc' = NULL  BY <1>11 DEF Exit, CloseSockets
  <2>2. PICK cs \in MayClose(nodes) :
          peer' = Close(ClientsOf(ws) \cup cs \cup {nc}) /\ lost' = lost \cup Stray(nodes, cs)
    BY <1>11 DEF Exit
  <2>3. cs \subseteq ClientsOf(nodes) /\ Stray(nodes, cs) = ClientsOf(nodes) \ cs
    BY DeletedFacts DEF NodesOK, OwnOK
  <2>4. Open' = Open \ (ClientsOf(ws) \cup cs \cup {nc})  BY <2>2, Closed
  <2>5. NULL \notin Open  BY WebServerAssumption DEF Open
  <2>6. Shared({}, {}, {}, lost', Open')
    BY <2>2, <2>3, <2>4, <2>5 DEF OwnOK, Shared, Listener
  <2>7. Owned(nodes') /\ Owned(ws') /\ ClientsOf(nodes') = {} /\ ClientsOf(ws') = {}
    BY <2>1, EmptyOwned
  <2>8. {nc'} \ {NULL} = {}  BY <2>1
  <2>. QED  BY <2>6, <2>7, <2>8, OwnedNext
<1>12. CASE Leave
  BY <1>12 DEF Leave, Goto, KeepNet, KeepWs, KeepScripts, KeepRest, Serving, Polled,
    OwnOK, Listener, Open
<1>13. CASE ReceiveFails
  BY <1>13 DEF ReceiveFails, Goto, KeepNet, KeepWs, KeepScripts, KeepRest, Serving,
    Polled, OwnOK, Listener, Open
<1>14. CASE ReceiveStopped
  <2>1. ClientsOf(nodes') = ClientsOf(nodes) /\ Owned(nodes')
    BY <1>14, NodeChanges, NodeChangedFacts DEF OwnOK
  <2>2. UNCHANGED <<peer, nc, lost, ws>>  BY <1>14 DEF ReceiveStopped, KeepNet, KeepWs
  <2>. QED  BY <2>1, <2>2, OwnedNext DEF OwnOK, Listener, Open
<1>15. CASE ReceiveOther
  BY <1>15 DEF ReceiveOther, Goto, KeepNet, KeepWs, KeepScripts, KeepRest, Serving,
    Polled, OwnOK, Listener, Open
<1>16. CASE RefuseWebsocket
  <2>. DEFINE c == Last(nodes).clnt
  <2>1. UNCHANGED <<ws, nc, lost>> /\ nodes' = Front(nodes) /\ peer' = Close({c}) /\ pc = "recv"
    BY <1>16 DEF RefuseWebsocket, KeepWs, At
  <2>2. Owned(nodes') /\ ClientsOf(nodes') = ClientsOf(nodes) \ {c}
    BY <2>1, FrontOwned
  <2>3. c \in ClientsOf(nodes) /\ Open' = Open \ {c}  BY <2>1, Closed, FrontOwned
  <2>. HIDE DEF c
  <2>4. Shared(Listener, ClientsOf(nodes'), ClientsOf(ws), lost, Open')
    BY <2>2, <2>3 DEF OwnOK, Shared
  <2>. QED  BY <2>1, <2>2, <2>4, OwnedNext DEF OwnOK, Listener
<1>17. CASE Wild
  BY <1>17 DEF Wild, Goto, KeepNet, KeepWs, KeepScripts, KeepRest, Serving, Polled, OwnOK,
    Listener, Open
<1>18. ASSUME NEW dev \in BOOLEAN, NEW found \in BOOLEAN, AddWebsocket(dev, found) PROVE OwnOK'
  <2>. DEFINE c == Last(nodes).clnt
            gone == Upgraded(Last(nodes))
  <2>1. UNCHANGED <<nc, lost>> /\ nodes' = Front(nodes) /\ pc = "recv"
    BY <1>18 DEF AddWebsocket, At
  <2>2. Owned(nodes') /\ ClientsOf(nodes') = ClientsOf(nodes) \ {c} /\ c \in ClientsOf(nodes)
    BY <2>1, FrontOwned
  <2>3. Owned(ws') /\ ClientsOf(ws') \subseteq ClientsOf(ws) \cup {c}  BY <1>18, AddedFacts
  <2>4. PICK cs \in MayClose(<<gone>>) :
          peer' = Close(((ClientsOf(ws) \cup {c}) \ ClientsOf(ws')) \cup cs)
    BY <1>18 DEF AddWebsocket
  <2>5. cs = {}
    <3>1. gone.clnt = NULL  BY <2>1, NewFacts DEF Upgraded, NodeType
    <3>. HIDE DEF gone
    <3>2. ClientsOf(<<gone>>) = {}  BY <3>1 DEF ClientsOf
    <3>. QED  BY <3>2 DEF MayClose
  <2>6. Open' = Open \ ((ClientsOf(ws) \cup {c}) \ ClientsOf(ws'))  BY <2>4, <2>5, Closed
  <2>. HIDE DEF c, gone
  <2>7. Shared(Listener, ClientsOf(nodes'), ClientsOf(ws'), lost, Open')
    BY <2>2, <2>3, <2>6 DEF OwnOK, Shared
  <2>. QED  BY <2>1, <2>2, <2>3, <2>7, OwnedNext DEF Listener
<1>19. ASSUME NEW loads \in BOOLEAN, NEW left \in 0 .. MaxPieces, GetScript(loads, left) PROVE OwnOK'
  <2>1. ClientsOf(nodes') = ClientsOf(nodes) /\ Owned(nodes')
    BY <1>19, NodeChanges, NodeChangedFacts DEF OwnOK
  <2>2. UNCHANGED <<nc, lost>> /\ ws' = <<>> /\ peer' = Close(ClientsOf(ws))
    BY <1>19 DEF GetScript, CloseSockets
  <2>3. Owned(ws') /\ ClientsOf(ws') = {}  BY <2>2, EmptyOwned
  <2>4. ClientsOf(ws) \ ClientsOf(ws') = ClientsOf(ws)  BY <2>3
  <2>. QED  BY <2>1, <2>2, <2>3, <2>4, SocketsClosed
<1>20. ASSUME NEW found \in BOOLEAN, NEW left \in 0 .. MaxPieces, GetFile(found, left) PROVE OwnOK'
  <2>1. ClientsOf(nodes') = ClientsOf(nodes) /\ Owned(nodes')
    BY <1>20, NodeChanges, NodeChangedFacts DEF OwnOK
  <2>2. UNCHANGED <<nc, lost>> /\ ws' = <<>> /\ peer' = Close(ClientsOf(ws))
    BY <1>20 DEF GetFile, CloseSockets
  <2>3. Owned(ws') /\ ClientsOf(ws') = {}  BY <2>2, EmptyOwned
  <2>4. ClientsOf(ws) \ ClientsOf(ws') = ClientsOf(ws)  BY <2>3
  <2>. QED  BY <2>1, <2>2, <2>3, <2>4, SocketsClosed
<1>21. CASE DropFirst
  <2>. DEFINE c == First.clnt
  <2>1. UNCHANGED <<ws, nc>> /\ nodes' = Tail(nodes) /\ nodes # <<>>
    BY <1>21 DEF DropFirst, Serving, KeepWs
  <2>2. PICK cs \in MayClose(<<First>>) : peer' = Close(cs) /\ lost' = lost \cup Stray(<<First>>, cs)
    BY <1>21 DEF DropFirst
  <2>3. /\ c \in Conns /\ First \in NodeType /\ First.type # "ws" /\ NULL \notin Conns
    BY <2>1, FirstFacts, WebServerAssumption
  <2>4. cs \subseteq {c} /\ Stray(<<First>>, cs) = {c} \ cs
    <3>. DEFINE s == <<First>>
    <3>1. s \in Seq(NodeType) /\ Len(s) = 1 /\ s[1] = First  BY <2>3
    <3>2. \A j \in 1 .. Len(s) : j = 1  BY <3>1
    <3>3. Owned(s) /\ ClientsOf(s) = {c}
      <4>1. DOMAIN s = {1}  BY <3>1
      <4>. HIDE DEF s
      <4>. QED  BY <2>3, <3>1, <3>2, <4>1 DEF Owned, ClientsOf
    <3>. HIDE DEF s
    <3>4. cs \in MayClose(s) /\ \A j \in 1 .. Len(s) : s[j].type # "ws"
      BY <2>2, <2>3, <3>1, <3>2 DEF s
    <3>5. cs \subseteq ClientsOf(s) /\ Stray(s, cs) = ClientsOf(s) \ cs
      BY <3>1, <3>3, <3>4, DeletedFacts
    <3>. QED  BY <3>3, <3>5 DEF s
  <2>5. Owned(nodes') /\ ClientsOf(nodes') = ClientsOf(nodes) \ {c} /\ c \in ClientsOf(nodes)
    BY <2>1, TailOwned
  <2>6. Open' = Open \ cs  BY <2>2, Closed
  <2>7. lost' = lost \cup ({c} \ cs)  BY <2>2, <2>4
  <2>. HIDE DEF c
  <2>8. Shared(Listener, ClientsOf(nodes'), ClientsOf(ws), lost', Open')
    BY <2>4, <2>5, <2>6, <2>7 DEF OwnOK, Shared
  <2>. QED  BY <2>1, <2>5, <2>8, OwnedNext DEF OwnOK, Listener
<1>22. CASE ServePiece
  <2>1. ClientsOf(nodes') = ClientsOf(nodes) /\ Owned(nodes')
    BY <1>22, NodeChanges, NodeChangedFacts DEF OwnOK
  <2>2. UNCHANGED <<peer, nc, lost, ws>>  BY <1>22 DEF ServePiece, KeepNet, KeepWs
  <2>. QED  BY <2>1, <2>2, OwnedNext DEF OwnOK, Listener, Open
<1>23. CASE EndFirst
  <2>1. ClientsOf(nodes') = ClientsOf(nodes) /\ Owned(nodes')
    BY <1>23, NodeChanges, NodeChangedFacts DEF OwnOK
  <2>2. UNCHANGED <<peer, nc, lost, ws>>  BY <1>23 DEF EndFirst, KeepNet, KeepWs
  <2>. QED  BY <2>1, <2>2, OwnedNext DEF OwnOK, Listener, Open
<1>24. CASE PollStart
  <2>1. UNCHANGED <<nodes, nc, lost>>  BY <1>24 DEF PollStart, KeepNet
  <2>2. CASE UNCHANGED <<ws, peer>>  BY <2>1, <2>2 DEF OwnOK, Listener, Open
  <2>3. CASE ws' = <<>> /\ peer' = Close(ClientsOf(ws))
    <3>1. Owned(ws') /\ ClientsOf(ws') = {}  BY <2>3, EmptyOwned
    <3>2. ClientsOf(ws) \ ClientsOf(ws') = ClientsOf(ws)  BY <3>1
    <3>. QED  BY <2>1, <2>3, <3>1, <3>2, SocketsClosed DEF OwnOK
  <2>. QED  BY <1>24, <2>2, <2>3 DEF PollStart, KeepNet, CloseSockets
<1>25. CASE PollEnd
  BY <1>25 DEF PollEnd, Goto, KeepNet, KeepWs, KeepScripts, KeepRest, Serving, Polled,
    OwnOK, Listener, Open
<1>26. CASE Poll
  <2>1. ClientsOf(ws') = ClientsOf(ws) /\ Owned(ws')  BY <1>26, OlderFacts DEF OwnOK
  <2>2. UNCHANGED <<nodes, peer, nc, lost>>  BY <1>26 DEF Poll, KeepNet
  <2>. QED  BY <2>1, <2>2, OwnedNext DEF OwnOK, Listener, Open
<1>27. CASE PollQuiet
  <2>1. ClientsOf(ws') \subseteq ClientsOf(ws) /\ Owned(ws')  BY <1>27, DroppedFacts
  <2>2. UNCHANGED <<nodes, nc, lost>> /\ peer' = Close(ClientsOf(ws) \ ClientsOf(ws'))
    BY <1>27 DEF PollQuiet
  <2>. QED  BY <2>1, <2>2, SocketsClosed DEF OwnOK
<1>28. CASE PollAborted
  <2>1. /\ ClientsOf(ws') \subseteq ClientsOf(ws) /\ Owned(ws')
        /\ ClientsOf(ws) \ ClientsOf(ws') = {ws[poll].clnt}
    BY <1>28, DroppedFacts
  <2>2. UNCHANGED <<nodes, nc, lost>> /\ peer' = Close({ws[poll].clnt})
    BY <1>28 DEF PollAborted
  <2>. QED  BY <2>1, <2>2, SocketsClosed DEF OwnOK
<1>29. CASE PollBroken
  <2>1. UNCHANGED <<nodes, nc, lost>>  BY <1>29 DEF PollBroken
  <2>2. CASE UNCHANGED <<ws, peer>>  BY <2>1, <2>2 DEF OwnOK, Listener, Open
  <2>3. CASE ws' = <<>> /\ peer' = Close(ClientsOf(ws))
    <3>1. Owned(ws') /\ ClientsOf(ws') = {}  BY <2>3, EmptyOwned
    <3>2. ClientsOf(ws) \ ClientsOf(ws') = ClientsOf(ws)  BY <3>1
    <3>. QED  BY <2>1, <2>3, <3>1, <3>2, SocketsClosed DEF OwnOK
  <2>. QED  BY <1>29, <2>2, <2>3 DEF PollBroken
<1>30. ASSUME NEW j \in 1 .. WsMax + 1, PollMessage(j) PROVE OwnOK'
  <2>1. ClientsOf(ws') = ClientsOf(ws) /\ Owned(ws')  BY <1>30, MessageFacts
  <2>2. UNCHANGED <<nodes, nc, lost>> /\ peer' = Close(ClientsOf(ws) \ ClientsOf(ws'))
    BY <1>30 DEF PollMessage
  <2>. QED  BY <2>1, <2>2, SocketsClosed DEF OwnOK
<1>31. CASE UNCHANGED vars
  BY <1>31 DEF vars, Goto, KeepNet, KeepWs, KeepScripts, KeepRest, Serving, Polled, OwnOK,
    Listener, Open
<1>. QED
  BY <1>1, <1>2, <1>3, <1>4, <1>5, <1>6, <1>7, <1>8, <1>9, <1>10, <1>11, <1>12, <1>13,
    <1>14, <1>15, <1>16, <1>17, <1>18, <1>19, <1>20, <1>21, <1>22, <1>23, <1>24, <1>25,
    <1>26, <1>27, <1>28, <1>29, <1>30, <1>31 DEF Next, Task, Request, Serve, Websockets

----------------------------------------------------------------------------
(* The answers and the websockets.                                          *)

LEMMA YieldStep ==
  ASSUME NodesOK, WsOK, PollOK, AgeOK, OwnOK, WebsocketsYield, [Next]_vars
  PROVE  WebsocketsYield'
<1>1. CASE StartLoop
  BY <1>1 DEF StartLoop, At, Goto, KeepNet, KeepWs, KeepScripts, KeepRest, CloseSockets,
    WebsocketsYield
<1>2. CASE AddCallback
  BY <1>2 DEF AddCallback, At, Goto, KeepNet, KeepWs, KeepScripts, KeepRest, CloseSockets,
    WebsocketsYield
<1>3. CASE Called
  BY <1>3 DEF Called, At, Goto, KeepNet, KeepWs, KeepScripts, KeepRest, CloseSockets,
    WebsocketsYield
<1>4. CASE Stop
  BY <1>4 DEF Stop, At, Goto, KeepNet, KeepWs, KeepScripts, KeepRest, CloseSockets,
    WebsocketsYield
<1>5. ASSUME NEW p \in Peers, Accept(p) PROVE WebsocketsYield'
  <2>1. UNCHANGED ws  BY <1>5 DEF Accept, KeepWs
  <2>2. CASE UNCHANGED nodes  BY <2>1, <2>2 DEF WebsocketsYield
  <2>3. CASE nodes' = Append(nodes, Node(Fresh))
    <3>1. Node(Fresh) \in [state : {"close"}, clnt : {Fresh}, uri : {"none"}, type : {"junk"},
                           level : {0}, left : {0}]
      BY DEF Node
    <3>2. /\ DOMAIN nodes = 1 .. Len(nodes) /\ Len(nodes) \in Nat
          /\ \A j \in 1 .. Len(nodes) + 1 : nodes'[j] = IF j <= Len(nodes) THEN nodes[j] ELSE Node(Fresh)
          /\ DOMAIN nodes' = 1 .. Len(nodes) + 1
      BY <2>3, LenProperties DEF NodesOK
    <3>3. \A j \in 1 .. Len(nodes) + 1 : j <= Len(nodes) => j \in 1 .. Len(nodes)  BY <3>2
    <3>. QED  BY <2>1, <3>1, <3>2, <3>3 DEF WebsocketsYield
  <2>. QED  BY <1>5, <2>2, <2>3 DEF Accept
<1>6. CASE Listen
  BY <1>6 DEF Listen, At, Goto, KeepNet, KeepWs, KeepScripts, KeepRest, CloseSockets,
    WebsocketsYield
<1>7. CASE ListenDown
  BY <1>7 DEF ListenDown, At, Goto, KeepNet, KeepWs, KeepScripts, KeepRest, CloseSockets,
    WebsocketsYield
<1>8. CASE LeaveLoop
  BY <1>8 DEF LeaveLoop, At, Goto, KeepNet, KeepWs, KeepScripts, KeepRest, CloseSockets,
    WebsocketsYield
<1>9. CASE AcceptNone
  BY <1>9 DEF AcceptNone, At, Goto, KeepNet, KeepWs, KeepScripts, KeepRest, CloseSockets,
    WebsocketsYield
<1>10. CASE LoopEnd
  BY <1>10 DEF LoopEnd, At, Goto, KeepNet, KeepWs, KeepScripts, KeepRest, CloseSockets,
    WebsocketsYield
<1>11. CASE Exit
  <2>1. ws' = <<>>  BY <1>11 DEF Exit, CloseSockets
  <2>. QED  BY <2>1 DEF WebsocketsYield
<1>12. CASE Leave
  BY <1>12 DEF Leave, At, Goto, KeepNet, KeepWs, KeepScripts, KeepRest, CloseSockets,
    WebsocketsYield
<1>13. CASE ReceiveFails
  BY <1>13 DEF ReceiveFails, At, Goto, KeepNet, KeepWs, KeepScripts, KeepRest,
    CloseSockets, WebsocketsYield
<1>14. CASE ReceiveStopped
  <2>. DEFINE e == [nodes[New] EXCEPT !.state = "close"]
  <2>1. New \in 1 .. Len(nodes) /\ nodes[New] \in NodeType /\ DOMAIN nodes = 1 .. Len(nodes)
    BY <1>14, NewFacts, LenProperties DEF ReceiveStopped, At, NodesOK
  <2>2. e.state = "close" /\ nodes' = [nodes EXCEPT ![New] = e] /\ UNCHANGED ws
    BY <1>14, <2>1 DEF ReceiveStopped, KeepWs, NodeType
  <2>. HIDE DEF e
  <2>3. \A j \in DOMAIN nodes' : j \in DOMAIN nodes /\ nodes'[j] = IF j = New THEN e ELSE nodes[j]
    BY <2>1, <2>2
  <2>. QED  BY <2>2, <2>3 DEF WebsocketsYield
<1>15. CASE ReceiveOther
  BY <1>15 DEF ReceiveOther, At, Goto, KeepNet, KeepWs, KeepScripts, KeepRest,
    CloseSockets, WebsocketsYield
<1>16. CASE RefuseWebsocket
  <2>1. nodes' = Front(nodes) /\ nodes # <<>> /\ UNCHANGED ws  BY <1>16, NewFacts DEF RefuseWebsocket, At, KeepWs
  <2>2. /\ Len(nodes) \in Nat /\ DOMAIN nodes = 1 .. Len(nodes)
        /\ Front(nodes) \in Seq(NodeType) /\ Len(Front(nodes)) = Len(nodes) - 1
        /\ \A j \in 1 .. Len(nodes) - 1 : Front(nodes)[j] = nodes[j]
    BY <2>1, FrontFacts, LenProperties DEF NodesOK
  <2>3. DOMAIN nodes' = 1 .. Len(nodes) - 1 /\ 1 .. Len(nodes) - 1 \subseteq 1 .. Len(nodes)
    BY <2>1, <2>2, LenProperties
  <2>. QED  BY <2>1, <2>2, <2>3 DEF WebsocketsYield
<1>17. CASE Wild
  BY <1>17 DEF Wild, At, Goto, KeepNet, KeepWs, KeepScripts, KeepRest, CloseSockets,
    WebsocketsYield
<1>18. ASSUME NEW dev \in BOOLEAN, NEW found \in BOOLEAN, AddWebsocket(dev, found) PROVE WebsocketsYield'
  <2>1. nodes' = Front(nodes) /\ ~ Len(nodes) > 1  BY <1>18 DEF AddWebsocket, Refuses
  <2>2. Len(nodes) \in Nat \ {0}  BY <1>18, NewFacts DEF AddWebsocket, At
  <2>3. nodes # <<>> /\ Front(nodes) \in Seq(NodeType) /\ Len(Front(nodes)) = 0
    BY <2>1, <2>2, FrontFacts DEF NodesOK
  <2>4. DOMAIN nodes' = {}  BY <2>1, <2>3, LenProperties
  <2>. QED  BY <2>4 DEF WebsocketsYield
<1>19. ASSUME NEW loads \in BOOLEAN, NEW left \in 0 .. MaxPieces, GetScript(loads, left) PROVE WebsocketsYield'
  <2>1. ws' = <<>>  BY <1>19 DEF GetScript, CloseSockets
  <2>. QED  BY <2>1 DEF WebsocketsYield
<1>20. ASSUME NEW found \in BOOLEAN, NEW left \in 0 .. MaxPieces, GetFile(found, left) PROVE WebsocketsYield'
  <2>1. ws' = <<>>  BY <1>20 DEF GetFile, CloseSockets
  <2>. QED  BY <2>1 DEF WebsocketsYield
<1>21. CASE DropFirst
  <2>1. nodes' = Tail(nodes) /\ nodes # <<>> /\ UNCHANGED ws  BY <1>21 DEF DropFirst, Serving, KeepWs
  <2>2. /\ Len(nodes) \in Nat /\ DOMAIN nodes = 1 .. Len(nodes)
        /\ Tail(nodes) \in Seq(NodeType) /\ Len(Tail(nodes)) = Len(nodes) - 1
        /\ \A j \in 1 .. Len(nodes) - 1 : Tail(nodes)[j] = nodes[j + 1]
    BY <2>1, TailFacts, LenProperties DEF NodesOK
  <2>3. DOMAIN nodes' = 1 .. Len(nodes) - 1 /\ \A j \in 1 .. Len(nodes) - 1 : j + 1 \in 1 .. Len(nodes)
    BY <2>1, <2>2, LenProperties
  <2>. QED  BY <2>1, <2>2, <2>3 DEF WebsocketsYield
<1>22. CASE ServePiece
  <2>1. nodes # <<>> /\ First.state = "pas" /\ UNCHANGED ws  BY <1>22 DEF ServePiece, Serving, KeepWs
  <2>2. 1 \in DOMAIN nodes  BY <2>1, FirstFacts
  <2>3. ws = <<>>  BY <2>1, <2>2 DEF WebsocketsYield, First
  <2>. QED  BY <2>1, <2>3 DEF WebsocketsYield
<1>23. CASE EndFirst
  <2>1. nodes # <<>> /\ First.state = "end" /\ UNCHANGED ws  BY <1>23 DEF EndFirst, Serving, KeepWs
  <2>2. 1 \in DOMAIN nodes  BY <2>1, FirstFacts
  <2>3. ws = <<>>  BY <2>1, <2>2 DEF WebsocketsYield, First
  <2>. QED  BY <2>1, <2>3 DEF WebsocketsYield
<1>24. CASE PollStart
  <2>1. UNCHANGED nodes /\ (ws' = <<>> \/ UNCHANGED ws)  BY <1>24 DEF PollStart, CloseSockets
  <2>. QED  BY <2>1 DEF WebsocketsYield
<1>25. CASE PollEnd
  BY <1>25 DEF PollEnd, At, Goto, KeepNet, KeepWs, KeepScripts, KeepRest, CloseSockets,
    WebsocketsYield
<1>26. CASE Poll
  <2>1. UNCHANGED nodes  BY <1>26 DEF Poll
  <2>2. Len(ws') = Len(ws) /\ ws' \in Seq(SocketType) /\ ws \in Seq(SocketType)
    BY <1>26, OlderFacts, YoungIsSocket DEF WsOK
  <2>3. ws = <<>> => ws' = <<>>
    <3>1. ws = <<>> => Len(ws) = 0  OBVIOUS
    <3>2. Len(ws') \in Nat /\ (Len(ws') = 0 => ws' = <<>>)  BY <2>2, LenProperties, EmptySeq
    <3>. QED  BY <2>2, <3>1, <3>2
  <2>. QED  BY <2>1, <2>3 DEF WebsocketsYield
<1>27. CASE PollQuiet
  <2>1. UNCHANGED nodes  BY <1>27 DEF PollQuiet
  <2>2. Len(ws') <= Len(ws) /\ ws' \in Seq(SocketType) /\ ws \in Seq(SocketType)
    BY <1>27, DroppedFacts, YoungIsSocket DEF WsOK
  <2>3. ws = <<>> => ws' = <<>>
    <3>1. ws = <<>> => Len(ws) = 0  OBVIOUS
    <3>2. Len(ws') \in Nat /\ (Len(ws') = 0 => ws' = <<>>)  BY <2>2, LenProperties, EmptySeq
    <3>. QED  BY <2>2, <3>1, <3>2
  <2>. QED  BY <2>1, <2>3 DEF WebsocketsYield
<1>28. CASE PollAborted
  <2>1. UNCHANGED nodes  BY <1>28 DEF PollAborted
  <2>2. Len(ws') <= Len(ws) /\ ws' \in Seq(SocketType) /\ ws \in Seq(SocketType)
    BY <1>28, DroppedFacts, YoungIsSocket DEF WsOK
  <2>3. ws = <<>> => ws' = <<>>
    <3>1. ws = <<>> => Len(ws) = 0  OBVIOUS
    <3>2. Len(ws') \in Nat /\ (Len(ws') = 0 => ws' = <<>>)  BY <2>2, LenProperties, EmptySeq
    <3>. QED  BY <2>2, <3>1, <3>2
  <2>. QED  BY <2>1, <2>3 DEF WebsocketsYield
<1>29. CASE PollBroken
  <2>1. UNCHANGED nodes /\ (ws' = <<>> \/ UNCHANGED ws)  BY <1>29 DEF PollBroken, CloseSockets
  <2>. QED  BY <2>1 DEF WebsocketsYield
<1>30. ASSUME NEW j \in 1 .. WsMax + 1, PollMessage(j) PROVE WebsocketsYield'
  <2>1. UNCHANGED nodes  BY <1>30 DEF PollMessage
  <2>2. Len(ws') = Len(ws) /\ ws' \in Seq(SocketType) /\ ws \in Seq(SocketType)
    BY <1>30, MessageFacts, YoungIsSocket DEF WsOK
  <2>3. ws = <<>> => ws' = <<>>
    <3>1. ws = <<>> => Len(ws) = 0  OBVIOUS
    <3>2. Len(ws') \in Nat /\ (Len(ws') = 0 => ws' = <<>>)  BY <2>2, LenProperties, EmptySeq
    <3>. QED  BY <2>2, <3>1, <3>2
  <2>. QED  BY <2>1, <2>3 DEF WebsocketsYield
<1>31. CASE UNCHANGED vars
  BY <1>31 DEF vars, At, Goto, KeepNet, KeepWs, KeepScripts, KeepRest, CloseSockets,
    WebsocketsYield
<1>. QED
  BY <1>1, <1>2, <1>3, <1>4, <1>5, <1>6, <1>7, <1>8, <1>9, <1>10, <1>11, <1>12, <1>13,
    <1>14, <1>15, <1>16, <1>17, <1>18, <1>19, <1>20, <1>21, <1>22, <1>23, <1>24, <1>25,
    <1>26, <1>27, <1>28, <1>29, <1>30, <1>31 DEF Next, Task, Request, Serve, Websockets

----------------------------------------------------------------------------
(* Whose script goes on.                                                    *)

OwnScript(n, s) == n.state = "pas" /\ n.level > 0 => n.level <= Len(s) /\ s[n.level] = n.clnt

ScriptsOK == ~ cut => \A j \in 1 .. Len(nodes) : OwnScript(nodes[j], stack)

\* Nodes that are those of before, on the same stack.
LEMMA SameScripts ==
  ASSUME ScriptsOK, UNCHANGED <<stack, cut>>,
         \A j \in 1 .. Len(nodes') :
           \/ OwnScript(nodes'[j], stack)
           \/ \E k \in 1 .. Len(nodes) : nodes'[j] = nodes[k]
  PROVE  ScriptsOK'
<1>. SUFFICES ASSUME ~ cut, NEW j \in 1 .. Len(nodes') PROVE OwnScript(nodes'[j], stack')
  BY DEF ScriptsOK, OwnScript
<1>. QED  BY DEF ScriptsOK

LEMMA ScriptStep ==
  ASSUME StackOK, NodesOK, OwnOK, ScriptsOK, [Next]_vars
  PROVE  ScriptsOK'
<1>1. CASE StartLoop
  BY <1>1 DEF StartLoop, Goto, KeepNet, KeepWs, KeepScripts, KeepRest, CloseSockets,
    ScriptsOK, OwnScript
<1>2. CASE AddCallback
  BY <1>2 DEF AddCallback, Goto, KeepNet, KeepWs, KeepScripts, KeepRest, CloseSockets,
    ScriptsOK, OwnScript
<1>3. CASE Called
  BY <1>3 DEF Called, Goto, KeepNet, KeepWs, KeepScripts, KeepRest, CloseSockets,
    ScriptsOK, OwnScript
<1>4. CASE Stop
  BY <1>4 DEF Stop, Goto, KeepNet, KeepWs, KeepScripts, KeepRest, CloseSockets, ScriptsOK,
    OwnScript
<1>5. ASSUME NEW p \in Peers, Accept(p) PROVE ScriptsOK'
  <2>1. UNCHANGED <<stack, cut>>  BY <1>5 DEF Accept, KeepScripts
  <2>2. CASE UNCHANGED nodes  BY <2>1, <2>2, SameScripts
  <2>3. CASE nodes' = Append(nodes, Node(Fresh))
    <3>1. OwnScript(Node(Fresh), stack)  BY DEF OwnScript, Node
    <3>. DEFINE e == Node(Fresh)
    <3>. HIDE DEF e
    <3>2. /\ Len(nodes') = Len(nodes) + 1 /\ Len(nodes) \in Nat
          /\ \A j \in 1 .. Len(nodes) + 1 : nodes'[j] = IF j <= Len(nodes) THEN nodes[j] ELSE e
      BY <2>3, LenProperties DEF NodesOK, e
    <3>3. \A j \in 1 .. Len(nodes) + 1 : j <= Len(nodes) => j \in 1 .. Len(nodes)  BY <3>2
    <3>4. OwnScript(e, stack)  BY <3>1 DEF e
    <3>. QED  BY <2>1, <3>2, <3>3, <3>4, SameScripts
  <2>. QED  BY <1>5, <2>2, <2>3 DEF Accept
<1>6. CASE Listen
  BY <1>6 DEF Listen, Goto, KeepNet, KeepWs, KeepScripts, KeepRest, CloseSockets,
    ScriptsOK, OwnScript
<1>7. CASE ListenDown
  BY <1>7 DEF ListenDown, Goto, KeepNet, KeepWs, KeepScripts, KeepRest, CloseSockets,
    ScriptsOK, OwnScript
<1>8. CASE LeaveLoop
  BY <1>8 DEF LeaveLoop, Goto, KeepNet, KeepWs, KeepScripts, KeepRest, CloseSockets,
    ScriptsOK, OwnScript
<1>9. CASE AcceptNone
  BY <1>9 DEF AcceptNone, Goto, KeepNet, KeepWs, KeepScripts, KeepRest, CloseSockets,
    ScriptsOK, OwnScript
<1>10. CASE LoopEnd
  BY <1>10 DEF LoopEnd, Goto, KeepNet, KeepWs, KeepScripts, KeepRest, CloseSockets,
    ScriptsOK, OwnScript
<1>11. CASE Exit
  <2>1. nodes' = <<>>  BY <1>11 DEF Exit
  <2>. QED  BY <2>1, EmptySeq DEF ScriptsOK
<1>12. CASE Leave
  BY <1>12 DEF Leave, Goto, KeepNet, KeepWs, KeepScripts, KeepRest, CloseSockets,
    ScriptsOK, OwnScript
<1>13. CASE ReceiveFails
  BY <1>13 DEF ReceiveFails, Goto, KeepNet, KeepWs, KeepScripts, KeepRest, CloseSockets,
    ScriptsOK, OwnScript
<1>14. CASE ReceiveStopped
  <2>. DEFINE e == [nodes[New] EXCEPT !.state = "close"]
  <2>1. New \in 1 .. Len(nodes) /\ nodes[New] \in NodeType /\ nodes \in Seq(NodeType)
    BY <1>14, NewFacts DEF ReceiveStopped, At, NodesOK
  <2>2. /\ e.state = "close" /\ e \in NodeType /\ nodes' = [nodes EXCEPT ![New] = e]
        /\ UNCHANGED <<stack, cut>>
    BY <1>14, <2>1 DEF ReceiveStopped, KeepScripts, NodeType
  <2>. HIDE DEF e
  <2>3. /\ Len(nodes') = Len(nodes)
        /\ \A j \in 1 .. Len(nodes) : nodes'[j] = IF j = New THEN e ELSE nodes[j]
    BY <2>1, <2>2, ExceptSeq
  <2>4. OwnScript(e, stack)  BY <2>2 DEF OwnScript
  <2>. QED  BY <2>2, <2>3, <2>4, SameScripts
<1>15. CASE ReceiveOther
  BY <1>15 DEF ReceiveOther, Goto, KeepNet, KeepWs, KeepScripts, KeepRest, CloseSockets,
    ScriptsOK, OwnScript
<1>16. CASE RefuseWebsocket
  <2>1. nodes # <<>> /\ nodes' = Front(nodes) /\ UNCHANGED <<stack, cut>>
    BY <1>16, NewFacts DEF RefuseWebsocket, At, KeepScripts
  <2>2. /\ Len(nodes') = Len(nodes) - 1 /\ Len(nodes) \in Nat
        /\ \A j \in 1 .. Len(nodes) - 1 : nodes'[j] = nodes[j] /\ j \in 1 .. Len(nodes)
    BY <2>1, FrontFacts DEF NodesOK
  <2>. QED  BY <2>1, <2>2, SameScripts
<1>17. CASE Wild
  BY <1>17 DEF Wild, Goto, KeepNet, KeepWs, KeepScripts, KeepRest, CloseSockets,
    ScriptsOK, OwnScript
<1>18. ASSUME NEW dev \in BOOLEAN, NEW found \in BOOLEAN, AddWebsocket(dev, found) PROVE ScriptsOK'
  <2>1. nodes # <<>> /\ nodes' = Front(nodes) /\ UNCHANGED <<stack, cut>>
    BY <1>18, NewFacts DEF AddWebsocket, At, KeepScripts
  <2>2. /\ Len(nodes') = Len(nodes) - 1 /\ Len(nodes) \in Nat
        /\ \A j \in 1 .. Len(nodes) - 1 : nodes'[j] = nodes[j] /\ j \in 1 .. Len(nodes)
    BY <2>1, FrontFacts DEF NodesOK
  <2>. QED  BY <2>1, <2>2, SameScripts
<1>19. ASSUME NEW loads \in BOOLEAN, NEW left \in 0 .. MaxPieces, GetScript(loads, left) PROVE ScriptsOK'
  <2>. DEFINE begun(state, level) == [nodes[New] EXCEPT !.uri = "script", !.type = "get",
                                        !.state = state, !.level = level, !.left = left]
              c == Last(nodes).clnt
  <2>1. /\ New \in 1 .. Len(nodes) /\ nodes[New] \in NodeType /\ nodes \in Seq(NodeType)
        /\ c = nodes[New].clnt /\ c \in Conns
    BY <1>19, NewFacts DEF GetScript, At, NodesOK
  <2>2. stack \in Seq(Conns \cup {NULL}) /\ Len(stack) \in Nat /\ 0 \in 0 .. MaxStack + 1
    BY LenProperties, WebServerAssumption DEF StackOK
  <2>3. \A state \in {"close", "pas", "end"}, level \in 0 .. MaxStack + 1 :
          /\ begun(state, level) \in NodeType /\ begun(state, level).state = state
          /\ begun(state, level).level = level /\ begun(state, level).clnt = c
    BY <2>1 DEF NodeType
  <2>4. UNCHANGED cut  BY <1>19 DEF GetScript
  <2>5. CASE loads
    <3>1. /\ Len(stack) < MaxStack
          /\ \/ /\ nodes' = [nodes EXCEPT ![New] = begun("pas", Len(stack) + 1)]
                /\ stack' = Append(stack, c)
             \/ /\ nodes' = [nodes EXCEPT ![New] = begun("end", Len(stack) + 1)]
                /\ UNCHANGED stack
      <4>1. Len(stack) < MaxStack  BY <1>19, <2>5 DEF GetScript
      <4>2. PICK net \in Outcomes :
              /\ nodes' = [nodes EXCEPT ![New] =
                             begun(IF net = "fine" THEN "pas" ELSE "end", Len(stack) + 1)]
              /\ stack' = IF net = "fine" THEN Append(stack, c) ELSE stack
        BY <1>19, <2>5 DEF GetScript, Chunk
      <4>. HIDE DEF begun, c
      <4>. QED  BY <4>1, <4>2
    <3>2. Len(stack) + 1 \in 0 .. MaxStack + 1  BY <2>2, <3>1, WebServerAssumption
    <3>. DEFINE p == begun("pas", Len(stack) + 1)
                f == begun("end", Len(stack) + 1)
    <3>3. /\ p \in NodeType /\ p.state = "pas" /\ p.level = Len(stack) + 1 /\ p.clnt = c
          /\ f \in NodeType /\ f.state = "end"
      <4>. HIDE DEF begun, c
      <4>. QED  BY <2>3, <3>2
    <3>4. \/ nodes' = [nodes EXCEPT ![New] = p] /\ stack' = Append(stack, c)
          \/ nodes' = [nodes EXCEPT ![New] = f] /\ UNCHANGED stack
      BY <3>1
    <3>. HIDE DEF p, f, begun, c
    <3>5. CASE nodes' = [nodes EXCEPT ![New] = p] /\ stack' = Append(stack, c)
      <4>1. /\ Len(nodes') = Len(nodes)
            /\ \A j \in 1 .. Len(nodes) : nodes'[j] = IF j = New THEN p ELSE nodes[j]
        BY <2>1, <3>3, <3>5, ExceptSeq
      <4>2. /\ Len(stack') = Len(stack) + 1 /\ stack'[Len(stack) + 1] = c
            /\ \A k \in 1 .. Len(stack) : stack'[k] = stack[k]
        <5>1. c \in Conns \cup {NULL}  BY <2>1
        <5>. QED  BY <2>2, <3>5, <5>1, AppendProperties
      <4>3. OwnScript(p, stack')  BY <2>2, <3>3, <4>2 DEF OwnScript
      <4>4. SUFFICES ASSUME ~ cut, NEW j \in 1 .. Len(nodes), j # New
                     PROVE  OwnScript(nodes[j], stack')
        BY <2>4, <4>1, <4>3 DEF ScriptsOK
      <4>5. OwnScript(nodes[j], stack)  BY <4>4 DEF ScriptsOK
      <4>6. nodes[j].level \in Nat
        <5>1. nodes[j] \in NodeType  BY <2>1, ElementOfSeq
        <5>. QED  BY <5>1, WebServerAssumption DEF NodeType
      <4>. QED  BY <2>2, <4>2, <4>5, <4>6 DEF OwnScript
    <3>6. CASE nodes' = [nodes EXCEPT ![New] = f] /\ UNCHANGED stack
      <4>1. /\ Len(nodes') = Len(nodes)
            /\ \A j \in 1 .. Len(nodes) : nodes'[j] = IF j = New THEN f ELSE nodes[j]
        BY <2>1, <3>3, <3>6, ExceptSeq
      <4>2. OwnScript(f, stack)  BY <3>3 DEF OwnScript
      <4>. QED  BY <2>4, <3>6, <4>1, <4>2, SameScripts
    <3>. QED  BY <3>4, <3>5, <3>6
  <2>6. CASE ~ loads
    <3>1. /\ UNCHANGED stack
          /\ \E state \in {"end", "close"} : nodes' = [nodes EXCEPT ![New] = begun(state, 0)]
      BY <1>19, <2>6 DEF GetScript
    <3>. HIDE DEF begun, c
    <3>2. PICK state \in {"end", "close"} : nodes' = [nodes EXCEPT ![New] = begun(state, 0)]
      BY <3>1
    <3>. DEFINE e == begun(state, 0)
    <3>3. e \in NodeType /\ e.level = 0 /\ nodes' = [nodes EXCEPT ![New] = e]
      BY <2>2, <2>3, <3>2
    <3>. HIDE DEF e
    <3>4. /\ Len(nodes') = Len(nodes)
          /\ \A j \in 1 .. Len(nodes) : nodes'[j] = IF j = New THEN e ELSE nodes[j]
      BY <2>1, <3>3, ExceptSeq
    <3>5. OwnScript(e, stack)  BY <3>3 DEF OwnScript
    <3>. QED  BY <2>4, <3>1, <3>4, <3>5, SameScripts
  <2>. QED  BY <2>5, <2>6
<1>20. ASSUME NEW found \in BOOLEAN, NEW left \in 0 .. MaxPieces, GetFile(found, left) PROVE ScriptsOK'
  <2>1. New \in 1 .. Len(nodes) /\ nodes[New] \in NodeType /\ nodes \in Seq(NodeType)
        /\ nodes[New].level = 0
    BY <1>20, NewFacts DEF GetFile, At, NodesOK
  <2>2. UNCHANGED <<stack, cut>> /\ nodes' = [nodes EXCEPT ![New] = nodes'[New]]
        /\ nodes'[New] \in NodeType /\ nodes'[New].level = 0
    <3>. DEFINE begun(state) == [nodes[New] EXCEPT !.uri = "file", !.type = "get",
                                   !.left = left, !.state = state]
    <3>1. PICK state \in {"close", "pas"} : nodes' = [nodes EXCEPT ![New] = begun(state)]
      BY <1>20 DEF GetFile
    <3>2. begun(state) \in NodeType /\ begun(state).level = 0  BY <2>1 DEF NodeType
    <3>. HIDE DEF begun
    <3>3. nodes'[New] = begun(state)  BY <2>1, <3>1, ExceptSeq, <3>2
    <3>. QED  BY <1>20, <3>1, <3>2, <3>3 DEF GetFile, KeepScripts
  <2>. DEFINE e == nodes'[New]
  <2>3. OwnScript(e, stack)  BY <2>2 DEF OwnScript
  <2>4. e \in NodeType /\ nodes' = [nodes EXCEPT ![New] = e]  BY <2>2
  <2>. HIDE DEF e
  <2>5. /\ Len(nodes') = Len(nodes)
        /\ \A j \in 1 .. Len(nodes) : nodes'[j] = IF j = New THEN e ELSE nodes[j]
    BY <2>1, <2>4, ExceptSeq
  <2>. QED  BY <2>2, <2>3, <2>5, SameScripts
<1>21. CASE DropFirst
  <2>1. nodes # <<>> /\ nodes' = Tail(nodes) /\ UNCHANGED <<stack, cut>>
    BY <1>21 DEF DropFirst, Serving, KeepScripts
  <2>2. /\ Len(nodes') = Len(nodes) - 1 /\ Len(nodes) \in Nat
        /\ \A j \in 1 .. Len(nodes) - 1 : nodes'[j] = nodes[j + 1] /\ j + 1 \in 1 .. Len(nodes)
    BY <2>1, TailFacts DEF NodesOK
  <2>. QED  BY <2>1, <2>2, SameScripts
<1>22. CASE ServePiece
  <2>. DEFINE ends == [First EXCEPT !.state = "end"]
              less == [First EXCEPT !.left = First.left - 1]
  <2>1. /\ 1 \in 1 .. Len(nodes) /\ First \in NodeType /\ nodes \in Seq(NodeType)
        /\ First.left \in Nat /\ MaxPieces \in Nat
    BY <1>22, FirstFacts, WebServerAssumption DEF ServePiece, Serving, NodesOK
  <2>2. ends \in NodeType /\ ends.state = "end"  BY <2>1 DEF NodeType
  <2>3. First.left > 0 => less \in NodeType
    <3>1. First.left > 0 => First.left - 1 \in 0 .. MaxPieces  BY <2>1 DEF NodeType
    <3>. QED  BY <2>1, <3>1 DEF NodeType
  <2>4. less.state = First.state /\ less.level = First.level /\ less.clnt = First.clnt
    BY <2>1 DEF NodeType
  <2>5. /\ \/ nodes' = [nodes EXCEPT ![1] = ends]
           \/ First.left > 0 /\ nodes' = [nodes EXCEPT ![1] = less]
    BY <1>22 DEF ServePiece, First
  <2>. HIDE DEF ends, less
  <2>6. OwnScript(ends, stack)  BY <2>2 DEF OwnScript
  <2>7. ~ cut => OwnScript(less, stack)  BY <2>1, <2>4 DEF OwnScript, ScriptsOK, First
  <2>8. PICK e \in NodeType : /\ nodes' = [nodes EXCEPT ![1] = e]
                              /\ ~ cut => OwnScript(e, stack)
    BY <2>2, <2>3, <2>5, <2>6, <2>7
  <2>9. /\ Len(nodes') = Len(nodes)
        /\ \A j \in 1 .. Len(nodes) : nodes'[j] = IF j = 1 THEN e ELSE nodes[j]
    BY <2>1, <2>8, ExceptSeq
  <2>10. UNCHANGED <<stack, cut>>  BY <1>22 DEF ServePiece, KeepScripts
  <2>11. cut => ScriptsOK'  BY <2>10 DEF ScriptsOK
  <2>. QED  BY <2>8, <2>9, <2>11, <2>10, SameScripts
<1>23. CASE EndFirst
  <2>. DEFINE e == Ended(First)
              L == First.level
  <2>1. /\ 1 \in 1 .. Len(nodes) /\ First \in NodeType /\ nodes \in Seq(NodeType)
        /\ L \in Nat /\ Len(nodes) \in Nat /\ DOMAIN nodes = 1 .. Len(nodes)
    BY <1>23, FirstFacts DEF EndFirst, Serving, NodesOK, First
  <2>2. e \in NodeType /\ e.state = "close"
    <3>1. 0 \in 0 .. MaxStack + 1  BY WebServerAssumption
    <3>. QED  BY <2>1, <3>1 DEF NodeType, Ended
  <2>3. /\ nodes' = [nodes EXCEPT ![1] = e]
        /\ stack' = IF L > 0 THEN Settop(stack, L - 1) ELSE stack
        /\ ~ cut' => /\ ~ cut
                     /\ L > 0 => \A j \in 2 .. Len(nodes) : ~ nodes[j].level >= L
    BY <1>23 DEF EndFirst, First
  <2>. HIDE DEF e, L
  <2>4. /\ Len(nodes') = Len(nodes)
        /\ \A j \in 1 .. Len(nodes) : nodes'[j] = IF j = 1 THEN e ELSE nodes[j]
    BY <2>1, <2>2, <2>3, ExceptSeq
  <2>5. SUFFICES ASSUME ~ cut', NEW j \in 1 .. Len(nodes) PROVE OwnScript(nodes'[j], stack')
    BY <2>4 DEF ScriptsOK, OwnScript
  <2>6. CASE j = 1  BY <2>2, <2>4, <2>6 DEF OwnScript
  <2>7. CASE j # 1 /\ L > 0
    <3>1. j \in 2 .. Len(nodes)  BY <2>1, <2>7
    <3>2. nodes[j] \in NodeType /\ nodes[j].level \in Nat
      <4>1. nodes[j] \in NodeType  BY <2>1, ElementOfSeq
      <4>. QED  BY <4>1, WebServerAssumption DEF NodeType
    <3>3. nodes[j].level <= L - 1 /\ L - 1 \in Nat  BY <2>1, <2>3, <2>5, <2>7, <3>1, <3>2
    <3>4. \A k \in 1 .. Len(stack) : k <= L - 1 => k <= Len(stack') /\ stack'[k] = stack[k]
      BY <2>3, <2>7, <3>3, SettopFacts DEF StackOK
    <3>5. OwnScript(nodes[j], stack)  BY <2>3, <2>5 DEF ScriptsOK
    <3>6. Len(stack) \in Nat  BY LenProperties DEF StackOK
    <3>7. OwnScript(nodes[j], stack')
      <4>. SUFFICES ASSUME nodes[j].state = "pas", nodes[j].level > 0
           PROVE nodes[j].level <= Len(stack') /\ stack'[nodes[j].level] = nodes[j].clnt
        BY DEF OwnScript
      <4>1. nodes[j].level \in 1 .. Len(stack) /\ stack[nodes[j].level] = nodes[j].clnt
        BY <3>2, <3>5, <3>6 DEF OwnScript
      <4>. QED  BY <3>3, <3>4, <4>1
    <3>. QED  BY <2>4, <2>7, <3>7
  <2>8. CASE j # 1 /\ ~ L > 0
    <3>1. UNCHANGED stack /\ nodes'[j] = nodes[j] /\ ~ cut  BY <2>3, <2>4, <2>5, <2>8
    <3>. QED  BY <3>1 DEF ScriptsOK
  <2>. QED  BY <2>6, <2>7, <2>8
<1>24. CASE PollStart
  BY <1>24 DEF PollStart, Goto, KeepNet, KeepWs, KeepScripts, KeepRest, CloseSockets,
    ScriptsOK, OwnScript
<1>25. CASE PollEnd
  BY <1>25 DEF PollEnd, Goto, KeepNet, KeepWs, KeepScripts, KeepRest, CloseSockets,
    ScriptsOK, OwnScript
<1>26. CASE Poll
  BY <1>26 DEF Poll, Goto, KeepNet, KeepWs, KeepScripts, KeepRest, CloseSockets,
    ScriptsOK, OwnScript
<1>27. CASE PollQuiet
  BY <1>27 DEF PollQuiet, Goto, KeepNet, KeepWs, KeepScripts, KeepRest, CloseSockets,
    ScriptsOK, OwnScript
<1>28. CASE PollAborted
  BY <1>28 DEF PollAborted, Goto, KeepNet, KeepWs, KeepScripts, KeepRest, CloseSockets,
    ScriptsOK, OwnScript
<1>29. CASE PollBroken
  BY <1>29 DEF PollBroken, Goto, KeepNet, KeepWs, KeepScripts, KeepRest, CloseSockets,
    ScriptsOK, OwnScript
<1>30. ASSUME NEW j \in 1 .. WsMax + 1, PollMessage(j) PROVE ScriptsOK'
  BY <1>30 DEF PollMessage, Goto, KeepNet, KeepWs, KeepScripts, KeepRest, CloseSockets,
    ScriptsOK, OwnScript
<1>31. CASE UNCHANGED vars
  BY <1>31 DEF vars, Goto, KeepNet, KeepWs, KeepScripts, KeepRest, CloseSockets,
    ScriptsOK, OwnScript
<1>. QED
  BY <1>1, <1>2, <1>3, <1>4, <1>5, <1>6, <1>7, <1>8, <1>9, <1>10, <1>11, <1>12, <1>13,
    <1>14, <1>15, <1>16, <1>17, <1>18, <1>19, <1>20, <1>21, <1>22, <1>23, <1>24, <1>25,
    <1>26, <1>27, <1>28, <1>29, <1>30, <1>31 DEF Next, Task, Request, Serve, Websockets

----------------------------------------------------------------------------
(* The theorems.                                                            *)

LEMMA InitInv == Init => Inv /\ WebsocketsYield /\ ScriptsOK
<1>. SUFFICES ASSUME Init PROVE Inv /\ WebsocketsYield /\ ScriptsOK  OBVIOUS
<1>1. CtlOK
  <2>1. cut \in BOOLEAN /\ wild \in BOOLEAN  BY Zenon DEF Init
  <2>2. run = 0 /\ mode = "none" /\ pc = "off" /\ saved = 0  BY DEF Init
  <2>. QED  BY <2>1, <2>2 DEF CtlOK
<1>2. NetOK /\ Open = {}
  BY DEF Init, NetOK, Open
<1>3. StackOK /\ NodesOK /\ WsOK /\ PollOK
  <2>1. \A S : <<>> \in Seq(S)  BY EmptySeq
  <2>. QED  BY <2>1, WebServerAssumption DEF Init, StackOK, NodesOK, WsOK, PollOK
<1>4. AgeOK /\ WebsocketsYield /\ ScriptsOK
  BY DEF Init, AgeOK, WebsocketsYield, ScriptsOK
<1>5. OwnOK
  <2>1. Owned(nodes) /\ Owned(ws) /\ ClientsOf(nodes) = {} /\ ClientsOf(ws) = {}
    BY EmptyOwned DEF Init
  <2>2. Listener = {} /\ lost = {}  BY DEF Init, Listener
  <2>. QED  BY <1>2, <2>1, <2>2 DEF OwnOK, Shared
<1>. QED  BY <1>1, <1>2, <1>3, <1>4, <1>5 DEF Inv

LEMMA InvStep == Inv /\ [Next]_vars => Inv'
<1>. SUFFICES ASSUME Inv, [Next]_vars PROVE Inv'  OBVIOUS
<1>1. CtlOK /\ NetOK /\ StackOK /\ NodesOK /\ WsOK /\ PollOK /\ AgeOK /\ OwnOK  BY DEF Inv
<1>2. CtlOK'  BY <1>1, CtlStep
<1>3. NetOK'  BY <1>1, NetStep
<1>4. StackOK'  BY <1>1, StackStep
<1>5. NodesOK'  BY <1>1, NodesStep
<1>6. WsOK'  BY <1>1, WsStep
<1>7. PollOK'  BY <1>1, PollStep
<1>8. AgeOK'  BY <1>1, AgeStep
<1>9. OwnOK'  BY <1>1, OwnStep
<1>. QED  BY <1>2, <1>3, <1>4, <1>5, <1>6, <1>7, <1>8, <1>9 DEF Inv

(* The inductive invariant holds in every reachable state.                  *)
THEOREM Invariance == Spec => []Inv
<1>1. Init => Inv  BY InitInv
<1>. QED  BY <1>1, InvStep, PTL DEF Spec

LEMMA InvOwned == Inv => ConnectionsOwned
<1>. SUFFICES ASSUME Inv PROVE ConnectionsOwned  OBVIOUS
<1>. DEFINE a == {nc} \ {NULL}
            b == ClientsOf(nodes)
            c == ClientsOf(ws)
            owned == <<a, b, c, lost>>
<1>1. /\ Open = a \cup b \cup c \cup lost
      /\ a \cap b = {} /\ a \cap c = {} /\ a \cap lost = {}
      /\ b \cap c = {} /\ b \cap lost = {} /\ c \cap lost = {}
  BY DEF Inv, OwnOK, Shared, Listener
<1>. HIDE DEF a, b, c
<1>2. Open = UNION Range(owned)
  <2>1. DOMAIN owned = {1, 2, 3, 4}  BY DEF owned
  <2>2. owned[1] = a /\ owned[2] = b /\ owned[3] = c /\ owned[4] = lost  BY DEF owned
  <2>3. Range(owned) = {owned[i] : i \in {1, 2, 3, 4}}  BY <2>1 DEF Range
  <2>. HIDE DEF owned
  <2>4. Range(owned) = {a, b, c, lost}  BY <2>2, <2>3
  <2>. QED  BY <1>1, <2>4
<1>3. ASSUME NEW j \in 1 .. 4, NEW k \in 1 .. 4, j # k PROVE owned[j] \cap owned[k] = {}
  <2>1. j \in {1, 2, 3, 4} /\ k \in {1, 2, 3, 4}  OBVIOUS
  <2>2. owned[1] = a /\ owned[2] = b /\ owned[3] = c /\ owned[4] = lost  BY DEF owned
  <2>3. /\ b \cap a = {} /\ c \cap a = {} /\ lost \cap a = {}
        /\ c \cap b = {} /\ lost \cap b = {} /\ lost \cap c = {}
    BY <1>1
  <2>. HIDE DEF owned
  <2>. QED  BY <1>1, <1>3, <2>1, <2>2, <2>3
<1>4. \A s \in {nodes, ws} : IsInjective([j \in DOMAIN s |-> s[j].clnt])
  <2>1. /\ DOMAIN nodes = 1 .. Len(nodes) /\ DOMAIN ws = 1 .. Len(ws)
        /\ Owned(nodes) /\ Owned(ws)
    BY LenProperties DEF Inv, NodesOK, WsOK, OwnOK
  <2>. SUFFICES ASSUME NEW s \in {nodes, ws}
                PROVE  IsInjective([j \in DOMAIN s |-> s[j].clnt])
    OBVIOUS
  <2>2. DOMAIN s = 1 .. Len(s) /\ Owned(s)  BY <2>1
  <2>. QED  BY <2>2 DEF Owned, IsInjective
<1>. QED  BY <1>2, <1>3, <1>4 DEF ConnectionsOwned, owned, a, b, c

(* The tables stay within their sizes and every value in its type.          *)
THEOREM Types == Spec => []TypeOK
<1>1. Inv => TypeOK
  BY DEF Inv, CtlOK, NetOK, StackOK, NodesOK, WsOK, PollOK, TypeOK
<1>. QED  BY <1>1, Invariance, PTL

(* Every open connection is in exactly one place, and is closed once.       *)
THEOREM Owners == Spec => []ConnectionsOwned
BY InvOwned, Invariance, PTL

(* No answer is on its way while there are websockets.                      *)
THEOREM Yielding == Spec => []WebsocketsYield
<1>1. Init => WebsocketsYield  BY InitInv
<1>2. Inv /\ WebsocketsYield /\ [Next]_vars => WebsocketsYield'
  BY YieldStep DEF Inv
<1>. QED  BY <1>1, <1>2, Invariance, PTL DEF Spec

(* A script that goes on is the one of its own request.                     *)
THEOREM Scripts == Spec => []RunsOwnScript
<1>1. Init => ScriptsOK  BY InitInv
<1>2. Inv /\ ScriptsOK /\ [Next]_vars => ScriptsOK'
  BY ScriptStep DEF Inv
<1>3. Inv /\ ScriptsOK => RunsOwnScript
  <2>. SUFFICES ASSUME Inv, ScriptsOK PROVE RunsOwnScript  OBVIOUS
  <2>1. DOMAIN nodes = 1 .. Len(nodes)  BY LenProperties DEF Inv, NodesOK
  <2>. QED  BY <2>1 DEF ScriptsOK, OwnScript, RunsOwnScript
<1>. QED  BY <1>1, <1>2, <1>3, Invariance, PTL DEF Spec

(* Polling a websocket closes no other one, unless the network broke.       *)
THEOREM Spares == Spec => PollSparesOthers
<1>. DEFINE Step == pc = "wsrecv" /\ run' # 4 =>
                      ClientsOf(ws) \ ClientsOf(ws') \subseteq {ws[poll].clnt}
<1>1. Inv /\ [Next]_vars => Step
  <2>. SUFFICES ASSUME Inv, [Next]_vars, pc = "wsrecv", run' # 4
                PROVE  ClientsOf(ws) \ ClientsOf(ws') \subseteq {ws[poll].clnt}
    OBVIOUS
  <2>1. WsOK /\ PollOK /\ AgeOK /\ OwnOK  BY DEF Inv
  <2>2. CASE UNCHANGED ws  BY <2>2
  <2>3. ASSUME NEW j \in 1 .. WsMax + 1, PollMessage(j)
        PROVE  ClientsOf(ws) \ ClientsOf(ws') \subseteq {ws[poll].clnt}
    BY <2>1, <2>3, MessageFacts
  <2>4. CASE PollQuiet \/ PollAborted  BY <2>1, <2>4, DroppedFacts
  <2>5. ASSUME ~ UNCHANGED ws, ~ (PollQuiet \/ PollAborted)
        PROVE  \E j \in 1 .. WsMax + 1 : PollMessage(j)
    <3>1. ~ PollBroken /\ ~ (\E dev, found \in BOOLEAN : AddWebsocket(dev, found))
      BY DEF PollBroken, AddWebsocket, At
    <3>2. /\ ~ (\E loads \in BOOLEAN, left \in 0 .. MaxPieces : GetScript(loads, left))
          /\ ~ (\E found \in BOOLEAN, left \in 0 .. MaxPieces : GetFile(found, left))
          /\ ~ PollStart /\ ~ PollEnd /\ ~ Poll /\ ~ Exit
      BY DEF GetScript, GetFile, PollStart, PollEnd, Poll, Exit, At
    <3>3. ~ (DropFirst \/ ServePiece \/ EndFirst)
      BY DEF DropFirst, ServePiece, EndFirst, Serving, At
    <3>4. ~ (\/ StartLoop \/ AddCallback \/ Called \/ Stop \/ \E p \in Peers : Accept(p)
             \/ Listen \/ ListenDown \/ LeaveLoop \/ AcceptNone \/ LoopEnd \/ Leave)
      BY <2>5 DEF StartLoop, AddCallback, Called, Stop, Accept, Listen, ListenDown, LeaveLoop,
                  AcceptNone, LoopEnd, Leave, KeepWs
    <3>5. ~ (\/ ReceiveFails \/ ReceiveStopped \/ ReceiveOther \/ RefuseWebsocket \/ Wild)
      BY <2>5 DEF ReceiveFails, ReceiveStopped, ReceiveOther, RefuseWebsocket, Wild, KeepWs
    <3>6. ~ UNCHANGED vars  BY <2>5 DEF vars
    <3>. QED  BY <2>5, <3>1, <3>2, <3>3, <3>4, <3>5, <3>6 DEF Next, Task, Request, Serve, Websockets
  <2>. QED  BY <2>2, <2>3, <2>4, <2>5
<1>2. Step => [Step]_vars  OBVIOUS
<1>3. Inv /\ [Next]_vars => [Step]_vars  BY <1>1, <1>2
<1>. QED  BY <1>3, Invariance, PTL DEF Spec, PollSparesOthers

----------------------------------------------------------------------------
(* The connection that listens.                                             *)

Inside == {"loop", "recv", "tail", "ws", "wsrecv", "end", "exit"}

ListenOK ==
  /\ nc # NULL => peer[nc] = Listening
  /\ pc \in Inside => nc # NULL

\* An open connection is closed or stays what it is; another one is given its peer only
\* when it is free.
LEMMA PeersKept ==
  ASSUME NetOK, [Next]_vars, NEW c \in Open
  PROVE  peer'[c] \in {peer[c], NULL}
<1>1. CASE UNCHANGED vars  BY <1>1 DEF vars
<1>2. CASE ~ UNCHANGED vars
  <2>1. \/ peer' = peer
        \/ \E cs : peer' = Close(cs)
        \/ Open # Conns /\ \E p : peer' = [peer EXCEPT ![Fresh] = p]
    BY <1>2 DEF Next, Task, Request, Serve, Websockets, StartLoop, AddCallback, Called, Stop,
       Listen, ListenDown, LeaveLoop, AcceptNone, Accept, LoopEnd, Exit, Leave, ReceiveFails,
       ReceiveStopped, ReceiveOther, RefuseWebsocket, Wild, AddWebsocket, GetScript, GetFile,
       DropFirst, ServePiece, EndFirst, PollStart, PollEnd, Poll, PollQuiet, PollAborted,
       PollBroken, PollMessage, KeepNet
  <2>2. CASE \E cs : peer' = Close(cs)  BY <2>2 DEF Close, Open
  <2>3. CASE Open # Conns /\ \E p : peer' = [peer EXCEPT ![Fresh] = p]
    BY <2>3, FreshIsFree DEF NetOK, Open
  <2>. QED  BY <2>1, <2>2, <2>3
<1>. QED  BY <1>1, <1>2

LEMMA ListenStep ==
  ASSUME Inv, Inv', ListenOK, [Next]_vars
  PROVE  ListenOK'
<1>1. NetOK /\ NetOK' /\ OwnOK /\ OwnOK'  BY DEF Inv
<1>2. nc # NULL => nc \in Open  BY <1>1 DEF OwnOK, Shared, Listener
<1>3. nc' # NULL => nc' \in Open'
  <2>1. Shared(Listener', ClientsOf(nodes'), ClientsOf(ws'), lost', Open')
    BY <1>1 DEF OwnOK, Shared, ClientsOf
  <2>. QED  BY <2>1 DEF Shared, Listener
<1>4. CASE nc' = nc
  <2>1. nc # NULL => peer'[nc] = Listening
    BY <1>1, <1>2, <1>3, <1>4, PeersKept DEF ListenOK, Open
  <2>2. pc' \in Inside => pc \in Inside \/ Listen
    BY DEF Inside, vars, Next, Task, Request, Serve, Websockets, StartLoop, AddCallback, Called,
       Stop, ListenDown, LeaveLoop, AcceptNone, Accept, LoopEnd, Exit, Leave, ReceiveFails,
       ReceiveStopped, ReceiveOther, RefuseWebsocket, Wild, AddWebsocket, GetScript, GetFile,
       DropFirst, ServePiece, EndFirst, PollStart, PollEnd, Poll, PollQuiet, PollAborted,
       PollBroken, PollMessage, At, Goto, Serving, Polled
  <2>3. pc' \in Inside /\ Listen => nc' # NULL
    <3>1. ASSUME Listen, pc' \in Inside  PROVE Open # Conns /\ nc' = Fresh
      BY <3>1 DEF Listen, Goto, Inside
    <3>. QED  BY <1>1, <3>1, FreshIsFree, WebServerAssumption
  <2>. QED  BY <1>4, <2>1, <2>2, <2>3 DEF ListenOK
<1>5. CASE nc' # nc
  <2>1. Listen \/ ListenDown \/ Exit
    BY <1>5 DEF vars, Next, Task, Request, Serve, Websockets, StartLoop, AddCallback, Called,
       Stop, LeaveLoop, AcceptNone, Accept, LoopEnd, Leave, ReceiveFails,
       ReceiveStopped, ReceiveOther, RefuseWebsocket, Wild, AddWebsocket, GetScript, GetFile,
       DropFirst, ServePiece, EndFirst, PollStart, PollEnd, Poll, PollQuiet, PollAborted,
       PollBroken, PollMessage, KeepNet
  <2>2. CASE nc' = NULL
    <3>1. Open # Conns => Fresh # NULL  BY <1>1, FreshIsFree, WebServerAssumption
    <3>2. Goto("leave")  BY <2>1, <2>2, <3>1 DEF Listen, ListenDown, Exit
    <3>. QED  BY <2>2, <3>2 DEF ListenOK, Goto, Inside
  <2>3. CASE nc' # NULL
    <3>1. Open # Conns /\ peer' = [peer EXCEPT ![Fresh] = Listening] /\ nc' = Fresh
      BY <2>1, <2>3 DEF Listen, ListenDown, Exit
    <3>2. peer'[nc'] = Listening  BY <1>1, <3>1, FreshIsFree DEF NetOK
    <3>. QED  BY <2>3, <3>2 DEF ListenOK
  <2>. QED  BY <2>2, <2>3
<1>. QED  BY <1>4, <1>5

(* As long as the server is in its loop the connection it accepts on is     *)
(* open and listens: no answer that ends, no websocket that is evicted, is  *)
(* a double, gets too old or breaks takes it along, and a server that stops *)
(* closes it no earlier than when it leaves.                                *)
THEOREM LoopListens ==
  Spec => [](pc \in Inside => nc # NULL /\ peer[nc] = Listening)
<1>1. Init => ListenOK  BY DEF Init, ListenOK, Inside
<1>2. Inv /\ Inv' /\ ListenOK /\ [Next]_vars => ListenOK'  BY ListenStep
<1>3. ListenOK => (pc \in Inside => nc # NULL /\ peer[nc] = Listening)  BY DEF ListenOK
<1>. QED  BY <1>1, <1>2, <1>3, Invariance, PTL DEF Spec

=============================================================================

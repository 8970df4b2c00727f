------------------------- MODULE SysparamLogProofs -------------------------
(***************************************************************************)
(* The sizes of the parameter store's logs, and its values undisturbed.    *)
(* Whatever fails or is cut short, no log runs past its region.  While     *)
(* nothing fails and nothing is deleted, every key keeps one value, a set  *)
(* that returns SYSPARAM_OK has stored its value, and one that returns     *)
(* SYSPARAM_ERR_FULL has changed nothing.                                  *)
(***************************************************************************)
EXTENDS SysparamProofs, SetInduction

-----------------------------------------------------------------------------
(* The space that entries take                                             *)

\* The sums that SpaceOf goes through.
Sums(g, L, S) ==
  /\ g \in [0 .. Len(L) -> Nat]
  /\ g[0] = 0
  /\ \A n \in 1 .. Len(L) : g[n] = g[n - 1] + IF n \in S THEN EntrySize(L[n].len) ELSE 0

\* What the types say of a size.
LEMMA SizeType ==
  ASSUME NEW L \in Seq(Entry), NEW S
  PROVE  /\ Len(L) \in Nat /\ DOMAIN L = 1 .. Len(L)
         /\ \A n \in DOMAIN L : /\ EntrySize(L[n].len) \in Nat \ {0}
                                /\ (IF n \in S THEN EntrySize(L[n].len) ELSE 0) \in Nat
<1>1. Len(L) \in Nat /\ DOMAIN L = 1 .. Len(L) /\ \A n \in DOMAIN L : L[n] \in Entry
  OBVIOUS
<1>2. \A n \in DOMAIN L : EntrySize(L[n].len) \in Nat \ {0}
  BY <1>1 DEF Entry, EntrySize
<1> QED BY <1>1, <1>2

\* SpaceOf is the last of these sums.
LEMMA SpaceSums ==
  ASSUME NEW L \in Seq(Entry), NEW S
  PROVE  \E g : Sums(g, L, S) /\ SpaceOf(L, S) = g[Len(L)]
<1> DEFINE N == Len(L)
           w(n) == IF n \in S THEN EntrySize(L[n].len) ELSE 0
           next(a, n) == IF n = 0 THEN 0 ELSE a + w(n)
<1>1. N \in Nat /\ \A n \in 1 .. N : w(n) \in Nat
  BY SizeType
<1> HIDE DEF N, next
<1>2. \E g : g = [n \in 0 .. N |-> next(g[n - 1], n)]
  <2> DEFINE T == {m \in Nat : \E g : g = [n \in 0 .. m |-> next(g[n - 1], n)]}
  <2>1. 0 \in T
    <3> DEFINE g == [n \in 0 .. 0 |-> 0]
    <3>1. g = [n \in 0 .. 0 |-> next(g[n - 1], n)]
      BY DEF next
    <3> QED BY <3>1
  <2>2. ASSUME NEW m \in Nat, m \in T PROVE m + 1 \in T
    <3>1. PICK g : g = [n \in 0 .. m |-> next(g[n - 1], n)]
      BY <2>2
    <3> DEFINE h == [n \in 0 .. m + 1 |-> IF n = m + 1 THEN next(g[m], n) ELSE g[n]]
    <3>2. ASSUME NEW n \in 0 .. m + 1 PROVE h[n] = next(h[n - 1], n)
      <4>1. CASE n = m + 1
        <5>1. m \in 0 .. m + 1 /\ m # m + 1 /\ n - 1 = m
          BY <4>1
        <5>2. h[n - 1] = g[m]
          BY <5>1
        <5> QED BY <4>1, <5>2
      <4>2. CASE n # m + 1 /\ n # 0
        <5>1. n \in 0 .. m /\ n - 1 \in 0 .. m + 1 /\ n - 1 # m + 1
          BY <4>2
        <5>2. h[n] = g[n] /\ h[n - 1] = g[n - 1]
          BY <4>2, <5>1
        <5>3. g[n] = next(g[n - 1], n)
          BY <3>1, <5>1
        <5> QED BY <5>2, <5>3
      <4>3. CASE n # m + 1 /\ n = 0
        <5>1. n \in 0 .. m
          BY <4>3
        <5>2. h[n] = g[n] /\ g[n] = next(g[n - 1], n)
          BY <3>1, <4>3, <5>1
        <5> QED BY <4>3, <5>2 DEF next
      <4> QED BY <4>1, <4>2, <4>3
    <3>3. h = [n \in 0 .. m + 1 |-> next(h[n - 1], n)]
      <4>1. h = [n \in 0 .. m + 1 |-> h[n]]
        OBVIOUS
      <4> HIDE DEF h
      <4> QED BY <3>2, <4>1
    <3> HIDE DEF h
    <3>4. \E g2 : g2 = [n \in 0 .. m + 1 |-> next(g2[n - 1], n)]
      BY <3>3
    <3>5. m + 1 \in Nat
      OBVIOUS
    <3> QED BY Zenon, <3>4, <3>5
  <2> HIDE DEF T
  <2>3. N \in T
    BY <1>1, <2>1, <2>2, Induction
  <2> QED BY <2>3 DEF T
<1> DEFINE sums == CHOOSE g : g = [n \in 0 .. N |-> next(g[n - 1], n)]
<1>3. sums = [n \in 0 .. N |-> next(sums[n - 1], n)]
  BY <1>2
<1>4. SpaceOf(L, S) = sums[N]
  BY DEF SpaceOf, sums, next, N
<1> HIDE DEF sums, w
<1>5. /\ DOMAIN sums = 0 .. N /\ sums[0] = 0
      /\ \A n \in 1 .. N : sums[n] = sums[n - 1] + w(n)
  <2>1. \A n \in 0 .. N : sums[n] = next(sums[n - 1], n)
    BY <1>3
  <2>2. DOMAIN sums = 0 .. N
    BY <1>3
  <2> QED BY <1>1, <2>1, <2>2 DEF next
<1>6. \A n \in 0 .. N : sums[n] \in Nat
  <2> DEFINE T == {m \in Nat : m <= N => sums[m] \in Nat}
  <2>1. 0 \in T
    BY <1>5
  <2>2. ASSUME NEW m \in Nat, m \in T PROVE m + 1 \in T
    <3> SUFFICES ASSUME m + 1 <= N PROVE sums[m + 1] \in Nat
      OBVIOUS
    <3>1. sums[m] \in Nat /\ m + 1 \in 1 .. N /\ (m + 1) - 1 = m
      BY <1>1, <2>2
    <3>2. sums[m + 1] = sums[m] + w(m + 1)
      BY <1>5, <3>1
    <3> QED BY <1>1, <3>1, <3>2
  <2> HIDE DEF T
  <2>3. Nat \subseteq T
    BY <2>1, <2>2, Induction
  <2> QED BY <1>1, <2>3 DEF T
<1>7. Sums(sums, L, S)
  <2>1. sums \in [0 .. N -> Nat]
    <3>1. sums = [n \in 0 .. N |-> sums[n]]
      BY <1>3
    <3> QED BY <1>6, <3>1
  <2> QED BY <1>5, <2>1 DEF Sums, N, w
<1> QED BY <1>4, <1>7 DEF N

\* Sums that start below others and grow less stay below them.
LEMMA SumsBelow ==
  ASSUME NEW L \in Seq(Entry), NEW S, NEW g, Sums(g, L, S),
         NEW M \in Seq(Entry), NEW T, NEW h, Sums(h, M, T),
         NEW a \in Nat, NEW N \in Nat, a <= N, N <= Len(L), N <= Len(M),
         NEW d \in Int, h[a] <= g[a] + d,
         \A n \in a + 1 .. N : (IF n \in T THEN EntrySize(M[n].len) ELSE 0)
                               <= IF n \in S THEN EntrySize(L[n].len) ELSE 0
  PROVE  h[N] <= g[N] + d
<1> DEFINE v(n) == IF n \in S THEN EntrySize(L[n].len) ELSE 0
           w(n) == IF n \in T THEN EntrySize(M[n].len) ELSE 0
           U == {m \in Nat : a <= m /\ m <= N => h[m] <= g[m] + d}
<1>1. /\ Len(L) \in Nat /\ Len(M) \in Nat
      /\ \A n \in 1 .. Len(L) : v(n) \in Nat
      /\ \A n \in 1 .. Len(M) : w(n) \in Nat
  BY SizeType
<1>2. /\ \A n \in 0 .. Len(L) : g[n] \in Nat
      /\ \A n \in 0 .. Len(M) : h[n] \in Nat
      /\ \A n \in 1 .. Len(L) : g[n] = g[n - 1] + v(n)
      /\ \A n \in 1 .. Len(M) : h[n] = h[n - 1] + w(n)
      /\ \A n \in a + 1 .. N : w(n) <= v(n)
  BY DEF Sums
<1> HIDE DEF v, w
<1>3. 0 \in U
  OBVIOUS
<1>4. ASSUME NEW m \in Nat, m \in U PROVE m + 1 \in U
  <2> SUFFICES ASSUME a <= m + 1, m + 1 <= N PROVE h[m + 1] <= g[m + 1] + d
    OBVIOUS
  <2>1. CASE a = m + 1
    BY <2>1
  <2>2. CASE a <= m
    <3>1. h[m] <= g[m] + d
      BY <1>4, <2>2
    <3>2. m + 1 \in 1 .. Len(L) /\ m + 1 \in 1 .. Len(M) /\ m + 1 \in a + 1 .. N /\ (m + 1) - 1 = m
          /\ m \in 0 .. Len(L) /\ m \in 0 .. Len(M)
      BY <1>1, <2>2
    <3>3. g[m + 1] = g[m] + v(m + 1) /\ h[m + 1] = h[m] + w(m + 1) /\ w(m + 1) <= v(m + 1)
      BY <1>2, <3>2
    <3>4. g[m] \in Nat /\ h[m] \in Nat /\ v(m + 1) \in Nat /\ w(m + 1) \in Nat
      BY <1>1, <1>2, <3>2
    <3> QED BY <3>1, <3>3, <3>4
  <2> QED BY <2>1, <2>2
<1> HIDE DEF U
<1>5. Nat \subseteq U
  BY <1>3, <1>4, Induction
<1> QED BY <1>5 DEF U

\* The same from the start.
LEMMA SumsBelowAll ==
  ASSUME NEW L \in Seq(Entry), NEW S, NEW g, Sums(g, L, S),
         NEW M \in Seq(Entry), NEW T, NEW h, Sums(h, M, T),
         NEW N \in Nat, N <= Len(L), N <= Len(M),
         \A n \in 1 .. N : (IF n \in T THEN EntrySize(M[n].len) ELSE 0)
                           <= IF n \in S THEN EntrySize(L[n].len) ELSE 0
  PROVE  h[N] <= g[N]
<1> DEFINE a == 0
           d == 0
<1>1. a \in Nat /\ a <= N /\ d \in Int /\ h[a] <= g[a] + d
  BY DEF Sums
<1>2. \A n \in a + 1 .. N : (IF n \in T THEN EntrySize(M[n].len) ELSE 0)
                            <= IF n \in S THEN EntrySize(L[n].len) ELSE 0
  OBVIOUS
<1> HIDE DEF a, d
<1>3. h[N] <= g[N] + d
  BY <1>1, <1>2, SumsBelow
<1>4. g[N] \in Nat
  <2>1. N \in 0 .. Len(L)
    BY SizeType
  <2> QED BY <2>1 DEF Sums
<1> QED BY <1>3, <1>4 DEF d

\* Space is counted in words.
LEMMA SpaceType ==
  ASSUME NEW L \in Seq(Entry), NEW S
  PROVE  SpaceOf(L, S) \in Nat /\ EndOf(L) \in Nat /\ 2 <= EndOf(L) /\ EndOf(L) = 2 + SpaceOf(L, DOMAIN L)
<1>1. ASSUME NEW T PROVE SpaceOf(L, T) \in Nat
  <2>1. PICK g : Sums(g, L, T) /\ SpaceOf(L, T) = g[Len(L)]
    BY SpaceSums
  <2>2. Len(L) \in 0 .. Len(L)
    BY SizeType
  <2> QED BY <2>1, <2>2 DEF Sums
<1>2. EndOf(L) = 2 + SpaceOf(L, DOMAIN L) /\ SpaceOf(L, DOMAIN L) \in Nat
  BY <1>1 DEF EndOf
<1> QED BY <1>1, <1>2

\* Fewer entries take no more space.
LEMMA SpaceFewer ==
  ASSUME NEW L \in Seq(Entry), NEW T, NEW S \in SUBSET T
  PROVE  SpaceOf(L, S) <= SpaceOf(L, T)
<1>1. PICK g : Sums(g, L, T) /\ SpaceOf(L, T) = g[Len(L)]
  BY SpaceSums
<1>2. PICK h : Sums(h, L, S) /\ SpaceOf(L, S) = h[Len(L)]
  BY SpaceSums
<1>3. Len(L) \in Nat /\ \A n \in 1 .. Len(L) :
        (IF n \in S THEN EntrySize(L[n].len) ELSE 0)
          <= IF n \in T THEN EntrySize(L[n].len) ELSE 0
  BY SizeType
<1>4. h[Len(L)] <= g[Len(L)]
  BY <1>1, <1>2, <1>3, SumsBelowAll
<1> QED BY <1>1, <1>2, <1>4

\* One entry more takes its size more.
LEMMA SpaceMore ==
  ASSUME NEW L \in Seq(Entry), NEW S, NEW i \in DOMAIN L, i \notin S
  PROVE  SpaceOf(L, S) + EntrySize(L[i].len) <= SpaceOf(L, S \cup {i})
<1> DEFINE T == S \cup {i}
           size == EntrySize(L[i].len)
           N == Len(L)
<1>1. PICK g : Sums(g, L, T) /\ SpaceOf(L, T) = g[N]
  BY SpaceSums
<1>2. PICK h : Sums(h, L, S) /\ SpaceOf(L, S) = h[N]
  BY SpaceSums
<1>3. /\ N \in Nat /\ i \in 1 .. N /\ size \in Nat
      /\ i - 1 \in Nat /\ i - 1 <= N /\ i - 1 \in 0 .. N /\ i \in Nat /\ i <= N /\ 0 - size \in Int
  BY SizeType
<1>4. ASSUME NEW n \in 1 .. N, n # i
      PROVE  (IF n \in S THEN EntrySize(L[n].len) ELSE 0)
               <= IF n \in T THEN EntrySize(L[n].len) ELSE 0
  <2>1. n \in S <=> n \in T
    BY <1>4
  <2>2. (IF n \in S THEN EntrySize(L[n].len) ELSE 0) \in Nat
    BY SizeType
  <2> HIDE DEF T
  <2> QED BY <2>1, <2>2
<1> HIDE DEF T, size, N
<1>5. h[i - 1] <= g[i - 1]
  <2>1. \A n \in 1 .. i - 1 : n \in 1 .. N /\ n # i
    BY <1>3
  <2>2. \A n \in 1 .. i - 1 : (IF n \in S THEN EntrySize(L[n].len) ELSE 0)
                                <= IF n \in T THEN EntrySize(L[n].len) ELSE 0
    BY <1>4, <2>1
  <2> DEFINE m == i - 1
  <2>3. m \in Nat /\ m <= Len(L)
    BY <1>3 DEF N
  <2> HIDE DEF m
  <2>4. h[m] <= g[m]
    BY <1>1, <1>2, <2>2, <2>3, SumsBelowAll DEF m
  <2> QED BY <2>4 DEF m
<1>6. h[i] = h[i - 1] /\ g[i] = g[i - 1] + size
  <2>1. h[i] = h[i - 1] + 0
    BY <1>2, <1>3 DEF Sums, N
  <2>2. g[i] = g[i - 1] + size
    BY <1>1, <1>3 DEF Sums, N, T, size
  <2>3. h[i - 1] \in Nat
    BY <1>2, <1>3 DEF Sums, N
  <2> QED BY <2>1, <2>2, <2>3
<1>7. h[N] <= g[N] + (0 - size)
  <2> DEFINE d == 0 - size
  <2>1. h[i] <= g[i] + d
    <3>1. g[i - 1] \in Nat /\ h[i - 1] \in Nat
      BY <1>1, <1>2, <1>3 DEF Sums, N
    <3> QED BY <1>3, <1>5, <1>6, <3>1
  <2>2. \A n \in i + 1 .. N : n \in 1 .. N /\ n # i
    BY <1>3
  <2>3. \A n \in i + 1 .. N : (IF n \in S THEN EntrySize(L[n].len) ELSE 0)
                                <= IF n \in T THEN EntrySize(L[n].len) ELSE 0
    BY <1>4, <2>2
  <2>4. i \in Nat /\ N \in Nat /\ i <= N /\ N <= Len(L) /\ d \in Int
    BY <1>3 DEF N
  <2> HIDE DEF d
  <2>5. h[N] <= g[N] + d
    BY <1>1, <1>2, <2>1, <2>3, <2>4, SumsBelow
  <2> QED BY <2>5 DEF d
<1>8. g[N] \in Nat /\ h[N] \in Nat
  BY <1>1, <1>2, SpaceType
<1> QED BY <1>1, <1>2, <1>3, <1>7, <1>8 DEF T, size

\* Entries of two kinds take what they take together.
LEMMA SpaceParts ==
  ASSUME NEW L \in Seq(Entry), NEW S, NEW T, S \cap T = {}
  PROVE  SpaceOf(L, S) + SpaceOf(L, T) <= SpaceOf(L, S \cup T)
<1> DEFINE N == Len(L)
           U == S \cup T
           v(n) == IF n \in S THEN EntrySize(L[n].len) ELSE 0
           w(n) == IF n \in T THEN EntrySize(L[n].len) ELSE 0
           x(n) == IF n \in U THEN EntrySize(L[n].len) ELSE 0
<1>1. PICK g : Sums(g, L, S) /\ SpaceOf(L, S) = g[N]
  BY SpaceSums
<1>2. PICK h : Sums(h, L, T) /\ SpaceOf(L, T) = h[N]
  BY SpaceSums
<1>3. PICK q : Sums(q, L, U) /\ SpaceOf(L, U) = q[N]
  BY SpaceSums
<1> DEFINE f == [n \in 0 .. N |-> g[n] + h[n]]
<1>4. \A n \in 1 .. N : v(n) \in Nat /\ w(n) \in Nat /\ x(n) = v(n) + w(n)
  <2> SUFFICES ASSUME NEW n \in 1 .. N
               PROVE  v(n) \in Nat /\ w(n) \in Nat /\ x(n) = v(n) + w(n)
    OBVIOUS
  <2>1. EntrySize(L[n].len) \in Nat
    BY SizeType
  <2>2. ~ (n \in S /\ n \in T) /\ (n \in U <=> n \in S \/ n \in T)
    OBVIOUS
  <2> HIDE DEF U
  <2> QED BY <2>1, <2>2
<1>5. /\ \A n \in 0 .. N : g[n] \in Nat /\ h[n] \in Nat
      /\ g[0] = 0 /\ h[0] = 0
      /\ \A n \in 1 .. N : g[n] = g[n - 1] + v(n) /\ h[n] = h[n - 1] + w(n)
  BY <1>1, <1>2 DEF Sums
<1> HIDE DEF v, w
<1>6. N \in Nat
  BY SizeType
<1>7. Sums(f, L, U)
  <2>1. \A n \in 0 .. N : f[n] = g[n] + h[n] /\ f[n] \in Nat
    BY <1>5
  <2>2. f \in [0 .. N -> Nat]
    BY <1>5
  <2> HIDE DEF f, x, N
  <2>3. f[0] = 0
    <3>1. 0 \in 0 .. N
      BY <1>6
    <3> QED BY <1>5, <2>1, <3>1
  <2>4. ASSUME NEW n \in 1 .. N PROVE f[n] = f[n - 1] + x(n)
    <3>1. n \in 0 .. N /\ n - 1 \in 0 .. N
      BY <1>6
    <3>2. f[n] = g[n] + h[n] /\ f[n - 1] = g[n - 1] + h[n - 1]
      BY <2>1, <3>1
    <3>3. g[n] = g[n - 1] + v(n) /\ h[n] = h[n - 1] + w(n) /\ x(n) = v(n) + w(n)
      BY <1>4, <1>5
    <3>4. g[n - 1] \in Nat /\ h[n - 1] \in Nat /\ v(n) \in Nat /\ w(n) \in Nat
      BY <1>4, <1>5, <3>1
    <3> QED BY <3>2, <3>3, <3>4
  <2> QED BY <2>2, <2>3, <2>4 DEF Sums, N, x
<1>8. f[N] = SpaceOf(L, S) + SpaceOf(L, T)
  BY <1>1, <1>2, <1>6
<1> HIDE DEF f, U, x
<1>9. f[N] <= q[N]
  <2>1. \A n \in 1 .. N : (IF n \in U THEN EntrySize(L[n].len) ELSE 0)
                            <= IF n \in U THEN EntrySize(L[n].len) ELSE 0
    BY SizeType
  <2> QED BY <1>3, <1>6, <1>7, <2>1, SumsBelowAll
<1> QED BY <1>3, <1>8, <1>9 DEF U

\* So does an entry that is appended.
LEMMA EndAppend ==
  ASSUME NEW L \in Seq(Entry), NEW e \in Entry
  PROVE  EndOf(Append(L, e)) <= EndOf(L) + EntrySize(e.len)
<1> DEFINE M == Append(L, e)
           N == Len(L)
<1>1. /\ N \in Nat /\ M \in Seq(Entry) /\ Len(M) = N + 1 /\ M[N + 1] = e
      /\ \A n \in 1 .. N : M[n] = L[n]
      /\ EntrySize(e.len) \in Nat
  BY DEF Entry, EntrySize
<1> HIDE DEF M
<1>2. PICK g : Sums(g, L, DOMAIN L) /\ SpaceOf(L, DOMAIN L) = g[N]
  BY SpaceSums
<1>3. PICK h : Sums(h, M, DOMAIN M) /\ SpaceOf(M, DOMAIN M) = h[N + 1]
  BY <1>1, SpaceSums
<1>4. h[N] <= g[N]
  <2>1. \A n \in 1 .. N : (IF n \in DOMAIN M THEN EntrySize(M[n].len) ELSE 0)
                                <= IF n \in DOMAIN L THEN EntrySize(L[n].len) ELSE 0
    <3>1. \A n \in 1 .. N : n \in DOMAIN M /\ n \in DOMAIN L /\ M[n] = L[n]
      BY <1>1
    <3>2. \A n \in 1 .. N : EntrySize(L[n].len) <= EntrySize(L[n].len)
      BY <1>1, SizeType
    <3> QED BY <3>1, <3>2
  <2>2. N <= Len(L) /\ N <= Len(M)
    BY <1>1
  <2> QED BY <1>1, <1>2, <1>3, <2>1, <2>2, SumsBelowAll
<1>5. h[N + 1] = h[N] + EntrySize(e.len)
  <2>1. N + 1 \in 1 .. Len(M) /\ N + 1 \in DOMAIN M /\ (N + 1) - 1 = N
    BY <1>1
  <2> QED BY <1>1, <1>3, <2>1 DEF Sums
<1>6. g[N] \in Nat /\ h[N] \in Nat
  <2>1. N \in 0 .. Len(L) /\ N \in 0 .. Len(M)
    BY <1>1
  <2> QED BY <1>2, <1>3, <2>1 DEF Sums
<1>7. EndOf(L) = 2 + g[N] /\ EndOf(M) = 2 + h[N + 1]
  BY <1>1, <1>2, <1>3, SpaceType
<1> HIDE DEF N
<1>8. EndOf(M) <= EndOf(L) + EntrySize(e.len)
  BY <1>1, <1>4, <1>5, <1>6, <1>7
<1> QED BY <1>8 DEF M

\* An entry that is changed in place keeps its length.
LEMMA EndReplace ==
  ASSUME NEW L \in Seq(Entry), NEW i, NEW e \in Entry, i \in DOMAIN L => e.len = L[i].len
  PROVE  EndOf([L EXCEPT ![i] = e]) <= EndOf(L)
<1> DEFINE M == [L EXCEPT ![i] = e]
           N == Len(L)
<1>1. /\ N \in Nat /\ M \in Seq(Entry) /\ Len(M) = N /\ DOMAIN L = 1 .. N /\ DOMAIN M = 1 .. N
      /\ \A n \in 1 .. N : M[n].len = L[n].len
  <2>1. M \in Seq(Entry)
    <3>1. M \in [1 .. N -> Entry] /\ N \in Nat
      <4>1. L \in [1 .. N -> Entry] /\ N \in Nat
        OBVIOUS
      <4> HIDE DEF N
      <4> QED BY <4>1
    <3> HIDE DEF M
    <3> QED BY <3>1
  <2>2. N \in Nat /\ Len(M) = N /\ DOMAIN L = 1 .. N /\ DOMAIN M = 1 .. N
    OBVIOUS
  <2>3. \A n \in 1 .. N : M[n] = IF n = i THEN e ELSE L[n]
    OBVIOUS
  <2> HIDE DEF M, N
  <2> QED BY <2>1, <2>2, <2>3
<1> HIDE DEF M
<1>2. PICK g : Sums(g, L, DOMAIN L) /\ SpaceOf(L, DOMAIN L) = g[N]
  BY SpaceSums
<1>3. PICK h : Sums(h, M, DOMAIN M) /\ SpaceOf(M, DOMAIN M) = h[N]
  BY <1>1, SpaceSums
<1>4. h[N] <= g[N]
  <2>1. \A n \in 1 .. N : (IF n \in DOMAIN M THEN EntrySize(M[n].len) ELSE 0)
                                <= IF n \in DOMAIN L THEN EntrySize(L[n].len) ELSE 0
    <3>1. \A n \in 1 .. N : n \in DOMAIN M /\ n \in DOMAIN L /\ M[n].len = L[n].len
      BY <1>1
    <3>2. \A n \in 1 .. N : EntrySize(L[n].len) <= EntrySize(L[n].len)
      BY SizeType
    <3> QED BY <3>1, <3>2
  <2>2. N <= Len(L) /\ N <= Len(M)
    BY <1>1
  <2> QED BY <1>1, <1>2, <1>3, <2>1, <2>2, SumsBelowAll
<1>5. EndOf(L) = 2 + g[N] /\ EndOf(M) = 2 + h[N] /\ g[N] \in Nat /\ h[N] \in Nat
  BY <1>1, <1>2, <1>3, SpaceType
<1> QED BY <1>4, <1>5 DEF M

\* A region just formatted holds its header only.
LEMMA EndEmpty == EndOf(<<>>) = 2
<1>1. <<>> \in Seq(Entry) /\ Len(<<>>) = 0
  OBVIOUS
<1>2. PICK g : Sums(g, <<>>, DOMAIN <<>>) /\ SpaceOf(<<>>, DOMAIN <<>>) = g[Len(<<>>)]
  BY <1>1, SpaceSums
<1>3. g[Len(<<>>)] = 0
  BY <1>1, <1>2 DEF Sums
<1> QED BY <1>2, <1>3 DEF EndOf

-----------------------------------------------------------------------------
(* The space that a set needs                                              *)

\* The lengths from which a compaction writes its keys.
LensOK(L) == \A i \in LiveKeys(L) : L[i].len = Words[L[i].data]

\* What a compaction has copied, or left out because it is about to be replaced.
Done(o, L) == {i \in LiveKeys(L) \ Unused(L) : i <= o.iter}
Taken(o, L) == Done(o, L) \cup {FindValue(L, i) : i \in Done(o, L)}

DatumOf(o) == IF o.what = "key" THEN o.key ELSE o.val

NeededBy(o) ==
  EntrySize(Words[o.val]) + IF o.id = 0 THEN EntrySize(Words[o.key]) ELSE 0

\* What the set has to append after the entry it is writing.
Rest(o) == IF o.what = "key" THEN EntrySize(Words[o.val]) ELSE 0

SpaceInv ==
  /\ \A r \in Region : EndOf(log[r]) <= RegionSize /\ LensOK(log[r])
  /\ pc \in Compacting => /\ op.need = NeededBy(op)
                          /\ op.site = "space" \/ op.need <= Free(log[cur])
  /\ pc \in Compacting \ {"format"} =>
       EndOf(log[Alt(cur)]) <= 2 + SpaceOf(log[cur], Taken(op, log[cur]))
  /\ pc = "hdr" =>
       EndOf(log[cur]) + EntrySize(Words[DatumOf(op)]) + Rest(op) <= RegionSize
  /\ pc \in {"payload", "valid"} =>
       EndOf(log[cur]) + Rest(op) <= RegionSize /\ log[cur][Tip].len = Words[DatumOf(op)]

\* An entry that is no key, or one with the length of its name.
LEMMA LensAppend ==
  ASSUME NEW L \in Seq(Entry), LensOK(L), NEW e \in Entry,
         Live(e) /\ ~e.value => e.len = Words[e.data]
  PROVE  LensOK(Append(L, e))
<1> DEFINE M == Append(L, e)
<1>1. /\ DOMAIN M = 1 .. Len(L) + 1 /\ M[Len(L) + 1] = e
      /\ DOMAIN L = 1 .. Len(L) /\ \A i \in 1 .. Len(L) : M[i] = L[i]
  OBVIOUS
<1> HIDE DEF M
<1>2. ASSUME NEW i \in LiveKeys(M) PROVE M[i].len = Words[M[i].data]
  <2>1. i \in 1 .. Len(L) + 1 /\ Live(M[i]) /\ ~M[i].value
    BY <1>1 DEF LiveKeys
  <2>2. CASE i = Len(L) + 1
    BY <1>1, <2>1, <2>2
  <2>3. CASE i \in 1 .. Len(L)
    <3>1. i \in LiveKeys(L) /\ M[i] = L[i]
      BY <1>1, <2>1, <2>3 DEF LiveKeys
    <3> QED BY <3>1 DEF LensOK
  <2>4. Len(L) \in Nat
    OBVIOUS
  <2> QED BY <2>1, <2>2, <2>3, <2>4
<1> QED BY <1>2 DEF LensOK, M

\* The same for an entry that is changed in place.
LEMMA LensReplace ==
  ASSUME NEW L \in Seq(Entry), LensOK(L), NEW i, NEW e \in Entry,
         i \in DOMAIN L /\ Live(e) /\ ~e.value => e.len = Words[e.data]
  PROVE  LensOK([L EXCEPT ![i] = e])
<1> DEFINE M == [L EXCEPT ![i] = e]
<1>1. DOMAIN M = DOMAIN L /\ \A j \in DOMAIN L : M[j] = IF j = i THEN e ELSE L[j]
  OBVIOUS
<1> HIDE DEF M
<1>2. ASSUME NEW j \in LiveKeys(M) PROVE M[j].len = Words[M[j].data]
  <2>1. j \in DOMAIN L /\ Live(M[j]) /\ ~M[j].value
    BY <1>1 DEF LiveKeys
  <2>2. CASE j = i
    BY <1>1, <2>1, <2>2
  <2>3. CASE j # i
    <3>1. j \in LiveKeys(L) /\ M[j] = L[j]
      BY <1>1, <2>1, <2>3 DEF LiveKeys
    <3> QED BY <3>1 DEF LensOK
  <2> QED BY <2>2, <2>3
<1> QED BY <1>2 DEF LensOK, M

\* What a compaction takes over is in the log it copies.
LEMMA TakenThere ==
  ASSUME NEW L \in Seq(Entry), NEW o
  PROVE  /\ Taken(o, L) \subseteq DOMAIN L /\ Done(o, L) \subseteq LiveKeys(L)
         /\ \A i \in LiveKeys(L) \ Unused(L) :
              /\ FindValue(L, i) \in LiveVals(L) /\ FindValue(L, i) \in DOMAIN L
              /\ L[FindValue(L, i)].id = L[i].id
<1>1. Done(o, L) \subseteq LiveKeys(L) /\ LiveKeys(L) \subseteq DOMAIN L
  BY DEF Done, LiveKeys
<1>2. ASSUME NEW i \in LiveKeys(L) \ Unused(L)
      PROVE  /\ FindValue(L, i) \in LiveVals(L) /\ FindValue(L, i) \in DOMAIN L
             /\ L[FindValue(L, i)].id = L[i].id
  <2>1. ValuesOf(L, i) # {}
    BY DEF Unused
  <2>2. FindValue(L, i) \in ValuesOf(L, i) /\ ValuesOf(L, i) \subseteq LiveVals(L)
        /\ LiveVals(L) \subseteq DOMAIN L
    BY <2>1, ScanTypes
  <2>3. \A j \in ValuesOf(L, i) : L[j].id = L[i].id
    BY DEF ValuesOf
  <2> QED BY <2>2, <2>3
<1>3. Taken(o, L) \subseteq DOMAIN L
  BY <1>1, <1>2 DEF Taken, Done
<1> QED BY <1>1, <1>2, <1>3

\* Two keys do not share a value, so that a turn of the copy loop writes no more than it
\* takes over, without the entry at v, which may be a value that is left out.
LEMMA TurnFits ==
  ASSUME NEW L \in Seq(Entry), KeysOK(L), NEW A \in Seq(Entry), NEW o \in Op, NEW p \in Op,
         NEW v, v \notin LiveKeys(L), EndOf(A) <= 2 + SpaceOf(L, Taken(o, L) \ {v}),
         NEW i \in LiveKeys(L) \ Unused(L), o.iter < i, p.iter = i,
         NEW key \in Entry, key.len = L[i].len,
         NEW val \in Entry, val.len = L[FindValue(L, i)].len
  PROVE  /\ EndOf(Append(A, key)) <= 2 + SpaceOf(L, Taken(p, L) \ {v})
         /\ v # FindValue(L, i) =>
              EndOf(Append(Append(A, key), val)) <= 2 + SpaceOf(L, Taken(p, L) \ {v})
<1> DEFINE f == FindValue(L, i)
           S == Taken(o, L) \ {v}
           S1 == S \cup {i}
           S2 == S1 \cup {f}
           B == Append(A, key)
           C == Append(B, val)
<1>1. /\ i \in LiveKeys(L) /\ i \in Nat /\ i \in DOMAIN L /\ o.iter \in Nat
      /\ LiveKeys(L) \subseteq Nat
  BY KeyTypes DEF Op
<1>2. f \in LiveVals(L) /\ f \in DOMAIN L /\ L[f].id = L[i].id
  BY TakenThere
<1>3. LiveKeys(L) \cap LiveVals(L) = {}
  BY DEF LiveKeys, LiveVals
<1>4. i \notin S
  <2>1. i \notin Done(o, L)
    BY <1>1 DEF Done
  <2>2. \A j \in Done(o, L) : FindValue(L, j) # i
    BY <1>1, <1>3, TakenThere DEF Done
  <2> QED BY <2>1, <2>2 DEF Taken
<1>5. f \notin S1
  <2>1. f # i /\ f \notin Done(o, L)
    BY <1>1, <1>2, <1>3 DEF Done
  <2>2. ASSUME NEW j \in Done(o, L) PROVE FindValue(L, j) # f
    <3>1. j \in LiveKeys(L) \ Unused(L) /\ j \in Nat /\ j <= o.iter
      BY <1>1 DEF Done
    <3>2. L[j].id < L[i].id
      BY <1>1, <3>1 DEF KeysOK
    <3>3. L[FindValue(L, j)].id = L[j].id
      BY <3>1, TakenThere
    <3>4. L[j].id \in Nat /\ L[i].id \in Nat
      BY <1>1, <3>1, KeyTypes
    <3> QED BY <1>2, <3>2, <3>3, <3>4
  <2> QED BY <2>1, <2>2 DEF Taken
<1>6. S1 \subseteq Taken(p, L) \ {v} /\ (v # f => S2 \subseteq Taken(p, L) \ {v})
  <2>1. Done(o, L) \subseteq Done(p, L) /\ i \in Done(p, L)
    <3>1. \A j \in LiveKeys(L) : j <= o.iter => j <= i
      BY <1>1
    <3> QED BY <1>1, <3>1 DEF Done
  <2> QED BY <1>1, <2>1 DEF Taken
<1>7. /\ SpaceOf(L, S) + EntrySize(L[i].len) <= SpaceOf(L, S1)
      /\ SpaceOf(L, S1) + EntrySize(L[f].len) <= SpaceOf(L, S2)
  <2> HIDE DEF S, f
  <2>1. SpaceOf(L, S) + EntrySize(L[i].len) <= SpaceOf(L, S1)
    BY <1>1, <1>4, SpaceMore
  <2> HIDE DEF S1
  <2>2. SpaceOf(L, S1) + EntrySize(L[f].len) <= SpaceOf(L, S2)
    BY <1>2, <1>5, SpaceMore
  <2> QED BY <2>1, <2>2
<1> HIDE DEF S, S1, S2
<1> DEFINE P == Taken(p, L) \ {v}
<1>8. SpaceOf(L, S1) <= SpaceOf(L, P) /\ (v # f => SpaceOf(L, S2) <= SpaceOf(L, P))
  <2> HIDE DEF P
  <2>1. S1 \subseteq P /\ (v # f => S2 \subseteq P)
    BY <1>6 DEF P
  <2> QED BY <2>1, SpaceFewer
<1> HIDE DEF P
<1>9. /\ SpaceOf(L, S) \in Nat /\ SpaceOf(L, S1) \in Nat /\ SpaceOf(L, S2) \in Nat
      /\ SpaceOf(L, P) \in Nat
      /\ EntrySize(L[i].len) \in Nat /\ EntrySize(L[f].len) \in Nat
  BY <1>1, <1>2, SpaceType, SizeType
<1>10. B \in Seq(Entry) /\ C \in Seq(Entry)
  OBVIOUS
<1>11. EndOf(B) <= EndOf(A) + EntrySize(L[i].len)
  BY EndAppend
<1> HIDE DEF B
<1>12. EndOf(C) <= EndOf(B) + EntrySize(L[f].len)
  <2>1. EndOf(C) <= EndOf(B) + EntrySize(val.len)
    BY <1>10, EndAppend
  <2> QED BY <2>1
<1> HIDE DEF C
<1>13. EndOf(A) \in Nat /\ EndOf(B) \in Nat /\ EndOf(C) \in Nat
  BY <1>10, SpaceType
<1>14. EndOf(A) <= 2 + SpaceOf(L, S)
  BY DEF S
<1> DEFINE a == EndOf(A)
           b == EndOf(B)
           c == EndOf(C)
           s == SpaceOf(L, S)
           s1 == SpaceOf(L, S1)
           s2 == SpaceOf(L, S2)
           t == SpaceOf(L, P)
           u == EntrySize(L[i].len)
           w == EntrySize(L[f].len)
<1>15. b <= 2 + t /\ (v # f => c <= 2 + t)
  <2>1. /\ a \in Nat /\ b \in Nat /\ c \in Nat /\ s \in Nat /\ s1 \in Nat /\ s2 \in Nat
        /\ t \in Nat /\ u \in Nat /\ w \in Nat
    BY <1>9, <1>13
  <2>2. a <= 2 + s /\ b <= a + u /\ c <= b + w
    BY <1>11, <1>12, <1>14
  <2>3. s + u <= s1 /\ s1 + w <= s2 /\ s1 <= t
    BY <1>7, <1>8
  <2>4. v # f => s2 <= t
    BY <1>8
  <2> HIDE DEF a, b, c, s, s1, s2, t, u, w, f
  <2>5. b <= 2 + t
    BY <2>1, <2>2, <2>3
  <2>6. s2 <= t => c <= 2 + t
    BY <2>1, <2>2, <2>3
  <2> QED BY <2>4, <2>5, <2>6
<1> QED BY <1>15 DEF B, C, P

\* A step that ends outside a compaction and a write.
LEMMA SpaceIdle ==
  ASSUME \A r \in Region : EndOf(log'[r]) <= RegionSize /\ LensOK(log'[r]),
         pc' \notin Compacting \cup Writes
  PROVE  SpaceInv'
<1>1. \A r \in Region : EndOf(log[r])' <= RegionSize /\ LensOK(log[r])'
  BY DEF EndOf, SpaceOf, EntrySize, LensOK, LiveKeys, Live
<1>2. pc' \notin {"format", "copy", "newHdr", "oldHdr", "hdr", "payload", "valid"}
  BY DEF Compacting, Writes
<1> QED BY <1>1, <1>2 DEF SpaceInv, Compacting

\* What a set writes is what it needs.
LEMMA WritingNeeds ==
  ASSUME NEW o \in Op, o.key \in Keys, o.val \in Vals, NEW n \in Nat
  PROVE  /\ NeededBy(o) = EntrySize(Words[DatumOf(Writing(o, n))]) + Rest(Writing(o, n))
         /\ NeededBy(o) \in Nat
         /\ EntrySize(Words[DatumOf(o)]) \in Nat \ {0} /\ Rest(o) \in Nat
<1>1. /\ Words[o.key] \in Nat /\ Words[o.val] \in Nat
      /\ EntrySize(Words[o.key]) \in Nat \ {0} /\ EntrySize(Words[o.val]) \in Nat \ {0}
  BY ConstAssumption DEF EntrySize
<1>2. NeededBy(o) \in Nat
  BY <1>1 DEF NeededBy
<1>3. EntrySize(Words[DatumOf(o)]) \in Nat \ {0} /\ Rest(o) \in Nat
  BY <1>1 DEF DatumOf, Rest
<1> DEFINE w == Writing(o, n)
<1>4. CASE o.id = 0
  <2>1. w.what = "key" /\ w.key = o.key /\ w.val = o.val
    BY <1>4 DEF Writing, Op
  <2> HIDE DEF w
  <2>2. DatumOf(w) = o.key /\ Rest(w) = EntrySize(Words[o.val])
    BY <2>1 DEF DatumOf, Rest
  <2>3. NeededBy(o) = EntrySize(Words[o.val]) + EntrySize(Words[o.key])
    BY <1>4 DEF NeededBy
  <2>4. NeededBy(o) = EntrySize(Words[DatumOf(w)]) + Rest(w)
    BY <1>1, <2>2, <2>3
  <2> QED BY <1>2, <1>3, <2>4 DEF w
<1>5. CASE o.id # 0
  <2>1. w.what = "val" /\ w.key = o.key /\ w.val = o.val
    BY <1>5 DEF Writing, Op
  <2> HIDE DEF w
  <2>2. DatumOf(w) = o.val /\ Rest(w) = 0
    BY <2>1 DEF DatumOf, Rest
  <2>3. NeededBy(o) = EntrySize(Words[o.val]) + 0
    BY <1>5 DEF NeededBy
  <2>4. NeededBy(o) = EntrySize(Words[DatumOf(w)]) + Rest(w)
    BY <1>1, <2>2, <2>3
  <2> QED BY <1>2, <1>3, <2>4 DEF w
<1> QED BY <1>4, <1>5

\* A boot that formats a region.
LEMMA SpaceBoot ==
  ASSUME EntriesInv, SpaceInv, Boot
  PROVE  SpaceInv'
<1>1. pc' \notin Compacting \cup Writes
  BY DEF Boot, BootMount, BootRecover, BootNotFound, RecreateFormat, RecreateHeader,
         CreateActive, CreateStale, BootFault, Compacting, Writes
<1>2. log' = log \/ log' = [log EXCEPT ![Alt(Found)] = <<>>]
  BY DEF Boot, BootMount, BootRecover, BootNotFound, RecreateFormat, RecreateHeader,
         CreateActive, CreateStale, BootFault, flash
<1>3. log \in [Region -> Seq(Entry)]
  BY DEF EntriesInv, TypeOK
<1>4. \A r \in Region : log'[r] = log[r] \/ log'[r] = <<>>
  BY <1>2, <1>3
<1>5. EndOf(<<>>) <= RegionSize /\ LensOK(<<>>)
  <2>1. EndOf(<<>>) <= RegionSize
    BY EndEmpty, ConstAssumption
  <2> QED BY <2>1 DEF LensOK, LiveKeys
<1>6. \A r \in Region : EndOf(log'[r]) <= RegionSize /\ LensOK(log'[r])
  BY <1>4, <1>5 DEF SpaceInv
<1> QED BY <1>1, <1>6, SpaceIdle

\* What the decision says of space.
LEMMA PlanSpace ==
  ASSUME NEW k, NEW v, Plan(k, v) \in {"write", "ids", "force"}
  PROVE  ~ (Needed(k, v) > Free(log[cur]))
BY DEF Plan

\* A set that does not compact first has looked at the free space.
LEMMA SpaceBegin ==
  ASSUME EntriesInv, SpaceInv, Begin
  PROVE  SpaceInv'
<1> DEFINE L == log[cur]
<1>1. /\ L \in Seq(Entry) /\ TypeOK /\ EndOf(L) \in Nat
      /\ \A r \in Region : EndOf(log[r]) <= RegionSize /\ LensOK(log[r])
  <2>1. L \in Seq(Entry) /\ TypeOK
    BY DEF EntriesInv, TypeOK
  <2> QED BY <2>1, SpaceType DEF SpaceInv
<1>2. UNCHANGED <<log, cur>>
  BY DEF Begin, SetDelete, SetWrite, SetCompact, SetFull, ScanToEnd, flash
<1>3. RegionSize \in Nat
  BY ConstAssumption
<1> HIDE DEF L
<1>4. ASSUME NEW k \in Keys, NEW v \in Vals
      PROVE  /\ Args(k, v) \in Op /\ Args(k, v).key = k /\ Args(k, v).val = v
             /\ Needed(k, v) = NeededBy(Args(k, v)) /\ Needed(k, v) \in Nat
  <2>1. Args(k, v) \in Op
    BY <1>1, ArgsType
  <2>2. Args(k, v).id = IdOf(k) /\ Args(k, v).key = k /\ Args(k, v).val = v
    BY DEF Args, NoOp
  <2>3. Needed(k, v) = NeededBy(Args(k, v))
    BY <2>2 DEF Needed, NeededBy
  <2> DEFINE o == Args(k, v)
  <2>4. o \in Op /\ o.key \in Keys /\ o.val \in Vals /\ Needed(k, v) = NeededBy(o)
    BY <2>1, <2>2, <2>3
  <2> HIDE DEF o
  <2>5. NeededBy(o) \in Nat
    BY <2>4, 0 \in Nat, WritingNeeds
  <2> QED BY <2>1, <2>2, <2>3, <2>4, <2>5
<1>5. ASSUME NEW k \in Keys, SetDelete(k) \/ \E v \in Vals : SetFull(k, v)
      PROVE  SpaceInv'
  <2>1. pc' \in {"delete", "idle"}
    BY <1>5 DEF SetDelete, SetFull, Finish
  <2> QED BY <1>1, <1>2, <2>1, SpaceIdle DEF Compacting, Writes
<1>6. ASSUME NEW k \in Keys, NEW v \in Vals, SetWrite(k, v) PROVE SpaceInv'
  <2> DEFINE o == Args(k, v)
  <2>1. op' = Writing(o, LastKeyId(L)) /\ pc' = "hdr" /\ Plan(k, v) = "write"
    BY <1>6 DEF SetWrite, L
  <2>2. LastKeyId(L) \in Nat
    BY <1>1, FindTypes
  <2>3. /\ Needed(k, v) = EntrySize(Words[DatumOf(op')]) + Rest(op')
        /\ EntrySize(Words[DatumOf(op')]) \in Nat /\ Rest(op') \in Nat
    <3>1. o \in Op /\ o.key \in Keys /\ o.val \in Vals /\ Needed(k, v) = NeededBy(o)
      BY <1>4
    <3> HIDE DEF o
    <3> DEFINE n == LastKeyId(L)
               w == op'
    <3>2. n \in Nat /\ w = Writing(o, n)
      BY <2>1, <2>2
    <3> HIDE DEF n, w
    <3>3. w \in Op /\ w.key \in Keys /\ w.val \in Vals
      <4>1. CASE o.id = 0
        <5>1. w = [o EXCEPT !.id = n + 1, !.what = "key"]
          BY <3>2, <4>1 DEF Writing
        <5>2. n + 1 \in Nat
          BY <3>2
        <5> QED BY <3>1, <5>1, <5>2 DEF Op
      <4>2. CASE o.id # 0
        <5>1. w = [o EXCEPT !.what = "val"]
          BY <3>2, <4>2 DEF Writing
        <5> QED BY <3>1, <3>2, <5>1 DEF Op
      <4> QED BY <4>1, <4>2
    <3>4. EntrySize(Words[DatumOf(w)]) \in Nat /\ Rest(w) \in Nat
      BY <3>2, <3>3, WritingNeeds
    <3>5. NeededBy(o) = EntrySize(Words[DatumOf(w)]) + Rest(w)
      BY <3>1, <3>2, WritingNeeds
    <3> QED BY <3>1, <3>4, <3>5 DEF w
  <2>4. ~ (Needed(k, v) > RegionSize - EndOf(L))
    BY <2>1, PlanSpace DEF Free, L
  <2>5. EndOf(L) + EntrySize(Words[DatumOf(op')]) + Rest(op') <= RegionSize
    BY <1>1, <1>3, <2>3, <2>4
  <2>6. log'[cur'] = L
    BY <1>2 DEF L
  <2> QED BY <1>1, <1>2, <2>1, <2>5, <2>6 DEF SpaceInv, Compacting
<1>7. ASSUME NEW k \in Keys, NEW v \in Vals, SetCompact(k, v) PROVE SpaceInv'
  <2> DEFINE o == Args(k, v)
  <2>1. /\ op' = [o EXCEPT !.site = Plan(k, v), !.need = Needed(k, v)] /\ pc' = "format"
        /\ Plan(k, v) \in {"space", "ids", "force"}
    BY <1>7 DEF SetCompact
  <2>2. o \in Op /\ Needed(k, v) = NeededBy(o) /\ Needed(k, v) \in Nat
    BY <1>4
  <2> HIDE DEF o
  <2>3. /\ op'.need = Needed(k, v) /\ op'.site = Plan(k, v)
        /\ op'.key = o.key /\ op'.val = o.val /\ op'.id = o.id
    BY <2>1, <2>2 DEF Op
  <2>4. NeededBy(op') = NeededBy(o)
    BY <2>3 DEF NeededBy
  <2>5. Plan(k, v) # "space" => Needed(k, v) <= Free(L)
    <3> SUFFICES ASSUME Plan(k, v) # "space" PROVE Needed(k, v) <= Free(L)
      OBVIOUS
    <3>1. ~ (Needed(k, v) > RegionSize - EndOf(L))
      BY <2>1, PlanSpace DEF Free, L
    <3> QED BY <1>1, <1>3, <2>2, <3>1 DEF Free
  <2>6. Free(log'[cur']) = Free(L)
    BY <1>2 DEF L
  <2>7. op'.need = NeededBy(op') /\ (op'.site = "space" \/ op'.need <= Free(log'[cur']))
    BY <2>2, <2>3, <2>4, <2>5, <2>6
  <2> QED BY <1>1, <1>2, <2>1, <2>7 DEF SpaceInv, Compacting
<1>8. CASE ScanToEnd
  <2>1. pc' = "idle"
    BY <1>8 DEF ScanToEnd
  <2> QED BY <1>1, <1>2, <2>1, SpaceIdle DEF Compacting, Writes
<1> QED BY <1>5, <1>6, <1>7, <1>8 DEF Begin

\* A compaction copies no more than there is, and what it makes room for is looked at again.
LEMMA SpaceCompact ==
  ASSUME EntriesInv, KeysInv, SpaceInv, Compact
  PROVE  SpaceInv'
<1> DEFINE L == log[cur]
           A == log[Alt(cur)]
<1>1. /\ TypeOK /\ cur \in Region /\ Alt(cur) \in Region /\ Alt(cur) # cur /\ op \in Op
      /\ L \in Seq(Entry) /\ KeysOK(L) /\ A \in Seq(Entry) /\ LensOK(L) /\ LensOK(A)
      /\ \A r \in Region : EndOf(log[r]) <= RegionSize /\ LensOK(log[r])
  BY DEF EntriesInv, TypeOK, KeysInv, SpaceInv, Alt, Region
<1>2. /\ RegionSize \in Nat /\ 2 <= RegionSize
      /\ EndOf(L) \in Nat /\ EndOf(A) \in Nat /\ EndOf(L) <= RegionSize
      /\ \A o : SpaceOf(L, Taken(o, L)) \in Nat /\ 2 + SpaceOf(L, Taken(o, L)) <= EndOf(L)
  <2>1. RegionSize \in Nat /\ 2 <= RegionSize
    BY ConstAssumption
  <2>2. EndOf(L) \in Nat /\ EndOf(A) \in Nat /\ EndOf(L) <= RegionSize
    BY <1>1, SpaceType
  <2>3. ASSUME NEW o
        PROVE  SpaceOf(L, Taken(o, L)) \in Nat /\ 2 + SpaceOf(L, Taken(o, L)) <= EndOf(L)
    <3> DEFINE T == Taken(o, L)
    <3>1. T \in SUBSET DOMAIN L
      BY <1>1, TakenThere
    <3> HIDE DEF T
    <3>2. SpaceOf(L, T) <= SpaceOf(L, DOMAIN L)
      BY <1>1, <3>1, SpaceFewer
    <3>3. SpaceOf(L, T) \in Nat /\ SpaceOf(L, DOMAIN L) \in Nat /\ EndOf(L) = 2 + SpaceOf(L, DOMAIN L)
      BY <1>1, SpaceType
    <3>4. SpaceOf(L, T) \in Nat /\ 2 + SpaceOf(L, T) <= EndOf(L)
      BY <3>2, <3>3
    <3> QED BY <3>4 DEF T
  <2> QED BY <2>1, <2>2, <2>3
<1> HIDE DEF L, A
<1>3. CASE CompactFormat
  <2>1. /\ log' = [log EXCEPT ![Alt(cur)] = <<>>] /\ UNCHANGED <<cur, op>>
        /\ pc = "format" /\ pc' = "copy"
    BY <1>3 DEF CompactFormat
  <2>2. log'[cur] = L /\ log'[Alt(cur)] = <<>> /\ \A r \in Region : r # Alt(cur) => log'[r] = log[r]
    BY <1>1, <2>1 DEF TypeOK, L
  <2>3. EndOf(<<>>) <= RegionSize /\ LensOK(<<>>) /\ EndOf(<<>>) <= 2 + SpaceOf(L, Taken(op, L))
    BY <1>2, EndEmpty DEF LensOK, LiveKeys
  <2>4. \A r \in Region : EndOf(log'[r]) <= RegionSize /\ LensOK(log'[r])
    BY <1>1, <2>2, <2>3
  <2>5. op.need = NeededBy(op) /\ (op.site = "space" \/ op.need <= Free(L))
    BY <2>1 DEF SpaceInv, Compacting, L
  <2> QED BY <1>1, <2>1, <2>2, <2>3, <2>4, <2>5 DEF SpaceInv, Compacting
<1>4. CASE CompactCopy
  <2> DEFINE i == NextKey
             n == op.n + 1
             key == KeyEntry(n, L[i].data, TRUE)
             val == ValueEntry(n, L[FindValue(L, i)])
             own == op.id # 0 /\ L[i].id = op.id
             B == Append(A, key)
             C == Append(B, val)
  <2>1. /\ pc = "copy" /\ i # 0
        /\ log' = [log EXCEPT ![Alt(cur)] = IF own THEN B ELSE C]
        /\ op' = [op EXCEPT !.iter = i, !.n = n, !.id = IF own THEN n ELSE @]
        /\ UNCHANGED <<cur, pc>>
    BY <1>4 DEF CompactCopy, L, A
  <2>2. i \in LiveKeys(L) \ Unused(L) /\ op.iter < i /\ i \in Nat
    <3> DEFINE S == {j \in LiveKeys(L) : j > op.iter /\ ValuesOf(L, j) # {}}
    <3>1. S \in SUBSET Nat /\ i = First(S)
      BY <1>1, KeyTypes DEF NextKey, L
    <3> HIDE DEF S
    <3>2. i \in S
      BY <2>1, <3>1, FirstIn
    <3>3. i \in LiveKeys(L) /\ i > op.iter /\ ValuesOf(L, i) # {}
      BY <3>2 DEF S
    <3>4. i \in Nat /\ op.iter \in Nat
      BY <1>1, <3>1, <3>2 DEF Op
    <3> QED BY <3>3, <3>4 DEF Unused
  <2>3. op.n \in Nat /\ n \in Nat /\ n # 0
    BY <1>1 DEF Op
  <2>4. /\ key \in Entry /\ key.len = L[i].len /\ key.len = Words[key.data]
        /\ val \in Entry /\ val.len = L[FindValue(L, i)].len /\ val.value
    <3>1. key \in Entry /\ val \in Entry
      BY <2>1, <2>3, CopiedEntries DEF L
    <3>2. key.len = Words[L[i].data] /\ key.data = L[i].data
      BY DEF KeyEntry
    <3>3. L[i].len = Words[L[i].data]
      BY <1>1, <2>2 DEF LensOK
    <3>4. FindValue(L, i) \in LiveVals(L) /\ FindValue(L, i) \in DOMAIN L
      BY <1>1, <2>2, TakenThere
    <3>5. L[FindValue(L, i)].value /\ L[FindValue(L, i)] \in Entry
      BY <1>1, <3>4 DEF LiveVals
    <3>6. val.value = L[FindValue(L, i)].value /\ val.len = L[FindValue(L, i)].len
      BY <3>5 DEF ValueEntry, Entry
    <3> QED BY <3>1, <3>2, <3>3, <3>5, <3>6
  <2> HIDE DEF i, n, key, val, own
  <2>5. B \in Seq(Entry) /\ LensOK(B) /\ C \in Seq(Entry) /\ LensOK(C)
    <3>1. B \in Seq(Entry) /\ LensOK(B)
      BY <1>1, <2>4, LensAppend
    <3> HIDE DEF B
    <3> QED BY <2>4, <3>1, LensAppend
  <2>6. /\ op' \in Op /\ op'.iter = i /\ op'.site = op.site /\ op'.key = op.key
        /\ op'.val = op.val /\ op'.need = op.need /\ (op'.id = 0 <=> op.id = 0)
    <3>1. op'.id = IF own THEN n ELSE op.id
      BY <1>1, <2>1 DEF Op
    <3>2. op' \in Op
      BY <1>1, <2>1, <2>2, <2>3 DEF Op
    <3>3. op'.id = 0 <=> op.id = 0
      BY <2>3, <3>1 DEF own
    <3> QED BY <1>1, <2>1, <3>2, <3>3 DEF Op
  <2>7. EndOf(A) <= 2 + SpaceOf(L, Taken(op, L))
    BY <2>1 DEF SpaceInv, Compacting, L, A
  <2>8. /\ EndOf(B) <= 2 + SpaceOf(L, Taken(op', L))
        /\ EndOf(C) <= 2 + SpaceOf(L, Taken(op', L))
    <3> DEFINE p == op'
    <3>1. p \in Op /\ p.iter = i
      BY <2>6
    <3> HIDE DEF p
    <3>2. \A o : 0 \notin LiveKeys(L) /\ Taken(o, L) \ {0} = Taken(o, L)
      <4>1. 0 \notin DOMAIN L /\ LiveKeys(L) \subseteq DOMAIN L
        BY <1>1, KeyTypes
      <4>2. \A o : Taken(o, L) \subseteq DOMAIN L
        BY <1>1, TakenThere
      <4> QED BY <4>1, <4>2
    <3>3. EndOf(A) <= 2 + SpaceOf(L, Taken(op, L) \ {0})
      BY <2>7, <3>2
    <3>4. /\ EndOf(Append(A, key)) <= 2 + SpaceOf(L, Taken(p, L) \ {0})
          /\ 0 # FindValue(L, i) =>
               EndOf(Append(Append(A, key), val)) <= 2 + SpaceOf(L, Taken(p, L) \ {0})
      BY <1>1, <2>2, <2>4, <3>1, <3>2, <3>3, TurnFits
    <3>5. 0 # FindValue(L, i)
      <4>1. FindValue(L, i) \in DOMAIN L
        BY <1>1, <2>2, TakenThere
      <4> QED BY <1>1, <4>1
    <3> QED BY <3>2, <3>4, <3>5 DEF p
  <2> HIDE DEF B, C
  <2>9. EndOf(B) <= RegionSize /\ EndOf(C) <= RegionSize
    <3> DEFINE s == SpaceOf(L, Taken(op', L))
    <3>1. s \in Nat /\ 2 + s <= EndOf(L) /\ EndOf(B) <= 2 + s /\ EndOf(C) <= 2 + s
      BY <1>2, <2>8
    <3>2. EndOf(B) \in Nat /\ EndOf(C) \in Nat
      BY <2>5, SpaceType
    <3> HIDE DEF s
    <3> QED BY <1>2, <3>1, <3>2
  <2>10. /\ log'[Alt(cur)] \in {B, C} /\ log'[cur] = L
         /\ \A r \in Region : r # Alt(cur) => log'[r] = log[r]
    BY <1>1, <2>1 DEF TypeOK, L
  <2>11. \A r \in Region : EndOf(log'[r]) <= RegionSize /\ LensOK(log'[r])
    BY <1>1, <2>5, <2>9, <2>10
  <2>12. op'.need = NeededBy(op') /\ (op'.site = "space" \/ op'.need <= Free(L))
    <3>1. op.need = NeededBy(op) /\ (op.site = "space" \/ op.need <= Free(L))
      BY <2>1 DEF SpaceInv, Compacting, L
    <3> QED BY <2>6, <3>1 DEF NeededBy
  <2>13. EndOf(log'[Alt(cur)]) <= 2 + SpaceOf(L, Taken(op', L))
    BY <2>8, <2>10
  <2> QED BY <1>1, <2>1, <2>10, <2>11, <2>12, <2>13 DEF SpaceInv, Compacting
<1>5. CASE CompactCopied \/ CompactNewHeader
  <2>1. UNCHANGED <<log, cur, op>> /\ pc \in {"copy", "newHdr"} /\ pc' \in {"newHdr", "oldHdr"}
    BY <1>5 DEF CompactCopied, CompactNewHeader, flash
  <2>2. /\ op.need = NeededBy(op) /\ (op.site = "space" \/ op.need <= Free(L))
        /\ EndOf(A) <= 2 + SpaceOf(L, Taken(op, L))
    BY <2>1 DEF SpaceInv, Compacting, L, A
  <2> QED BY <1>1, <2>1, <2>2 DEF SpaceInv, Compacting, L, A
<1>6. CASE CompactOldHeader
  <2>1. UNCHANGED log /\ cur' = Alt(cur) /\ pc = "oldHdr"
    BY <1>6 DEF CompactOldHeader
  <2>2. /\ op.need = NeededBy(op) /\ (op.site = "space" \/ op.need <= Free(L))
        /\ EndOf(A) <= 2 + SpaceOf(L, Taken(op, L)) /\ op.key \in Keys /\ op.val \in Vals
    BY <2>1 DEF SpaceInv, Compacting, L, A, EntriesInv, SetInProgress
  <2>3. CASE pc' = "idle"
    BY <1>1, <2>1, <2>3, SpaceIdle DEF Compacting, Writes
  <2>4. CASE pc' # "idle"
    <3> DEFINE o == [op EXCEPT !.old = IF op.site = "force" THEN @ ELSE NoAddr]
    <3>1. /\ op' = Writing(o, op.n) /\ pc' = "hdr"
          /\ ~ (op.site = "space" /\ op.need > Free(A))
      BY <1>6, <2>4 DEF CompactOldHeader, StillFull, Finish, A
    <3>2. o.id = op.id /\ o.key = op.key /\ o.val = op.val
      BY <1>1 DEF Op
    <3>3. o \in Op
      BY <1>1 DEF Op, NoAddr, Region
    <3> HIDE DEF o
    <3>4. /\ NeededBy(o) = EntrySize(Words[DatumOf(op')]) + Rest(op')
          /\ NeededBy(o) \in Nat
      <4> DEFINE n == op.n
                 w == op'
      <4>1. n \in Nat /\ w = Writing(o, n)
        BY <1>1, <3>1 DEF Op
      <4> HIDE DEF n, w
      <4>2. NeededBy(o) = EntrySize(Words[DatumOf(w)]) + Rest(w) /\ NeededBy(o) \in Nat
        BY <2>2, <3>2, <3>3, <4>1, WritingNeeds
      <4> QED BY <4>2 DEF w
    <3>5. op.need = NeededBy(o)
      BY <2>2, <3>2 DEF NeededBy
    <3>6. EndOf(A) + NeededBy(o) <= RegionSize
      <4> DEFINE s == SpaceOf(L, Taken(op, L))
      <4>1. s \in Nat /\ 2 + s <= EndOf(L) /\ EndOf(A) <= 2 + s
        BY <1>2, <2>2
      <4>2. \/ op.need <= RegionSize - EndOf(L)
            \/ ~ (op.need > RegionSize - EndOf(A))
        BY <2>2, <3>1 DEF Free
      <4> HIDE DEF s
      <4> QED BY <1>2, <3>4, <3>5, <4>1, <4>2
    <3>7. /\ EntrySize(Words[DatumOf(op')]) \in Nat /\ Rest(op') \in Nat
      <4> DEFINE n == op.n
                 w == op'
      <4>1. n \in Nat /\ w = Writing(o, n)
        BY <1>1, <3>1 DEF Op
      <4> HIDE DEF n, w
      <4>2. w.what \in {"key", "val"} /\ w.key = o.key /\ w.val = o.val
        <5>1. CASE o.id = 0
          BY <3>3, <4>1, <5>1 DEF Writing, Op
        <5>2. CASE o.id # 0
          BY <3>3, <4>1, <5>2 DEF Writing, Op
        <5> QED BY <5>1, <5>2
      <4>3. /\ EntrySize(Words[o.key]) \in Nat /\ EntrySize(Words[o.val]) \in Nat
        BY <2>2, <3>2, ConstAssumption DEF EntrySize
      <4>4. EntrySize(Words[DatumOf(w)]) \in Nat /\ Rest(w) \in Nat
        BY <4>2, <4>3 DEF DatumOf, Rest
      <4> QED BY <4>4 DEF w
    <3>8. EndOf(A) + EntrySize(Words[DatumOf(op')]) + Rest(op') <= RegionSize
      BY <1>2, <3>4, <3>6, <3>7
    <3>9. log'[cur'] = A
      BY <2>1 DEF A
    <3> QED BY <1>1, <2>1, <3>1, <3>8, <3>9 DEF SpaceInv, Compacting
  <2> QED BY <2>3, <2>4
<1>7. CASE CompactFault
  <2>1. UNCHANGED log /\ pc' = "idle"
    BY <1>7 DEF CompactFault, Fault, Finish, flash
  <2> QED BY <1>1, <2>1, SpaceIdle DEF Compacting, Writes
<1> QED BY <1>3, <1>4, <1>5, <1>6, <1>7 DEF Compact

\* A deletion makes no log longer.
LEMMA DeletedFits ==
  ASSUME TypeOK, NEW r \in Region, LensOK(log[r])
  PROVE  /\ EndOf(Deleted[r]) \in Nat /\ EndOf(Deleted[r]) <= EndOf(log[r])
         /\ LensOK(Deleted[r])
<1> DEFINE q == op.old.r
           i == op.old.i
           e == [log[q][i] EXCEPT !.alive = FALSE]
           M == [log[q] EXCEPT ![i] = e]
<1>1. q \in Region /\ log \in [Region -> Seq(Entry)] /\ op \in Op
  BY DEF Op, TypeOK
<1>2. Deleted = [log EXCEPT ![q] = M]
  BY <1>1 DEF Deleted
<1>3. EndOf(log[r]) \in Nat
  BY <1>1, SpaceType
<1>4. CASE r = q /\ i \in DOMAIN log[q]
  <2>1. log[q] \in Seq(Entry) /\ log[q][i] \in Entry /\ LensOK(log[q])
    BY <1>1, <1>4
  <2>2. e \in Entry /\ ~e.alive /\ e.len = log[q][i].len
    BY <2>1 DEF Entry
  <2> HIDE DEF e, q
  <2>3. EndOf(M) <= EndOf(log[q])
    BY <2>1, <2>2, EndReplace
  <2>4. LensOK(M)
    BY <2>1, <2>2, LensReplace DEF Live
  <2>5. M \in Seq(Entry)
    <3>1. log[q] \in [1 .. Len(log[q]) -> Entry] /\ Len(log[q]) \in Nat
      BY <2>1
    <3>2. M \in [1 .. Len(log[q]) -> Entry]
      BY <2>2, <3>1
    <3> HIDE DEF M
    <3> QED BY <3>1, <3>2
  <2>6. EndOf(M) \in Nat
    BY <2>5, SpaceType
  <2> HIDE DEF M
  <2>7. Deleted[r] = M
    BY <1>1, <1>2, <1>4
  <2> QED BY <1>4, <2>3, <2>4, <2>6, <2>7
<1>5. CASE ~ (r = q /\ i \in DOMAIN log[q])
  <2>1. r = q => M = log[q]
    BY <1>1, <1>5
  <2> HIDE DEF M, q
  <2>2. Deleted[r] = log[r]
    BY <1>1, <1>2, <2>1
  <2> QED BY <1>3, <2>2
<1> QED BY <1>4, <1>5

\* A write appends what there is room for; all others change entries in place.
LEMMA SpaceWrite ==
  ASSUME EntriesInv, SpaceInv, Write
  PROVE  SpaceInv'
<1> DEFINE L == log[cur]
<1>1. /\ TypeOK /\ cur \in Region /\ op \in Op /\ L \in Seq(Entry)
      /\ \A r \in Region : /\ log[r] \in Seq(Entry)
                           /\ EndOf(log[r]) <= RegionSize /\ LensOK(log[r])
      /\ SetInProgress /\ HalfWritten
  BY DEF EntriesInv, TypeOK, SpaceInv
<1>2. /\ RegionSize \in Nat /\ EndOf(L) \in Nat /\ EndOf(L) <= RegionSize /\ LensOK(L)
      /\ \A r \in Region : EndOf(log[r]) \in Nat
  BY <1>1, SpaceType, ConstAssumption
<1>3. ASSUME pc \in Writes
      PROVE  /\ EntrySize(Words[DatumOf(op)]) \in Nat \ {0} /\ Rest(op) \in Nat
             /\ op.key \in Keys /\ op.val \in Vals /\ op.what \in {"key", "val"}
             /\ Words[DatumOf(op)] \in Nat
  <2>1. op.key \in Keys /\ op.val \in Vals /\ op.what \in {"key", "val"}
    BY <1>1, <1>3 DEF SetInProgress, Writes
  <2>2. EntrySize(Words[DatumOf(op)]) \in Nat \ {0} /\ Rest(op) \in Nat
    BY <1>1, <2>1, 0 \in Nat, WritingNeeds
  <2>3. Words[DatumOf(op)] \in Nat
    BY <2>1, ConstAssumption DEF DatumOf
  <2> QED BY <2>1, <2>2, <2>3
<1>4. ASSUME NEW M, EndOf(M) <= RegionSize, LensOK(M), log' = [log EXCEPT ![cur] = M]
      PROVE  /\ log'[cur] = M
             /\ \A r \in Region : EndOf(log'[r]) <= RegionSize /\ LensOK(log'[r])
  BY <1>1, <1>4 DEF TypeOK
<1>5. CASE WriteHeader
  <2> DEFINE M == Append(L, NewEntry)
  <2>1. /\ pc = "hdr" /\ pc' = "payload" /\ log' = [log EXCEPT ![cur] = M] /\ UNCHANGED <<cur, op>>
    BY <1>5 DEF WriteHeader
  <2>2. /\ NewEntry \in Entry /\ ~NewEntry.valid /\ NewEntry.len = Words[DatumOf(op)]
    <3>1. Words[DatumOf(op)] \in Nat
      BY <1>3, <2>1 DEF Writes
    <3> QED BY <1>1, <3>1 DEF NewEntry, Entry, Op, Payload, DatumOf
  <2>3. EndOf(M) <= EndOf(L) + EntrySize(Words[DatumOf(op)])
    <3>1. EndOf(M) <= EndOf(L) + EntrySize(NewEntry.len)
      BY <1>1, <2>2, EndAppend
    <3> QED BY <2>2, <3>1
  <2>4. M \in Seq(Entry) /\ LensOK(M) /\ M[Len(M)] = NewEntry
    <3>1. ~ Live(NewEntry)
      BY <2>2 DEF Live
    <3>2. LensOK(M)
      BY <1>1, <1>2, <2>2, <3>1, LensAppend
    <3> QED BY <1>1, <2>2, <3>2
  <2> HIDE DEF M, L
  <2>5. EndOf(M) + Rest(op) <= RegionSize /\ EndOf(M) <= RegionSize
    <3>1. EndOf(M) \in Nat
      BY <2>4, SpaceType
    <3>2. EndOf(L) + EntrySize(Words[DatumOf(op)]) + Rest(op) <= RegionSize
      BY <2>1 DEF SpaceInv, L
    <3>3. EntrySize(Words[DatumOf(op)]) \in Nat /\ Rest(op) \in Nat
      BY <1>3, <2>1 DEF Writes
    <3> QED BY <1>2, <2>3, <3>1, <3>2, <3>3
  <2>6. log'[cur] = M /\ \A r \in Region : EndOf(log'[r]) <= RegionSize /\ LensOK(log'[r])
    BY <1>4, <2>1, <2>4, <2>5
  <2>7. log'[cur][Len(M)].len = Words[DatumOf(op)]
    BY <2>2, <2>4, <2>6
  <2> QED BY <2>1, <2>5, <2>6, <2>7 DEF SpaceInv, Compacting, Tip
<1>6. CASE WritePayload
  <2> DEFINE e == [L[Tip] EXCEPT !.data = DatumOf(op)]
             M == [L EXCEPT ![Tip] = e]
  <2>1. /\ pc = "payload" /\ pc' = "valid" /\ log' = [log EXCEPT ![cur] = M] /\ UNCHANGED <<cur, op>>
    BY <1>1, <1>6 DEF WritePayload, TypeOK, DatumOf
  <2>2. /\ Tip \in DOMAIN L /\ ~L[Tip].valid /\ L[Tip] \in Entry
        /\ L[Tip].len = Words[DatumOf(op)] /\ EndOf(L) + Rest(op) <= RegionSize
        /\ DatumOf(op) \in Payload
    <3>1. DatumOf(op) \in Payload
      BY <1>3, <2>1 DEF Writes, DatumOf, Payload
    <3> QED BY <1>1, <2>1, <3>1 DEF HalfWritten, SpaceInv
  <2>3. e \in Entry /\ ~e.valid /\ e.len = L[Tip].len
    BY <2>2 DEF Entry
  <2> HIDE DEF e
  <2>4. EndOf(M) <= EndOf(L)
    BY <1>1, <2>3, EndReplace
  <2>5. LensOK(M)
    BY <1>1, <1>2, <2>3, LensReplace DEF Live
  <2>6. M \in Seq(Entry) /\ Len(M) = Len(L) /\ M[Tip] = e
    <3>1. L \in [1 .. Len(L) -> Entry] /\ Len(L) \in Nat /\ DOMAIN L = 1 .. Len(L)
      BY <1>1
    <3>2. M \in [1 .. Len(L) -> Entry] /\ M[Tip] = e
      <4>1. e \in Entry /\ Tip \in 1 .. Len(L)
        BY <2>2, <2>3, <3>1
      <4> HIDE DEF L
      <4> QED BY <3>1, <4>1
    <3> HIDE DEF M
    <3> QED BY <3>1, <3>2
  <2> HIDE DEF M, L
  <2>7. EndOf(M) + Rest(op) <= RegionSize /\ EndOf(M) <= RegionSize
    <3>1. EndOf(M) \in Nat
      BY <2>6, SpaceType
    <3>2. Rest(op) \in Nat
      BY <1>3, <2>1 DEF Writes
    <3> QED BY <1>2, <2>2, <2>4, <3>1, <3>2
  <2>8. log'[cur] = M /\ \A r \in Region : EndOf(log'[r]) <= RegionSize /\ LensOK(log'[r])
    BY <1>4, <2>1, <2>5, <2>7
  <2>9. log'[cur][Len(M)].len = Words[DatumOf(op)]
    BY <2>2, <2>3, <2>6, <2>8 DEF Tip, L
  <2> QED BY <2>1, <2>7, <2>8, <2>9 DEF SpaceInv, Compacting, Tip
<1>7. ASSUME pc = "valid"
      PROVE  LET M == [L EXCEPT ![Tip].valid = TRUE]
             IN  EndOf(M) <= EndOf(L) /\ EndOf(M) \in Nat /\ LensOK(M)
  <2> DEFINE e == [L[Tip] EXCEPT !.valid = TRUE]
             M == [L EXCEPT ![Tip] = e]
  <2>1. /\ Tip \in DOMAIN L /\ L[Tip] \in Entry
        /\ L[Tip].data = DatumOf(op) /\ L[Tip].len = Words[DatumOf(op)]
    BY <1>1, <1>7 DEF HalfWritten, SpaceInv, DatumOf
  <2>2. e \in Entry /\ e.len = L[Tip].len /\ e.data = L[Tip].data
    BY <2>1 DEF Entry
  <2> HIDE DEF e
  <2>3. EndOf(M) <= EndOf(L)
    BY <1>1, <2>2, EndReplace
  <2>4. LensOK(M)
    BY <1>1, <1>2, <2>1, <2>2, LensReplace
  <2>5. M \in Seq(Entry)
    <3>1. L \in [1 .. Len(L) -> Entry] /\ Len(L) \in Nat
      BY <1>1
    <3>2. M \in [1 .. Len(L) -> Entry]
      BY <2>2, <3>1
    <3> HIDE DEF M
    <3> QED BY <3>1, <3>2
  <2>6. EndOf(M) \in Nat
    BY <2>5, SpaceType
  <2> QED BY <2>3, <2>4, <2>6 DEF e
<1>8. CASE SetValid
  <2> DEFINE M == [L EXCEPT ![Tip].valid = TRUE]
  <2>1. log' = [log EXCEPT ![cur] = M] /\ pc = "valid" /\ cur' = cur
    BY <1>1, <1>8 DEF SetValid, TypeOK
  <2>2. EndOf(M) <= EndOf(L) /\ EndOf(M) \in Nat /\ LensOK(M)
    BY <1>7, <2>1
  <2> HIDE DEF M, L
  <2>3. EndOf(M) <= RegionSize
    BY <1>2, <2>2
  <2>4. log'[cur] = M /\ \A r \in Region : EndOf(log'[r]) <= RegionSize /\ LensOK(log'[r])
    BY <1>4, <2>1, <2>2, <2>3
  <2>5. CASE op.what = "key"
    <3>1. op' = [op EXCEPT !.what = "val"] /\ pc' = "hdr"
      BY <1>8, <2>5 DEF SetValid
    <3>2. op'.what = "val" /\ op'.val = op.val
      BY <1>1, <3>1 DEF Op
    <3>3. /\ DatumOf(op') = op.val /\ Rest(op') = 0 /\ Rest(op) = EntrySize(Words[op.val])
      BY <2>5, <3>2 DEF DatumOf, Rest
    <3>4. EndOf(L) + Rest(op) <= RegionSize /\ Rest(op) \in Nat
      BY <1>3, <2>1 DEF SpaceInv, L, Writes
    <3>5. EndOf(M) + EntrySize(Words[op.val]) + 0 <= RegionSize
      BY <1>2, <2>2, <3>3, <3>4
    <3>6. EndOf(M) + EntrySize(Words[DatumOf(op')]) + Rest(op') <= RegionSize
      BY <3>3, <3>5
    <3> QED BY <2>1, <2>4, <3>1, <3>6 DEF SpaceInv, Compacting
  <2>6. CASE op.what # "key"
    <3>1. pc' \in {"delete", "idle"}
      BY <1>8, <2>6 DEF SetValid, Finish
    <3> QED BY <2>4, <3>1, SpaceIdle DEF Compacting, Writes
  <2> QED BY <2>5, <2>6
<1>9. \A r \in Region : EndOf(Deleted[r]) <= RegionSize /\ LensOK(Deleted[r])
  <2> SUFFICES ASSUME NEW r \in Region
               PROVE  EndOf(Deleted[r]) <= RegionSize /\ LensOK(Deleted[r])
    OBVIOUS
  <2>1. EndOf(Deleted[r]) \in Nat /\ EndOf(Deleted[r]) <= EndOf(log[r]) /\ LensOK(Deleted[r])
    BY <1>1, DeletedFits DEF SpaceInv
  <2>2. EndOf(log[r]) \in Nat /\ EndOf(log[r]) <= RegionSize
    BY <1>1, <1>2
  <2> QED BY <1>2, <2>1, <2>2
<1>10. CASE WriteFault \/ WriteOverLeft
  <2>1. /\ pc' = "idle"
        /\ \/ log' = log
           \/ pc = "hdr" /\ log' = [log EXCEPT ![cur] = Append(L, Blank)]
           \/ pc = "valid" /\ log' = [log EXCEPT ![cur] = [L EXCEPT ![Tip].valid = TRUE]]
    BY <1>1, <1>10 DEF WriteFault, WriteOverLeft, ZeroHeader, Fault, Finish, TypeOK
  <2>2. CASE log' = log
    BY <1>1, <2>1, <2>2, SpaceIdle DEF Compacting, Writes
  <2>3. CASE pc = "hdr" /\ log' = [log EXCEPT ![cur] = Append(L, Blank)]
    <3> DEFINE M == Append(L, Blank)
    <3>1. Blank \in Entry /\ ~ Live(Blank) /\ EntrySize(Blank.len) = 1
      BY DEF Blank, Entry, Live, Payload, EntrySize
    <3>2. LensOK(M) /\ EndOf(M) <= EndOf(L) + EntrySize(Blank.len)
      BY <1>1, <1>2, <3>1, EndAppend, LensAppend
    <3>3. EndOf(M) \in Nat
      <4>1. M \in Seq(Entry)
        BY <1>1, <3>1
      <4> HIDE DEF M
      <4> QED BY <4>1, SpaceType
    <3> HIDE DEF M
    <3>4. EndOf(L) + EntrySize(Words[DatumOf(op)]) + Rest(op) <= RegionSize
      BY <2>3 DEF SpaceInv
    <3>5. EntrySize(Words[DatumOf(op)]) \in Nat \ {0} /\ Rest(op) \in Nat
      BY <1>3, <2>3 DEF Writes
    <3> HIDE DEF L
    <3>6. EndOf(M) <= RegionSize
      BY <1>2, <3>1, <3>2, <3>3, <3>4, <3>5
    <3>7. \A r \in Region : EndOf(log'[r]) <= RegionSize /\ LensOK(log'[r])
      BY <1>4, <2>3, <3>2, <3>6 DEF M
    <3> QED BY <2>1, <3>7, SpaceIdle DEF Compacting, Writes
  <2>4. CASE pc = "valid" /\ log' = [log EXCEPT ![cur] = [L EXCEPT ![Tip].valid = TRUE]]
    <3> DEFINE M == [L EXCEPT ![Tip].valid = TRUE]
    <3>1. EndOf(M) <= EndOf(L) /\ EndOf(M) \in Nat /\ LensOK(M) /\ log' = [log EXCEPT ![cur] = M]
      BY <1>7, <2>4
    <3> HIDE DEF M
    <3>2. EndOf(M) <= RegionSize
      BY <1>2, <3>1
    <3>3. \A r \in Region : EndOf(log'[r]) <= RegionSize /\ LensOK(log'[r])
      BY <1>4, <3>1, <3>2
    <3> QED BY <2>1, <3>3, SpaceIdle DEF Compacting, Writes
  <2> QED BY <2>1, <2>2, <2>3, <2>4
<1>11. CASE DeleteEntry \/ DeleteFault
  <2>1. log' \in {log, Deleted} /\ pc' = "idle"
    BY <1>11 DEF DeleteEntry, DeleteFault, Fault, Finish
  <2>2. \A r \in Region : EndOf(log'[r]) <= RegionSize /\ LensOK(log'[r])
    BY <1>1, <1>9, <2>1
  <2> QED BY <2>1, <2>2, SpaceIdle DEF Compacting, Writes
<1> QED BY <1>5, <1>6, <1>8, <1>10, <1>11 DEF Write

\* For a header that was left at the end of the log in use there is room, if its length is
\* not erased, until another entry is written there.
LeftFits ==
  /\ left # <<>> => pc \in Compacting \cup {"idle", "hdr", "delete"}
  /\ \A e \in Entry : left = <<e>> /\ e # Torn =>
                         EndOf(log[cur]) + EntrySize(e.len) <= RegionSize

\* A step that leaves the log in use and what is at its end alone.
LEMMA LeftKept ==
  ASSUME LeftFits, pc' \in Compacting \cup {"idle", "hdr", "delete"},
         left' = <<>> \/ (left' = left /\ log'[cur'] = log[cur])
  PROVE  LeftFits'
<1>1. EndOf(log[cur])' = EndOf(log'[cur'])
  BY DEF EndOf, SpaceOf, EntrySize
<1> QED BY <1>1 DEF LeftFits, EntrySize

\* Nothing is left, as before a boot and behind an entry that is complete.
LEMMA LeftNone ==
  ASSUME left' = <<>>
  PROVE  LeftFits'
<1>1. \A e : <<>> # <<e>>
  OBVIOUS
<1> QED BY <1>1 DEF LeftFits

\* A header is written only where there is room for its entry.
LEMMA LeftWrite ==
  ASSUME EntriesInv, SpaceInv, LeftFits, Write
  PROVE  LeftFits'
<1> DEFINE L == log[cur]
<1>1. /\ TypeOK /\ cur \in Region /\ L \in Seq(Entry) /\ SetInProgress
      /\ EndOf(L) \in Nat /\ EndOf(L) <= RegionSize /\ LensOK(L) /\ RegionSize \in Nat
  <2>1. TypeOK /\ cur \in Region /\ L \in Seq(Entry) /\ SetInProgress
    BY DEF EntriesInv, TypeOK
  <2> QED BY <2>1, SpaceType, ConstAssumption DEF SpaceInv
<1>2. CASE WriteHeader \/ WriteOverLeft
  BY <1>2, LeftNone DEF WriteHeader, WriteOverLeft, ZeroHeader
<1>3. CASE WritePayload \/ SetValid \/ (WriteFault /\ pc # "hdr")
  <2>1. left = <<>> /\ left' = left
    BY <1>3 DEF WritePayload, SetValid, WriteFault, LeftFits, Compacting
  <2> QED BY <2>1, LeftNone
<1>4. CASE WriteFault /\ pc = "hdr"
  <2>1. /\ UNCHANGED cur /\ pc' = "idle"
        /\ \/ left' = <<>>
           \/ left' \in {left, <<NewEntry>>, <<Torn>>, <<Blank>>} /\ UNCHANGED log
    BY <1>4 DEF WriteFault, ZeroHeader, Fault, Finish
  <2>2. CASE left' = <<>> \/ (left' = left /\ UNCHANGED log)
    BY <2>1, <2>2, LeftKept
  <2>3. CASE left' \in {<<NewEntry>>, <<Torn>>, <<Blank>>} /\ UNCHANGED log
    <3>1. /\ EntrySize(Words[DatumOf(op)]) \in Nat \ {0} /\ Rest(op) \in Nat
          /\ NewEntry.len = Words[DatumOf(op)]
      <4>1. op \in Op /\ op.key \in Keys /\ op.val \in Vals /\ op.what \in {"key", "val"}
        BY <1>1, <1>4 DEF SetInProgress, TypeOK
      <4>2. NewEntry.len = Words[DatumOf(op)]
        BY DEF NewEntry, DatumOf
      <4> QED BY <4>1, <4>2, 0 \in Nat, WritingNeeds
    <3>2. EndOf(L) + EntrySize(Words[DatumOf(op)]) + Rest(op) <= RegionSize
      BY <1>4 DEF SpaceInv
    <3>3. EntrySize(Blank.len) = 1
      BY DEF EntrySize, Blank
    <3> HIDE DEF L
    <3>4. /\ EndOf(L) + EntrySize(NewEntry.len) <= RegionSize
          /\ EndOf(L) + EntrySize(Blank.len) <= RegionSize
      BY <1>1, <3>1, <3>2, <3>3
    <3>5. ASSUME NEW e \in Entry, left' = <<e>>, e # Torn
          PROVE  EndOf(L) + EntrySize(e.len) <= RegionSize
      <4>1. e \in {NewEntry, Blank}
        <5>1. e = left'[1]
          BY <3>5
        <5> QED BY <2>3, <3>5, <5>1
      <4> QED BY <3>4, <4>1
    <3>6. EndOf(log[cur])' = EndOf(L)
      BY <2>1, <2>3 DEF EndOf, SpaceOf, EntrySize, L
    <3>7. \A e \in Entry : left' = <<e>> /\ e # Torn' =>
                              EndOf(log[cur])' + EntrySize(e.len) <= RegionSize
      BY <3>5, <3>6 DEF Torn, Blank
    <3> QED BY <2>1, <3>7 DEF LeftFits, Torn, Blank, EntrySize
  <2> QED BY <2>1, <2>2, <2>3
<1>5. CASE DeleteEntry \/ DeleteFault
  <2>1. /\ UNCHANGED <<cur, left>> /\ pc' = "idle" /\ log' \in {log, Deleted}
    BY <1>5 DEF DeleteEntry, DeleteFault, Fault, Finish
  <2>2. EndOf(log'[cur]) \in Nat /\ EndOf(log'[cur]) <= EndOf(L)
    BY <1>1, <2>1, DeletedFits
  <2> HIDE DEF L
  <2>3. ASSUME NEW e \in Entry, left' = <<e>>, e # Torn
        PROVE  EndOf(log'[cur]) + EntrySize(e.len) <= RegionSize
    <3>1. EndOf(L) + EntrySize(e.len) <= RegionSize
      BY <2>1, <2>3 DEF LeftFits, L
    <3>2. EntrySize(e.len) \in Nat
      BY DEF Entry, EntrySize
    <3> QED BY <1>1, <2>2, <3>1, <3>2
  <2>4. EndOf(log[cur])' = EndOf(log'[cur])
    BY <2>1 DEF EndOf, SpaceOf, EntrySize
  <2> QED BY <2>1, <2>3, <2>4 DEF LeftFits, Torn, Blank, EntrySize
<1> QED BY <1>2, <1>3, <1>4, <1>5 DEF Write

\* Every step.
LEMMA LeftStep == EntriesInv /\ SpaceInv /\ LeftFits /\ [Next]_vars => LeftFits'
<1> SUFFICES ASSUME EntriesInv, SpaceInv, LeftFits, [Next]_vars PROVE LeftFits'
  OBVIOUS
<1>1. CASE Boot
  <2>1. left = <<>> /\ left' = left
    BY <1>1 DEF Boot, BootMount, BootRecover, BootNotFound, RecreateFormat, RecreateHeader,
                CreateActive, CreateStale, BootFault, LeftFits, Compacting
  <2> QED BY <2>1, LeftNone
<1>2. CASE Begin
  <2>1. UNCHANGED <<log, cur, left>> /\ pc' \in {"idle", "delete", "hdr", "format"}
    BY <1>2 DEF Begin, SetDelete, SetWrite, SetCompact, SetFull, Refused, ScanToEnd, Finish,
                flash
  <2> QED BY <2>1, LeftKept DEF Compacting
<1>3. CASE Compact
  <2>1. cur \in Region /\ Alt(cur) # cur /\ log \in [Region -> Seq(Entry)]
    BY DEF EntriesInv, TypeOK, Alt, Region
  <2>2. CASE CompactOldHeader
    BY <2>2, LeftNone DEF CompactOldHeader
  <2>3. CASE ~ CompactOldHeader
    <3>1. UNCHANGED <<cur, left>> /\ pc' \in Compacting \cup {"idle"}
      BY <1>3, <2>3 DEF Compact, CompactFormat, CompactCopy, CompactCopied, CompactNewHeader,
                        CompactFault, Fault, Finish, flash, Compacting
    <3>2. log' = log \/ \E M : log' = [log EXCEPT ![Alt(cur)] = M]
      BY <1>3, <2>3 DEF Compact, CompactFormat, CompactCopy, CompactCopied, CompactNewHeader,
                        CompactFault, flash
    <3>3. log'[cur'] = log[cur]
      BY <2>1, <3>1, <3>2
    <3> QED BY <3>1, <3>3, LeftKept
  <2> QED BY <2>2, <2>3
<1>4. CASE Crash
  BY <1>4, LeftNone DEF Crash
<1>5. CASE UNCHANGED vars
  <2>1. UNCHANGED <<log, cur, left, pc>>
    BY <1>5 DEF vars
  <2>2. EndOf(log[cur])' = EndOf(log[cur])
    BY <2>1 DEF EndOf, SpaceOf, EntrySize
  <2> QED BY <2>1, <2>2 DEF LeftFits, EntrySize
<1> QED BY <1>1, <1>2, <1>3, <1>4, <1>5, LeftWrite DEF Next

LEMMA LeftInit == Init => LeftFits
<1>1. \A e : <<>> # <<e>>
  OBVIOUS
<1> QED BY <1>1 DEF Init, LeftFits

\* Every step.
LEMMA SpaceStep == EntriesInv /\ KeysInv /\ SpaceInv /\ LeftFits /\ [Next]_vars => SpaceInv'
<1> SUFFICES ASSUME EntriesInv, KeysInv, SpaceInv, LeftFits, [Next]_vars PROVE SpaceInv'
  OBVIOUS
<1>1. CASE Crash
  <2>1. /\ pc' = "off" /\ TypeOK /\ cur \in Region /\ log \in [Region -> Seq(Entry)]
        /\ \A r \in Region : EndOf(log[r]) <= RegionSize /\ LensOK(log[r])
    BY <1>1 DEF Crash, EntriesInv, TypeOK, SpaceInv
  <2>2. ASSUME NEW e \in Entry, ~Live(e), left = <<e>>, e # Torn,
               log' = [log EXCEPT ![cur] = Append(@, e)]
        PROVE  \A r \in Region : EndOf(log'[r]) <= RegionSize /\ LensOK(log'[r])
    <3> DEFINE L == log[cur]
               M == Append(L, e)
    <3>1. L \in Seq(Entry) /\ LensOK(L) /\ M \in Seq(Entry)
      BY <2>1
    <3>2. EndOf(M) <= EndOf(L) + EntrySize(e.len) /\ LensOK(M)
      BY <2>2, <3>1, EndAppend, LensAppend
    <3>3. EndOf(L) + EntrySize(e.len) <= RegionSize
      BY <2>2 DEF LeftFits
    <3>4. log'[cur] = M /\ \A r \in Region : r # cur => log'[r] = log[r]
      BY <2>1, <2>2
    <3> HIDE DEF L, M
    <3>5. EndOf(M) \in Nat /\ EndOf(L) \in Nat /\ EntrySize(e.len) \in Nat /\ RegionSize \in Nat
      <4>1. EntrySize(e.len) \in Nat
        BY DEF EntrySize, Entry
      <4>2. EndOf(M) \in Nat /\ EndOf(L) \in Nat
        BY <3>1, SpaceType
      <4> QED BY <4>1, <4>2, ConstAssumption
    <3>6. EndOf(M) <= RegionSize
      BY <3>2, <3>3, <3>5
    <3> QED BY <2>1, <3>2, <3>4, <3>6
  <2>3. \A r \in Region : EndOf(log'[r]) <= RegionSize /\ LensOK(log'[r])
    BY <1>1, <2>1, <2>2, CrashLog
  <2> QED BY <2>1, <2>3, SpaceIdle DEF Compacting, Writes
<1>2. CASE UNCHANGED vars
  <2>1. UNCHANGED <<log, cur, op, pc>>
    BY <1>2 DEF vars
  <2> QED BY <2>1 DEF SpaceInv, Compacting, Tip, Alt
<1> QED BY <1>1, <1>2, SpaceBoot, SpaceBegin, SpaceCompact, SpaceWrite DEF Next

LEMMA SpaceInit == Init => SpaceInv
<1> SUFFICES ASSUME Init PROVE SpaceInv
  OBVIOUS
<1>1. \A r \in Region : log[r] = <<>>
  BY DEF Init
<1>2. EndOf(<<>>) <= RegionSize /\ LensOK(<<>>)
  BY EndEmpty, ConstAssumption DEF LensOK, LiveKeys
<1> QED BY <1>1, <1>2 DEF Init, SpaceInv, Compacting

\* No log runs past its region, whatever fails or is cut short, although _write_entry and
\* _compact_params check no bound: sysparam_set_data has counted the free space before, a
\* compaction takes no more than the log it copies, and after it the space is counted again.
THEOREM LogsFit == Spec => []FitsRegion
<1>1. SpaceInv => FitsRegion
  BY DEF SpaceInv, FitsRegion
<1> QED BY <1>1, SpaceInit, LeftInit, KeysInit, EntriesInit, EntriesStep, KeysStep, SpaceStep,
           LeftStep, PTL DEF Spec

-----------------------------------------------------------------------------
(* Values.  Without failures, power cuts and deletions every key has one   *)
(* value, except the key that a set is about.                              *)

\* Every value has its key before it, and every key has one value, but a key with
\* this id has the values S.
Pairs(L, id, S) ==
  /\ \A i \in LiveKeys(L) : IF L[i].id = id THEN ValuesOf(L, i) = S
                            ELSE \E j \in DOMAIN L : ValuesOf(L, i) = {j}
  /\ \A j \in LiveVals(L) : \E i \in LiveKeys(L) : i < j /\ L[i].id = L[j].id

\* A log in which readers see the same.
LEMMA PairsSame ==
  ASSUME NEW L, NEW M, NEW id, NEW S, Pairs(L, id, S), DOMAIN L \subseteq DOMAIN M,
         LiveKeys(M) = LiveKeys(L), LiveVals(M) = LiveVals(L),
         \A i \in LiveKeys(L) \cup LiveVals(L) : M[i].id = L[i].id /\ M[i].data = L[i].data
  PROVE  /\ Pairs(M, id, S)
         /\ \A o : OwnKey(o, L) => OwnKey(o, M)
<1>1. \A i \in LiveKeys(L) : ValuesOf(M, i) = ValuesOf(L, i)
  BY DEF ValuesOf
<1>2. Pairs(M, id, S)
  BY <1>1 DEF Pairs
<1>3. \A o : OwnKey(o, L) => OwnKey(o, M)
  BY DEF OwnKey
<1> QED BY <1>2, <1>3

\* A new key at n, behind all that is there.
LEMMA PairsKey ==
  ASSUME NEW L, NEW M, Pairs(L, 0, {}), NEW n \in Nat, NEW id,
         DOMAIN L \subseteq DOMAIN M, LiveKeys(L) \subseteq Nat, LiveVals(L) \subseteq Nat,
         LiveKeys(M) = LiveKeys(L) \cup {n}, LiveVals(M) = LiveVals(L),
         \A i \in LiveKeys(L) \cup LiveVals(L) : M[i].id = L[i].id /\ i < n,
         M[n].id = id, \A i \in LiveKeys(L) : L[i].id # id /\ L[i].id # 0
  PROVE  Pairs(M, id, {})
<1>1. \A i \in LiveKeys(L) : ValuesOf(M, i) = ValuesOf(L, i) /\ M[i].id # id
  BY DEF ValuesOf
<1>2. ValuesOf(M, n) = {}
  <2>1. \A j \in LiveVals(L) : ~ (j > n)
    <3>1. \A j \in LiveVals(L) : j \in Nat /\ j < n
      OBVIOUS
    <3> QED BY <3>1
  <2> QED BY <2>1 DEF ValuesOf
<1>3. \A i \in LiveKeys(L) : \E j \in DOMAIN M : ValuesOf(M, i) = {j}
  BY <1>1 DEF Pairs
<1>4. \A j \in LiveVals(M) : \E i \in LiveKeys(M) : i < j /\ M[i].id = M[j].id
  BY DEF Pairs
<1> QED BY <1>1, <1>2, <1>3, <1>4 DEF Pairs

\* A value at n, behind all that is there, of the key with this id.
LEMMA PairsVal ==
  ASSUME NEW L, NEW M, NEW id, NEW S, Pairs(L, id, S), NEW n \in Nat,
         DOMAIN L \subseteq DOMAIN M, LiveKeys(L) \subseteq Nat, LiveVals(L) \subseteq Nat,
         LiveKeys(M) = LiveKeys(L), LiveVals(M) = LiveVals(L) \cup {n}, n \notin LiveVals(L),
         \A i \in LiveKeys(L) \cup LiveVals(L) : M[i].id = L[i].id /\ i < n,
         M[n].id = id, \E i \in LiveKeys(L) : L[i].id = id
  PROVE  Pairs(M, id, S \cup {n})
<1>1. ASSUME NEW i \in LiveKeys(L), L[i].id = id PROVE ValuesOf(M, i) = S \cup {n}
  <2>1. ValuesOf(M, i) = ValuesOf(L, i) \cup {n}
    <3>1. n > i
      OBVIOUS
    <3> QED BY <1>1, <3>1 DEF ValuesOf
  <2> QED BY <1>1, <2>1 DEF Pairs
<1>2. ASSUME NEW i \in LiveKeys(L), L[i].id # id PROVE \E j \in DOMAIN M : ValuesOf(M, i) = {j}
  <2>1. ValuesOf(M, i) = ValuesOf(L, i)
    BY <1>2 DEF ValuesOf
  <2> QED BY <1>2, <2>1 DEF Pairs
<1>3. \A j \in LiveVals(M) : \E i \in LiveKeys(M) : i < j /\ M[i].id = M[j].id
  BY DEF Pairs
<1> QED BY <1>1, <1>2, <1>3 DEF Pairs

\* A new key at n and its value at m, behind all that is there.
LEMMA PairsTurn ==
  ASSUME NEW L, NEW M, NEW id, NEW S, Pairs(L, id, S), NEW n \in Nat, NEW m \in DOMAIN M, n < m,
         m \in Nat, DOMAIN L \subseteq DOMAIN M, LiveKeys(L) \subseteq Nat, LiveVals(L) \subseteq Nat,
         LiveKeys(M) = LiveKeys(L) \cup {n}, LiveVals(M) = LiveVals(L) \cup {m},
         m \notin LiveVals(L), n \notin LiveKeys(L),
         \A i \in LiveKeys(L) \cup LiveVals(L) : M[i].id = L[i].id /\ i < n,
         M[n].id # id, M[m].id = M[n].id, \A i \in LiveKeys(L) : L[i].id # M[n].id
  PROVE  Pairs(M, id, S)
<1>1. ASSUME NEW i \in LiveKeys(L) PROVE ValuesOf(M, i) = ValuesOf(L, i)
  BY DEF ValuesOf
<1>2. ValuesOf(M, n) = {m}
  <2>1. \A j \in LiveVals(L) : ~ (j > n)
    <3>1. \A j \in LiveVals(L) : j \in Nat /\ j < n
      OBVIOUS
    <3> QED BY <3>1
  <2> QED BY <2>1 DEF ValuesOf
<1>3. \A j \in LiveVals(M) : \E i \in LiveKeys(M) : i < j /\ M[i].id = M[j].id
  BY DEF Pairs
<1>4. \A i \in LiveKeys(L) : IF M[i].id = id THEN ValuesOf(M, i) = S
                             ELSE \E j \in DOMAIN M : ValuesOf(M, i) = {j}
  BY <1>1 DEF Pairs
<1> QED BY <1>2, <1>3, <1>4 DEF Pairs

\* A value of the key with this id goes.
LEMMA PairsLess ==
  ASSUME NEW L, NEW M, NEW id, NEW S, Pairs(L, id, S), NEW v, DOMAIN L \subseteq DOMAIN M,
         LiveKeys(M) = LiveKeys(L), LiveVals(M) = LiveVals(L) \ {v}, v \in S,
         \A i \in LiveKeys(L) \cup LiveVals(L) : M[i].id = L[i].id,
         \E i \in LiveKeys(L) : L[i].id = id
  PROVE  Pairs(M, id, S \ {v})
<1>1. v \in LiveVals(L) /\ L[v].id = id
  BY DEF Pairs, ValuesOf
<1>2. \A i \in LiveKeys(L) : ValuesOf(M, i) = ValuesOf(L, i) \ {v}
  BY DEF ValuesOf
<1>3. \A i \in LiveKeys(L) : L[i].id # id => v \notin ValuesOf(L, i)
  BY <1>1 DEF ValuesOf
<1>4. \A i \in LiveKeys(L) : IF M[i].id = id THEN ValuesOf(M, i) = S \ {v}
                             ELSE \E j \in DOMAIN M : ValuesOf(M, i) = {j}
  <2> SUFFICES ASSUME NEW i \in LiveKeys(L)
               PROVE  IF M[i].id = id THEN ValuesOf(M, i) = S \ {v}
                      ELSE \E j \in DOMAIN M : ValuesOf(M, i) = {j}
    OBVIOUS
  <2>1. CASE L[i].id = id
    BY <1>2, <2>1 DEF Pairs
  <2>2. CASE L[i].id # id
    <3>1. ValuesOf(M, i) = ValuesOf(L, i)
      BY <1>2, <1>3, <2>2
    <3> QED BY <2>2, <3>1 DEF Pairs
  <2> QED BY <2>1, <2>2
<1>5. \A j \in LiveVals(M) : \E i \in LiveKeys(M) : i < j /\ M[i].id = M[j].id
  BY DEF Pairs
<1> QED BY <1>4, <1>5 DEF Pairs

-----------------------------------------------------------------------------
(* What readers get                                                        *)

\* What sysparam_set_data finds of its key.
LEMMA ArgsFound ==
  ASSUME log[cur] \in Seq(Entry), KeysOK(log[cur]), Pairs(log[cur], 0, {}), NEW k
  PROVE  LET L == log[cur]
         IN  /\ IdOf(k) = 0 => OldValue(k) = 0 /\ \A i \in LiveKeys(L) : L[i].data # k
             /\ IdOf(k) # 0 => /\ OldValue(k) \in Nat \ {0}
                               /\ \E i \in LiveKeys(L) : /\ L[i].data = k /\ L[i].id = IdOf(k)
                                                         /\ ValuesOf(L, i) = {OldValue(k)}
<1> DEFINE L == log[cur]
<1>1. CASE \A i \in LiveKeys(L) : L[i].data # k
  <2>1. FindKey(L, k) = 0
    BY <1>1, GetNone
  <2> QED BY <1>1, <2>1 DEF IdOf, OldValue
<1>2. CASE \E i \in LiveKeys(L) : L[i].data = k
  <2>1. PICK i \in LiveKeys(L) : L[i].data = k
    BY <1>2
  <2>2. L[i].id # 0
    BY DEF KeysOK
  <2>3. FindKey(L, k) = i /\ i # 0
    BY <2>1, NameFound
  <2>4. PICK t : ValuesOf(L, i) = {t}
    BY <2>2 DEF Pairs
  <2>5. FindValue(L, i) = t /\ t \in Nat \ {0}
    BY <2>4, GetOwn
  <2>6. IdOf(k) = L[i].id /\ OldValue(k) = t
    BY <2>3, <2>5 DEF IdOf, OldValue
  <2> QED BY <2>1, <2>2, <2>4, <2>5, <2>6
<1> QED BY <1>1, <1>2

-----------------------------------------------------------------------------
(* A set that nothing disturbs                                             *)

Undisturbed == Faults = {} /\ ~Deletes

\* The key of the set has been copied.
Moved(o, L) == \E i \in LiveKeys(L) : i <= o.iter /\ L[i].data = o.key

\* The position of the old value, if it is in region r.
OldIn(o, r) == IF o.old = NoAddr \/ o.old.r # r THEN {} ELSE {o.old.i}

\* What the set knows of its key while the log L of region r is compacted, and what there
\* is room for then.
FoundOK(o, r, L) ==
  /\ o.id = 0 => o.old = NoAddr
  /\ o.id # 0 =>
       /\ o.old.r = r /\ o.old # NoAddr
       /\ \E i \in LiveKeys(L) : /\ L[i].data = o.key /\ ValuesOf(L, i) = {o.old.i}
                                 /\ i > o.iter => L[i].id = o.id
       /\ o.site = "space" =>
            o.need <= Free(L) + Compactable(L) + EntrySize(L[o.old.i].len)

\* What has been copied from the log L of region r to A, without the old value.
MovedOK(o, r, L, A) ==
  /\ Moved(o, L) => o.id # 0 /\ OwnKey(o, A)
  /\ Pairs(A, IF Moved(o, L) THEN o.id ELSE 0, {})
  /\ EndOf(A) <= 2 + SpaceOf(L, Taken(o, L) \ OldIn(o, r))

WrittenOK(o, r, L) ==
  /\ o.what = "key" => Pairs(L, 0, {}) /\ o.old = NoAddr
  /\ o.what # "key" => OwnKey(o, L) /\ Pairs(L, o.id, OldIn(o, r))

\* The new value is there, and the old one still is.
ReplacedOK(o, r, L) ==
  /\ o.old # NoAddr /\ OwnKey(o, L)
  /\ \E t \in DOMAIN L \ OldIn(o, r) :
       L[t].data = o.val /\ Pairs(L, o.id, OldIn(o, r) \cup {t})

ValuesInv ==
  /\ "header" \notin spoilt /\ \A r \in Region : ~torn[r]
  /\ pc \notin Setting \cup {"idle"} => \A r \in Region : log[r] = <<>>
  /\ pc \in Compacting \cup {"idle"} => Pairs(log[cur], 0, {})
  /\ pc = "format" => op.iter = 0
  /\ pc \in Compacting => FoundOK(op, cur, log[cur])
  /\ pc \in Compacting \ {"format"} => MovedOK(op, cur, log[cur], log[Alt(cur)])
  /\ pc \in {"newHdr", "oldHdr"} /\ op.id # 0 => Moved(op, log[cur])
  /\ pc \in Writes => WrittenOK(op, cur, log[cur])
  /\ pc \in Writes \ {"hdr"} => log[cur][Tip].alive
  /\ pc = "delete" => ReplacedOK(op, cur, log[cur])

\* Nothing fails and nothing is deleted.
LEMMA NoMishap ==
  ASSUME Undisturbed
  PROVE  /\ ~ BootFault /\ ~ CompactFault /\ ~ WriteFault /\ ~ DeleteFault /\ ~ Crash
         /\ \A k : ~ SetDelete(k)
BY DEF Undisturbed, BootFault, CompactFault, WriteFault, DeleteFault, Crash, SetDelete, Fault,
       Mishap

\* A region just formatted.
LEMMA PairsEmpty == Pairs(<<>>, 0, {})
BY DEF Pairs, LiveKeys, LiveVals

\* A key with one value is nothing special, and neither is one that is.
LEMMA PairsOwn ==
  ASSUME NEW L \in Seq(Entry), KeysOK(L), NEW t \in DOMAIN L
  PROVE  /\ \A i \in LiveKeys(L) : Pairs(L, 0, {}) /\ ValuesOf(L, i) = {t} => Pairs(L, L[i].id, {t})
         /\ \A id : Pairs(L, id, {t}) => Pairs(L, 0, {})
<1>1. \A i \in LiveKeys(L) : L[i].id # 0
  BY DEF KeysOK
<1>2. ASSUME NEW i \in LiveKeys(L), Pairs(L, 0, {}), ValuesOf(L, i) = {t}
      PROVE  Pairs(L, L[i].id, {t})
  <2>1. ASSUME NEW j \in LiveKeys(L), L[j].id = L[i].id PROVE j = i
    <3>1. i \in Nat /\ j \in Nat /\ L[i].id \in Nat
      BY KeyTypes
    <3>2. ~ (i < j) /\ ~ (j < i)
      BY <2>1, <3>1 DEF KeysOK
    <3> QED BY <3>1, <3>2
  <2> QED BY <1>1, <1>2, <2>1 DEF Pairs
<1>3. ASSUME NEW id, Pairs(L, id, {t}) PROVE Pairs(L, 0, {})
  BY <1>1, <1>3 DEF Pairs
<1> QED BY <1>2, <1>3

\* When every key has a value, none is unused.
LEMMA NoneUnused ==
  ASSUME NEW L \in Seq(Entry), KeysOK(L), Pairs(L, 0, {})
  PROVE  Unused(L) = {} /\ ~ (UnusedKeys(L) > 0)
<1>1. \A i \in LiveKeys(L) : ValuesOf(L, i) # {}
  <2>1. \A i \in LiveKeys(L) : L[i].id # 0
    BY DEF KeysOK
  <2> QED BY <2>1 DEF Pairs
<1>2. Unused(L) = {}
  BY <1>1 DEF Unused
<1> QED BY <1>2, UnusedExists

\* A boot finds or makes an empty store.
LEMMA ValuesBoot ==
  ASSUME Undisturbed, EntriesInv, ValuesInv, Boot
  PROVE  ValuesInv'
<1>1. /\ log \in [Region -> Seq(Entry)] /\ torn \in [Region -> BOOLEAN] /\ cur' \in Region
      /\ \A r \in Region : log[r] = <<>> /\ ~torn[r]
  <2>1. pc \notin Setting \cup {"idle"} /\ cur' \in {cur, Recovered}
    BY NoMishap DEF Boot, BootMount, BootRecover, BootNotFound, RecreateFormat, RecreateHeader,
                    CreateActive, CreateStale, Setting
  <2>2. Recovered \in Region
    BY DEF Recovered, Found, Alt, Region
  <2> QED BY <2>1, <2>2 DEF ValuesInv, EntriesInv, TypeOK
<1>2. /\ pc' \notin Setting /\ UNCHANGED spoilt
      /\ \/ UNCHANGED <<log, torn>>
         \/ /\ log' = [log EXCEPT ![Alt(Found)] = <<>>]
            /\ torn' = [torn EXCEPT ![Alt(Found)] = FALSE]
  BY NoMishap DEF Boot, BootMount, BootRecover, BootNotFound, RecreateFormat, RecreateHeader,
                  CreateActive, CreateStale, Setting, flash, history
<1>3. \A r \in Region : log'[r] = <<>> /\ ~torn'[r]
  BY <1>1, <1>2
<1>4. Pairs(log'[cur'], 0, {})
  BY <1>1, <1>3, PairsEmpty
<1> QED BY <1>2, <1>3, <1>4 DEF ValuesInv, Compacting, Writes, Setting

\* A set begins with what it found of its key.
LEMMA ValuesBegin ==
  ASSUME Undisturbed, EntriesInv, KeysInv, ValuesInv, left = <<>>, Begin
  PROVE  ValuesInv'
<1> DEFINE L == log[cur]
<1>1. /\ L \in Seq(Entry) /\ KeysOK(L) /\ TypeOK /\ cur \in Region /\ Pairs(L, 0, {})
      /\ "header" \notin spoilt /\ \A r \in Region : ~torn[r]
  <2>1. pc = "idle"
    BY DEF Begin, SetDelete, SetWrite, SetCompact, SetFull, Refused, ScanToEnd
  <2> QED BY <2>1 DEF EntriesInv, TypeOK, KeysInv, ValuesInv
<1>2. UNCHANGED <<log, cur, torn, spoilt>>
  BY DEF Begin, SetDelete, SetWrite, SetCompact, SetFull, ScanToEnd, flash, history
<1>3. ASSUME NEW k
      PROVE  /\ IdOf(k) = 0 => OldValue(k) = 0
             /\ IdOf(k) # 0 =>
                  /\ OldValue(k) \in Nat \ {0}
                  /\ \E i \in LiveKeys(L) : /\ L[i].data = k /\ L[i].id = IdOf(k)
                                            /\ ValuesOf(L, i) = {OldValue(k)}
                                            /\ Pairs(L, IdOf(k), {OldValue(k)})
  <2>1. /\ IdOf(k) = 0 => OldValue(k) = 0
        /\ IdOf(k) # 0 => /\ OldValue(k) \in Nat \ {0}
                          /\ \E i \in LiveKeys(L) : /\ L[i].data = k /\ L[i].id = IdOf(k)
                                                    /\ ValuesOf(L, i) = {OldValue(k)}
    BY <1>1, ArgsFound
  <2>2. ASSUME NEW i \in LiveKeys(L), NEW t, ValuesOf(L, i) = {t} PROVE Pairs(L, L[i].id, {t})
    <3>1. t \in DOMAIN L
      BY <1>1, <2>2, GetOwn
    <3> QED BY <1>1, <2>2, <3>1, PairsOwn
  <2> QED BY <2>1, <2>2
<1>4. ASSUME NEW k \in Keys, NEW v \in Vals
      PROVE  /\ Args(k, v) \in Op /\ Args(k, v).key = k /\ Args(k, v).id = IdOf(k)
             /\ Args(k, v).iter = 0
             /\ Args(k, v).old = IF OldValue(k) = 0 THEN NoAddr ELSE [r |-> cur, i |-> OldValue(k)]
  <2>1. Args(k, v) \in Op
    BY <1>1, ArgsType
  <2> QED BY <2>1 DEF Args, NoOp
<1> HIDE DEF L
<1>5. ASSUME NEW k \in Keys, NEW v \in Vals, SetFull(k, v) PROVE ValuesInv'
  <2>1. pc' = "idle"
    BY <1>5 DEF SetFull, Finish
  <2> QED BY <1>1, <1>2, <2>1 DEF ValuesInv, Compacting, Writes, Setting, L
<1>6. ASSUME NEW k \in Keys, NEW v \in Vals, SetWrite(k, v) PROVE ValuesInv'
  <2> DEFINE o == Args(k, v)
             n == LastKeyId(L)
  <2>1. op' = Writing(o, n) /\ pc' = "hdr"
    BY <1>6 DEF SetWrite, L
  <2>2. /\ o \in Op /\ o.key = k /\ o.id = IdOf(k)
        /\ o.old = IF OldValue(k) = 0 THEN NoAddr ELSE [r |-> cur, i |-> OldValue(k)]
    BY <1>4
  <2> HIDE DEF o, n
  <2>3. WrittenOK(op', cur, L)
    <3>1. CASE IdOf(k) = 0
      <4>1. op'.what = "key" /\ op'.old = NoAddr
        BY <1>3, <2>1, <2>2, <3>1 DEF Writing, Op
      <4> QED BY <1>1, <4>1 DEF WrittenOK
    <3>2. CASE IdOf(k) # 0
      <4>1. op'.what = "val" /\ op'.key = k /\ op'.id = IdOf(k) /\ op'.old = o.old
        BY <2>1, <2>2, <3>2 DEF Writing, Op
      <4>2. o.old = [r |-> cur, i |-> OldValue(k)] /\ OldValue(k) # 0
        BY <1>3, <2>2, <3>2
      <4>3. OldIn(op', cur) = {OldValue(k)}
        BY <4>1, <4>2 DEF OldIn, NoAddr
      <4>4. OwnKey(op', L) /\ Pairs(L, op'.id, OldIn(op', cur))
        BY <1>3, <3>2, <4>1, <4>3 DEF OwnKey
      <4> QED BY <4>1, <4>4 DEF WrittenOK
    <3> QED BY <3>1, <3>2
  <2> QED BY <1>1, <1>2, <2>1, <2>3 DEF ValuesInv, Compacting, Writes, Setting, L
<1>7. ASSUME NEW k \in Keys, NEW v \in Vals, SetCompact(k, v) PROVE ValuesInv'
  <2> DEFINE o == Args(k, v)
  <2>1. /\ op' = [o EXCEPT !.site = Plan(k, v), !.need = Needed(k, v)] /\ pc' = "format"
    BY <1>7 DEF SetCompact
  <2>2. /\ o \in Op /\ o.key = k /\ o.id = IdOf(k) /\ o.iter = 0
        /\ o.old = IF OldValue(k) = 0 THEN NoAddr ELSE [r |-> cur, i |-> OldValue(k)]
    BY <1>4
  <2> HIDE DEF o
  <2>3. /\ op'.need = Needed(k, v) /\ op'.site = Plan(k, v)
        /\ op'.key = k /\ op'.id = IdOf(k) /\ op'.old = o.old /\ op'.iter = 0
    BY <2>1, <2>2 DEF Op
  <2>4. Plan(k, v) = "space" /\ OldValue(k) # 0 =>
          Needed(k, v) <= Free(L) + Compactable(L) + EntrySize(L[OldValue(k)].len)
    <3>1. Plan(k, v) = "space" => MayGain(k, v)
      BY DEF Plan
    <3>2. ~ torn[cur] /\ ~ (UnusedKeys(L) > 0)
      BY <1>1, NoneUnused
    <3>3. L \o left = L /\ ~ MeetsTorn
      <4>1. L \o <<>> = L
        BY <1>1
      <4> QED BY <4>1 DEF MeetsTorn
    <3> QED BY <3>1, <3>2, <3>3 DEF MayGain, L
  <2>5. FoundOK(op', cur, L)
    <3>1. CASE IdOf(k) = 0
      <4>1. op'.id = 0 /\ op'.old = NoAddr
        BY <1>3, <2>2, <2>3, <3>1
      <4> QED BY <4>1 DEF FoundOK
    <3>2. CASE IdOf(k) # 0
      <4>1. op'.old = [r |-> cur, i |-> OldValue(k)] /\ OldValue(k) # 0
        BY <1>3, <2>2, <2>3, <3>2
      <4>2. op'.old.r = cur /\ op'.old.i = OldValue(k) /\ op'.old # NoAddr
        BY <4>1 DEF NoAddr
      <4>3. \E i \in LiveKeys(L) : /\ L[i].data = op'.key /\ ValuesOf(L, i) = {op'.old.i}
                                   /\ L[i].id = op'.id
        BY <1>3, <2>3, <3>2, <4>2
      <4> QED BY <2>3, <2>4, <3>2, <4>1, <4>2, <4>3 DEF FoundOK
    <3> QED BY <3>1, <3>2
  <2> QED BY <1>1, <1>2, <2>1, <2>3, <2>5 DEF ValuesInv, Compacting, Writes, Setting, L
<1>8. ~ ScanToEnd
  BY DEF ScanToEnd, MeetsTorn
<1> QED BY <1>5, <1>6, <1>7, <1>8, NoMishap DEF Begin

\* No two keys have one name or one id.
LEMMA SameKey ==
  ASSUME NEW L \in Seq(Entry), KeysOK(L), NEW i \in LiveKeys(L), NEW j \in LiveKeys(L),
         L[i].data = L[j].data \/ L[i].id = L[j].id
  PROVE  i = j
<1>1. i \in Nat /\ j \in Nat /\ L[i].id \in Nat /\ L[j].id \in Nat
  BY KeyTypes
<1>2. ~ (i < j) /\ ~ (j < i)
  BY <1>1 DEF KeysOK
<1> QED BY <1>1, <1>2

\* One turn of the copy loop leaves the old value out exactly when the key is the one that
\* is being set.
LEMMA MovedTurn ==
  ASSUME NEW L \in Seq(Entry), KeysOK(L), Pairs(L, 0, {}), NEW A \in Seq(Entry), KeysOK(A),
         NEW o \in Op, NEW p \in Op, NEW r, CopyOK(o, L), CopiedOK(o, L, A), FoundOK(o, r, L),
         MovedOK(o, r, L, A),
         NEW i \in LiveKeys(L) \ Unused(L), o.iter < i,
         \A j \in LiveKeys(L) : j <= o.iter \/ i <= j,
         NEW key \in Entry, Live(key), ~key.value, key.id = o.n + 1, key.data = L[i].data,
         key.len = L[i].len,
         NEW val \in Entry, Live(val), val.value, val.id = o.n + 1,
         val.len = L[FindValue(L, i)].len,
         NEW own, own = (o.id # 0 /\ L[i].id = o.id),
         p.key = o.key, p.old = o.old, p.site = o.site, p.need = o.need, p.iter = i,
         p.n = o.n + 1, p.id = IF own THEN o.n + 1 ELSE o.id
  PROVE  /\ FoundOK(p, r, L)
         /\ MovedOK(p, r, L, IF own THEN Append(A, key) ELSE Append(Append(A, key), val))
<1> DEFINE B == Append(A, key)
           C == Append(B, val)
           n == o.n + 1
           v == IF o.id = 0 THEN 0 ELSE o.old.i
<1>0. own <=> o.id # 0 /\ L[i].id = o.id
  OBVIOUS
<1>1. /\ o.n \in Nat /\ n \in Nat /\ n # 0 /\ o.iter \in Nat /\ i \in Nat /\ o.id \in Nat
      /\ \A j \in LiveKeys(L) : j \in Nat \ {0} /\ L[j].id \in Nat
      /\ \A j \in LiveKeys(A) : A[j].id \in Nat /\ A[j].id # 0 /\ A[j].id <= o.n
  <2>1. \A j \in LiveKeys(L) : j \in Nat \ {0} /\ L[j].id \in Nat
    BY KeyTypes
  <2>2. \A j \in LiveKeys(A) : A[j].id \in Nat /\ A[j].id # 0 /\ A[j].id <= o.n
    BY KeyTypes DEF CopiedOK, KeysOK
  <2>3. o.n \in Nat /\ o.iter \in Nat /\ o.id \in Nat
    BY DEF Op
  <2> QED BY <2>1, <2>2, <2>3
<1>2. n <= L[i].id
  <2>1. p.id = 0 => o.id = 0
    BY <1>1
  <2>2. CopyOK(p, L)
    BY <2>1, CopyTurn
  <2>3. (p.iter = 0 /\ p.n = 0) \/ p.n <= L[p.iter].id
    BY <2>2 DEF CopyOK
  <2> QED BY <1>1, <2>3
<1>3. Moved(o, L) => o.id # 0 /\ o.id <= o.n /\ OwnKey(o, A)
  BY <1>1 DEF MovedOK, OwnKey
<1>4. own <=> L[i].data = o.key
  <2>1. ASSUME L[i].data = o.key PROVE own
    <3>1. o.id # 0
      BY <2>1 DEF CopyOK
    <3>2. PICK k \in LiveKeys(L) : L[k].data = o.key /\ (k > o.iter => L[k].id = o.id)
      BY <3>1 DEF FoundOK
    <3>3. k = i
      BY <2>1, <3>2, SameKey
    <3> QED BY <1>0, <1>1, <3>1, <3>2, <3>3
  <2>2. ASSUME own PROVE L[i].data = o.key
    <3>1. PICK k \in LiveKeys(L) : L[k].data = o.key /\ (k > o.iter => L[k].id = o.id)
      BY <1>0, <2>2 DEF FoundOK
    <3>2. CASE k > o.iter
      <4>1. k = i
        BY <1>0, <2>2, <3>1, <3>2, SameKey
      <4> QED BY <3>1, <4>1
    <3>3. CASE ~ (k > o.iter)
      <4>1. Moved(o, L)
        BY <1>1, <3>1, <3>3 DEF Moved
      <4>2. o.id <= o.n /\ L[i].id = o.id
        BY <1>0, <1>3, <2>2, <4>1
      <4>3. FALSE
        BY <1>1, <1>2, <4>2
      <4> QED BY <4>3
    <3> QED BY <3>2, <3>3
  <2> QED BY <2>1, <2>2
<1>5. Moved(p, L) <=> Moved(o, L) \/ own
  <2>1. ASSUME NEW j \in LiveKeys(L), j <= i, L[j].data = o.key PROVE Moved(o, L) \/ own
    <3>1. j <= o.iter \/ j = i
      BY <1>1, <2>1
    <3> QED BY <1>4, <2>1, <3>1 DEF Moved
  <2>2. Moved(o, L) => Moved(p, L)
    <3>1. \A j \in LiveKeys(L) : j <= o.iter => j <= i
      BY <1>1
    <3> QED BY <3>1 DEF Moved
  <2>3. own => Moved(p, L)
    BY <1>1, <1>4 DEF Moved
  <2> QED BY <2>1, <2>2, <2>3 DEF Moved
<1>6. own => ~ Moved(o, L)
  <2> SUFFICES ASSUME own, NEW j \in LiveKeys(L), j <= o.iter, L[j].data = o.key PROVE FALSE
    BY DEF Moved
  <2>1. j = i
    BY <1>4, SameKey
  <2> QED BY <1>1, <2>1
<1>7. /\ v \notin LiveKeys(L)
      /\ \A q : Taken(q, L) \ OldIn(o, r) = Taken(q, L) \ {v}
      /\ ~ own => v # FindValue(L, i)
  <2>1. CASE o.id = 0
    <3>1. v = 0 /\ OldIn(o, r) = {}
      BY <2>1 DEF FoundOK, OldIn
    <3>2. 0 \notin DOMAIN L /\ LiveKeys(L) \subseteq DOMAIN L
      BY KeyTypes
    <3>3. FindValue(L, i) \in DOMAIN L /\ \A q : Taken(q, L) \subseteq DOMAIN L
      BY TakenThere
    <3>4. \A q : Taken(q, L) \ {} = Taken(q, L) \ {0}
      BY <3>2, <3>3
    <3> QED BY <3>1, <3>2, <3>3, <3>4
  <2>2. CASE o.id # 0
    <3>1. v = o.old.i /\ OldIn(o, r) = {v}
      BY <2>2 DEF FoundOK, OldIn
    <3>2. PICK k \in LiveKeys(L) : L[k].data = o.key /\ ValuesOf(L, k) = {v}
      BY <2>2, <3>1 DEF FoundOK
    <3>3. v \in LiveVals(L) /\ L[v].id = L[k].id
      BY <3>2 DEF ValuesOf
    <3>4. v \notin LiveKeys(L)
      BY <3>3 DEF LiveVals, LiveKeys
    <3>5. ASSUME v = FindValue(L, i) PROVE own
      <4>1. L[v].id = L[i].id
        BY <3>5, TakenThere
      <4>2. k = i
        BY <3>3, <4>1, SameKey
      <4> QED BY <1>4, <3>2, <4>2
    <3> QED BY <3>1, <3>4, <3>5
  <2> QED BY <2>1, <2>2
<1> HIDE DEF v
<1>8. FoundOK(p, r, L)
  <2>1. p.id = 0 <=> o.id = 0
    BY <1>1
  <2>2. p.id # 0 => \E k \in LiveKeys(L) : /\ L[k].data = p.key /\ ValuesOf(L, k) = {p.old.i}
                                           /\ k > p.iter => L[k].id = p.id
    <3> SUFFICES ASSUME p.id # 0
                 PROVE  \E k \in LiveKeys(L) : /\ L[k].data = o.key /\ ValuesOf(L, k) = {o.old.i}
                                               /\ k > i => L[k].id = p.id
      OBVIOUS
    <3>1. PICK k \in LiveKeys(L) : /\ L[k].data = o.key /\ ValuesOf(L, k) = {o.old.i}
                                   /\ k > o.iter => L[k].id = o.id
      BY <2>1 DEF FoundOK
    <3>2. k > i => L[k].id = p.id
      <4> SUFFICES ASSUME k > i PROVE L[k].id = p.id
        OBVIOUS
      <4>1. k > o.iter /\ k # i
        <5>1. k \in Nat /\ i \in Nat /\ o.iter \in Nat /\ o.iter < i /\ i < k
          BY <1>1
        <5> QED BY <5>1
      <4>2. L[i].data # o.key
        <5> SUFFICES ASSUME L[i].data = o.key PROVE FALSE
          OBVIOUS
        <5>1. L[k].data = L[i].data /\ i \in LiveKeys(L)
          BY <3>1
        <5>2. k = i
          BY <5>1, SameKey
        <5> QED BY <4>1, <5>2
      <4>3. p.id = o.id
        BY <1>4, <4>2
      <4> QED BY <3>1, <4>1, <4>3
    <3> QED BY <3>1, <3>2
  <2> QED BY <2>1, <2>2 DEF FoundOK
<1>9. OldIn(p, r) = OldIn(o, r)
  BY DEF OldIn
<1>10. /\ EndOf(B) <= 2 + SpaceOf(L, Taken(p, L) \ OldIn(p, r))
       /\ ~ own => EndOf(C) <= 2 + SpaceOf(L, Taken(p, L) \ OldIn(p, r))
  <2>1. EndOf(A) <= 2 + SpaceOf(L, Taken(o, L) \ {v})
    BY <1>7 DEF MovedOK
  <2>2. /\ EndOf(Append(A, key)) <= 2 + SpaceOf(L, Taken(p, L) \ {v})
        /\ v # FindValue(L, i) =>
             EndOf(Append(Append(A, key), val)) <= 2 + SpaceOf(L, Taken(p, L) \ {v})
    BY <1>7, <2>1, TurnFits
  <2> QED BY <1>7, <1>9, <2>2
<1> DEFINE m == Len(A) + 1
<1>11. /\ m \in Nat /\ DOMAIN B = 1 .. m /\ DOMAIN A = 1 .. Len(A) /\ Len(A) \in Nat
       /\ m \notin DOMAIN A /\ B[m] = key /\ \A j \in DOMAIN A : B[j] = A[j] /\ j < m
       /\ LiveKeys(B) = LiveKeys(A) \cup {m} /\ LiveVals(B) = LiveVals(A)
       /\ B \in Seq(Entry) /\ Len(B) = m
  <2>1. B \in Seq(Entry) /\ Len(B) = m
    OBVIOUS
  <2> QED BY <2>1, AppendLive
<1>12. LiveKeys(A) \subseteq DOMAIN A /\ LiveVals(A) \subseteq DOMAIN A
  BY DEF LiveKeys, LiveVals
<1> HIDE DEF B, m, n
<1>13. CASE own
  <2>1. Pairs(A, 0, {})
    BY <1>6, <1>13 DEF MovedOK
  <2>2. key.id = n
    BY DEF n
  <2>3. \A j \in LiveKeys(A) : A[j].id # n /\ A[j].id # 0
    BY <1>1 DEF n
  <2>4. Pairs(B, n, {})
    <3>1. DOMAIN A \subseteq DOMAIN B /\ LiveKeys(A) \subseteq Nat /\ LiveVals(A) \subseteq Nat
      BY <1>11, <1>12
    <3>2. \A j \in LiveKeys(A) \cup LiveVals(A) : B[j].id = A[j].id /\ j < m
      BY <1>11, <1>12
    <3>3. B[m].id = n
      BY <1>11, <2>2
    <3> QED BY <1>11, <2>1, <2>3, <3>1, <3>2, <3>3, PairsKey
  <2>5. p.id = n /\ p.id # 0 /\ Moved(p, L)
    BY <1>1, <1>5, <1>13 DEF n
  <2>6. OwnKey(p, B)
    BY <1>4, <1>11, <1>13, <2>2, <2>5 DEF OwnKey
  <2>7. MovedOK(p, r, L, B)
    BY <1>10, <2>4, <2>5, <2>6 DEF MovedOK
  <2> QED BY <1>8, <1>13, <2>7 DEF B
<1>14. CASE ~ own
  <2> DEFINE w == m + 1
             id == IF Moved(o, L) THEN o.id ELSE 0
  <2>1. /\ w \in Nat /\ DOMAIN C = 1 .. w /\ w \notin DOMAIN B
        /\ C[w] = val /\ \A j \in DOMAIN B : C[j] = B[j] /\ j < w
        /\ LiveKeys(C) = LiveKeys(B) /\ LiveVals(C) = LiveVals(B) \cup {w}
    BY <1>11, AppendLive
  <2> HIDE DEF C
  <2>2. m < w /\ w \in DOMAIN C /\ DOMAIN A \subseteq DOMAIN C /\ m \in DOMAIN B /\ DOMAIN A \subseteq DOMAIN B
    <3>1. m = Len(A) + 1 /\ w = m + 1 /\ Len(A) \in Nat /\ m \in Nat /\ 1 <= m
      BY <1>11 DEF m
    <3>2. DOMAIN A = 1 .. Len(A) /\ DOMAIN B = 1 .. m /\ DOMAIN C = 1 .. w
      BY <1>11, <2>1
    <3> HIDE DEF w, m
    <3> QED BY <3>1, <3>2
  <2> HIDE DEF w
  <2>3. Pairs(A, id, {})
    BY DEF MovedOK
  <2>4. C[m].id = n /\ C[w].id = n
    BY <1>11, <2>1, <2>2 DEF n
  <2>5. n # id /\ \A j \in LiveKeys(A) : A[j].id # n
    BY <1>1, <1>3 DEF n
  <2> HIDE DEF id
  <2>6. \A j \in LiveKeys(A) \cup LiveVals(A) : C[j] = A[j] /\ j < m
    BY <1>11, <1>12, <2>1, <2>2
  <2>7. Pairs(C, id, {})
    <3>1. LiveKeys(A) \subseteq Nat /\ LiveVals(A) \subseteq Nat
      BY <1>11, <1>12
    <3>2. LiveKeys(C) = LiveKeys(A) \cup {m} /\ LiveVals(C) = LiveVals(A) \cup {w}
      BY <1>11, <2>1
    <3>3. w \notin LiveVals(A) /\ m \notin LiveKeys(A)
      BY <1>11, <1>12, <2>1, <2>2
    <3>4. \A j \in LiveKeys(A) \cup LiveVals(A) : C[j].id = A[j].id /\ j < m
      BY <2>6
    <3>5. C[m].id # id /\ C[w].id = C[m].id /\ \A j \in LiveKeys(A) : A[j].id # C[m].id
      BY <2>4, <2>5
    <3> QED BY <1>11, <2>1, <2>2, <2>3, <3>1, <3>2, <3>3, <3>4, <3>5, PairsTurn
  <2>8. p.id = o.id /\ (Moved(p, L) <=> Moved(o, L))
    BY <1>5, <1>14
  <2>9. Moved(p, L) => p.id # 0 /\ OwnKey(p, C)
    <3> SUFFICES ASSUME Moved(p, L) PROVE p.id # 0 /\ OwnKey(p, C)
      OBVIOUS
    <3>1. PICK j \in LiveKeys(A) : A[j].data = o.key /\ A[j].id = o.id
      BY <1>3, <2>8 DEF OwnKey
    <3>2. j \in LiveKeys(C) /\ C[j] = A[j]
      BY <1>11, <2>1, <2>6
    <3> QED BY <1>3, <2>8, <3>1, <3>2 DEF OwnKey
  <2>10. EndOf(C) <= 2 + SpaceOf(L, Taken(p, L) \ OldIn(p, r))
    BY <1>10, <1>14 DEF C
  <2>11. MovedOK(p, r, L, C)
    BY <2>7, <2>8, <2>9, <2>10 DEF MovedOK, id
  <2> QED BY <1>8, <1>14, <2>11 DEF B, C
<1> QED BY <1>13, <1>14

\* A compaction makes the room that was expected of it.
LEMMA RoomMade ==
  ASSUME NEW L \in Seq(Entry), NEW A \in Seq(Entry), NEW o \in Op, NEW r,
         FoundOK(o, r, L), MovedOK(o, r, L, A), o.id # 0, o.site = "space"
  PROVE  ~ (o.need > Free(A))
<1> DEFINE v == o.old.i
           T == Taken(o, L) \ {v}
           D == {i \in DOMAIN L : ~Live(L[i])}
           all == DOMAIN L
<1>1. OldIn(o, r) = {v} /\ o.need <= Free(L) + Compactable(L) + EntrySize(L[v].len)
  BY DEF FoundOK, OldIn
<1>2. v \in DOMAIN L /\ Live(L[v]) /\ EntrySize(L[v].len) \in Nat
  <2>1. v \in LiveVals(L)
    BY DEF FoundOK, ValuesOf
  <2>2. v \in DOMAIN L /\ Live(L[v]) /\ L[v] \in Entry
    BY <2>1 DEF LiveVals
  <2> QED BY <2>2 DEF EntrySize, Entry
<1>3. T \subseteq DOMAIN L /\ \A j \in T : Live(L[j])
  <2>1. Taken(o, L) \subseteq DOMAIN L
    BY TakenThere
  <2>2. ASSUME NEW j \in Taken(o, L) PROVE Live(L[j])
    <3>1. CASE j \in Done(o, L)
      BY <3>1 DEF Done, LiveKeys
    <3>2. CASE j \notin Done(o, L)
      <4>1. PICK k \in Done(o, L) : j = FindValue(L, k)
        BY <3>2 DEF Taken
      <4>2. k \in LiveKeys(L) \ Unused(L)
        BY DEF Done
      <4>3. j \in LiveVals(L)
        BY <4>1, <4>2, TakenThere
      <4> QED BY <4>3 DEF LiveVals
    <3> QED BY <3>1, <3>2
  <2> QED BY <2>1, <2>2
<1>4. Compactable(L) = SpaceOf(L, D)
  BY DEF Compactable
<1>5. /\ v \notin T /\ (T \cup {v}) \cap D = {} /\ (T \cup {v}) \cup D \subseteq all
  BY <1>2, <1>3
<1>6. EndOf(A) <= 2 + SpaceOf(L, T)
  BY <1>1 DEF MovedOK
<1> HIDE DEF T, D, v, all
<1>7. SpaceOf(L, T) + EntrySize(L[v].len) <= SpaceOf(L, T \cup {v})
  BY <1>2, <1>5, SpaceMore
<1>8. SpaceOf(L, T \cup {v}) + SpaceOf(L, D) <= SpaceOf(L, (T \cup {v}) \cup D)
  BY <1>5, SpaceParts
<1>9. SpaceOf(L, (T \cup {v}) \cup D) <= SpaceOf(L, all)
  BY <1>5, SpaceFewer
<1>10. /\ SpaceOf(L, T) \in Nat /\ SpaceOf(L, T \cup {v}) \in Nat /\ SpaceOf(L, D) \in Nat
       /\ SpaceOf(L, (T \cup {v}) \cup D) \in Nat /\ SpaceOf(L, all) \in Nat
       /\ EndOf(L) = 2 + SpaceOf(L, all) /\ EndOf(A) \in Nat
  BY SpaceType DEF all
<1>11. o.need \in Nat /\ RegionSize \in Nat
  BY ConstAssumption DEF Op
<1> DEFINE a == SpaceOf(L, T)
           b == SpaceOf(L, T \cup {v})
           c == SpaceOf(L, D)
           d == SpaceOf(L, (T \cup {v}) \cup D)
           e == SpaceOf(L, all)
           z == EntrySize(L[v].len)
<1>12. o.need <= (RegionSize - (2 + e)) + c + z
  BY <1>1, <1>4, <1>10 DEF Free, v
<1>13. a + z <= b /\ b + c <= d /\ d <= e /\ EndOf(A) <= 2 + a /\ z \in Nat
  BY <1>2, <1>6, <1>7, <1>8, <1>9
<1>14. a \in Nat /\ b \in Nat /\ c \in Nat /\ d \in Nat /\ e \in Nat
  BY <1>10
<1> HIDE DEF a, b, c, d, e, z
<1>15. ~ (o.need > RegionSize - EndOf(A))
  BY <1>10, <1>11, <1>12, <1>13, <1>14
<1> QED BY <1>15 DEF Free

\* A compaction that nothing disturbs copies every key and every value, except the one
\* that is about to be replaced.
LEMMA ValuesCompact ==
  ASSUME Undisturbed, EntriesInv, KeysInv, SpaceInv, ValuesInv, Compact
  PROVE  ValuesInv'
<1> DEFINE L == log[cur]
           A == log[Alt(cur)]
<1>1. /\ TypeOK /\ cur \in Region /\ Alt(cur) \in Region /\ Alt(cur) # cur /\ op \in Op
      /\ L \in Seq(Entry) /\ KeysOK(L) /\ A \in Seq(Entry) /\ KeysOK(A)
      /\ "header" \notin spoilt /\ \A r \in Region : ~torn[r]
  BY DEF EntriesInv, TypeOK, KeysInv, ValuesInv, Alt, Region
<1>2. pc \in Compacting /\ Pairs(L, 0, {}) /\ FoundOK(op, cur, L) /\ CopyOK(op, L)
  <2>1. pc \in Compacting
    BY NoMishap DEF Compact, CompactFormat, CompactCopy, CompactCopied, CompactNewHeader,
                    CompactOldHeader, Compacting
  <2> QED BY <2>1 DEF ValuesInv, KeysInv
<1>3. UNCHANGED spoilt /\ \A r \in Region : ~torn'[r]
  <2>1. /\ UNCHANGED spoilt
        /\ UNCHANGED torn \/ torn' = [torn EXCEPT ![Alt(cur)] = FALSE]
    BY NoMishap DEF Compact, CompactFormat, CompactCopy, CompactCopied, CompactNewHeader,
                    CompactOldHeader, flash, history
  <2> QED BY <1>1, <2>1 DEF TypeOK
<1>4. CASE CompactFormat
  <2>1. /\ log' = [log EXCEPT ![Alt(cur)] = <<>>] /\ UNCHANGED <<cur, op>>
        /\ pc = "format" /\ pc' = "copy"
    BY <1>4 DEF CompactFormat
  <2>2. log'[cur] = L /\ log'[Alt(cur)] = <<>>
    BY <1>1, <2>1 DEF TypeOK
  <2>3. MovedOK(op, cur, L, <<>>)
    <3>1. ~ Moved(op, L)
      <4>1. op.iter = 0
        BY <2>1 DEF ValuesInv
      <4>2. \A i \in LiveKeys(L) : i \in Nat \ {0}
        BY <1>1, KeyTypes
      <4>3. \A i \in LiveKeys(L) : ~ (i <= 0)
        BY <4>2
      <4> QED BY <4>1, <4>3 DEF Moved
    <3>2. EndOf(<<>>) <= 2 + SpaceOf(L, Taken(op, L) \ OldIn(op, cur))
      <4>1. SpaceOf(L, Taken(op, L) \ OldIn(op, cur)) \in Nat
        BY <1>1, SpaceType
      <4> QED BY <4>1, EndEmpty
    <3> QED BY <3>1, <3>2, PairsEmpty DEF MovedOK
  <2> QED BY <1>1, <1>2, <1>3, <2>1, <2>2, <2>3 DEF ValuesInv, Compacting, Writes, Setting
<1>5. CASE CompactCopy
  <2> DEFINE i == NextKey
             n == op.n + 1
             key == KeyEntry(n, L[i].data, TRUE)
             val == ValueEntry(n, L[FindValue(L, i)])
             own == op.id # 0 /\ L[i].id = op.id
             B == Append(A, key)
             C == Append(B, val)
  <2>1. /\ pc = "copy" /\ i # 0
        /\ log' = [log EXCEPT ![Alt(cur)] = IF own THEN B ELSE C]
        /\ op' = [op EXCEPT !.iter = i, !.n = n, !.id = IF own THEN n ELSE @]
        /\ UNCHANGED <<cur, pc>>
    BY <1>5 DEF CompactCopy
  <2>2. /\ i \in LiveKeys(L) \ Unused(L) /\ op.iter < i /\ i \in Nat
        /\ \A j \in LiveKeys(L) : j <= op.iter \/ i <= j
    <3> DEFINE S == {j \in LiveKeys(L) : j > op.iter /\ ValuesOf(L, j) # {}}
    <3>1. S \in SUBSET Nat /\ i = First(S) /\ op.iter \in Nat /\ LiveKeys(L) \subseteq Nat
      BY <1>1, KeyTypes DEF NextKey, Op
    <3>2. Unused(L) = {}
      BY <1>1, <1>2, NoneUnused
    <3>3. S = {j \in LiveKeys(L) : j > op.iter}
      BY <3>2 DEF Unused
    <3> HIDE DEF S
    <3>4. i \in S
      BY <2>1, <3>1, FirstIn
    <3>5. \A j \in S : i <= j
      <4>1. \E k \in S : \A j \in S : k <= j
        BY <3>1, <3>4, LeastExists
      <4>2. First(S) = CHOOSE k \in S : \A j \in S : k <= j
        BY <3>4 DEF First
      <4> QED BY <3>1, <4>1, <4>2
    <3>6. ASSUME NEW j \in LiveKeys(L) PROVE j <= op.iter \/ i <= j
      <4>1. j \in Nat
        BY <3>1
      <4>2. j > op.iter => i <= j
        BY <3>3, <3>5
      <4> QED BY <3>1, <4>1, <4>2
    <3>7. i \in Nat /\ i \in LiveKeys(L) /\ i > op.iter
      BY <3>1, <3>3, <3>4
    <3> QED BY <3>1, <3>2, <3>6, <3>7
  <2>3. op.n \in Nat /\ n \in Nat /\ n # 0
    BY <1>1 DEF Op
  <2>4. /\ key \in Entry /\ Live(key) /\ ~key.value /\ key.id = n /\ key.data = L[i].data
        /\ key.len = L[i].len
        /\ val \in Entry /\ Live(val) /\ val.value /\ val.id = n
        /\ val.len = L[FindValue(L, i)].len
    <3>1. key \in Entry /\ val \in Entry
      BY <2>1, <2>3, CopiedEntries
    <3>2. /\ key.len = Words[L[i].data] /\ key.data = L[i].data /\ key.id = n
          /\ Live(key) /\ ~key.value
      BY DEF KeyEntry, Live
    <3>3. L[i].len = Words[L[i].data]
      <4>1. LensOK(L)
        BY <1>1 DEF SpaceInv
      <4> QED BY <2>2, <4>1 DEF LensOK
    <3>4. FindValue(L, i) \in LiveVals(L) /\ FindValue(L, i) \in DOMAIN L
      BY <1>1, <2>2, TakenThere
    <3>5. Live(L[FindValue(L, i)]) /\ L[FindValue(L, i)].value /\ L[FindValue(L, i)] \in Entry
      BY <1>1, <3>4 DEF LiveVals
    <3>6. /\ val.value = L[FindValue(L, i)].value /\ val.len = L[FindValue(L, i)].len
          /\ val.id = n /\ val.alive = L[FindValue(L, i)].alive
          /\ val.valid = L[FindValue(L, i)].valid
      BY <3>5 DEF ValueEntry, Entry
    <3> QED BY <3>1, <3>2, <3>3, <3>5, <3>6 DEF Live
  <2> HIDE DEF i, key, val
  <2>5. /\ op'.key = op.key /\ op'.old = op.old /\ op'.site = op.site /\ op'.need = op.need
        /\ op'.iter = i /\ op'.n = n /\ op' \in Op /\ op'.id = IF own THEN n ELSE op.id
    <3> HIDE DEF own, n
    <3>1. op' \in Op
      BY <1>1, <2>1, <2>2, <2>3 DEF Op
    <3>2. /\ op'.key = op.key /\ op'.old = op.old /\ op'.site = op.site /\ op'.need = op.need
          /\ op'.iter = i /\ op'.n = n /\ op'.id = IF own THEN n ELSE op.id
      BY <1>1, <2>1 DEF Op
    <3> QED BY <3>1, <3>2
  <2>6. CopiedOK(op, L, A) /\ MovedOK(op, cur, L, A)
    BY <2>1 DEF KeysInv, ValuesInv, Compacting
  <2>7. /\ FoundOK(op', cur, L)
        /\ MovedOK(op', cur, L, IF own THEN B ELSE C)
    <3> DEFINE p == op'
               r == cur
               b == own
    <3>1. /\ p.key = op.key /\ p.old = op.old /\ p.site = op.site /\ p.need = op.need
          /\ p.iter = i /\ p.n = op.n + 1 /\ p \in Op /\ b = (op.id # 0 /\ L[i].id = op.id)
          /\ p.id = IF b THEN op.n + 1 ELSE op.id
      BY <2>5
    <3>2. FoundOK(op, r, L) /\ MovedOK(op, r, L, A)
      BY <1>2, <2>6
    <3>3. key.id = op.n + 1 /\ val.id = op.n + 1
      BY <2>4
    <3> HIDE DEF p, r, b
    <3>4. /\ FoundOK(p, r, L)
          /\ MovedOK(p, r, L, IF b THEN Append(A, key) ELSE Append(Append(A, key), val))
      BY <1>1, <1>2, <2>2, <2>4, <2>6, <3>1, <3>2, <3>3, MovedTurn
    <3> QED BY <3>4 DEF p, r, b
  <2> HIDE DEF own, B, C
  <2>8. log'[cur] = L /\ log'[Alt(cur)] = IF own THEN B ELSE C
    BY <1>1, <2>1 DEF TypeOK
  <2> QED BY <1>1, <1>2, <1>3, <2>1, <2>7, <2>8 DEF ValuesInv, Compacting, Writes, Setting
<1>6. CASE CompactCopied
  <2>1. UNCHANGED <<log, cur, op>> /\ pc = "copy" /\ pc' = "newHdr" /\ NextKey = 0
    BY <1>6 DEF CompactCopied, flash
  <2>2. MovedOK(op, cur, L, A)
    BY <2>1 DEF ValuesInv, Compacting
  <2>3. op.id # 0 => Moved(op, L)
    <3> SUFFICES ASSUME op.id # 0 PROVE Moved(op, L)
      OBVIOUS
    <3>1. PICK k \in LiveKeys(L) : L[k].data = op.key /\ ValuesOf(L, k) # {}
      BY <1>2 DEF FoundOK
    <3> DEFINE S == {j \in LiveKeys(L) : j > op.iter /\ ValuesOf(L, j) # {}}
    <3>2. S \in SUBSET Nat /\ First(S) = 0 /\ 0 \notin S /\ op.iter \in Nat /\ k \in Nat
      BY <1>1, <2>1, KeyTypes DEF NextKey, Op
    <3> HIDE DEF S
    <3>3. S = {}
      BY <3>2, FirstIn
    <3>4. ~ (k > op.iter)
      BY <3>1, <3>3 DEF S
    <3> QED BY <3>1, <3>2, <3>4 DEF Moved
  <2> QED BY <1>1, <1>2, <1>3, <2>1, <2>2, <2>3 DEF ValuesInv, Compacting, Writes, Setting
<1>7. CASE CompactNewHeader
  <2>1. UNCHANGED <<log, cur, op>> /\ pc = "newHdr" /\ pc' = "oldHdr"
    BY <1>7 DEF CompactNewHeader
  <2>2. MovedOK(op, cur, L, A) /\ (op.id # 0 => Moved(op, L))
    BY <2>1 DEF ValuesInv, Compacting
  <2> QED BY <1>1, <1>2, <1>3, <2>1, <2>2 DEF ValuesInv, Compacting, Writes, Setting
<1>8. CASE CompactOldHeader
  <2>1. UNCHANGED log /\ cur' = Alt(cur) /\ pc = "oldHdr"
    BY <1>8 DEF CompactOldHeader
  <2>2. MovedOK(op, cur, L, A) /\ (op.id # 0 => Moved(op, L))
    BY <2>1 DEF ValuesInv, Compacting
  <2>3. CASE op.site = "space" /\ (op.need > Free(A) \/ (op.id = 0 /\ op.n >= MaxKeyId))
    <3>1. pc' = "idle"
      BY <1>8, <2>3 DEF CompactOldHeader, StillFull, Finish
    <3>2. op.id = 0
      BY <1>1, <1>2, <2>2, <2>3, RoomMade
    <3>3. Pairs(A, 0, {})
      BY <2>2, <3>2 DEF MovedOK
    <3> QED BY <1>1, <1>3, <2>1, <3>1, <3>3 DEF ValuesInv, Compacting, Writes, Setting
  <2>4. CASE ~ (op.site = "space" /\ (op.need > Free(A) \/ (op.id = 0 /\ op.n >= MaxKeyId)))
    <3> DEFINE o == [op EXCEPT !.old = IF op.site = "force" THEN @ ELSE NoAddr]
    <3>1. op' = Writing(o, op.n) /\ pc' = "hdr"
      BY <1>8, <2>4 DEF CompactOldHeader, StillFull
    <3>2. /\ o.id = op.id /\ o.key = op.key /\ o \in Op
          /\ o.old = NoAddr \/ o.old = op.old
      BY <1>1 DEF Op, NoAddr, Region
    <3> HIDE DEF o
    <3>3. WrittenOK(op', Alt(cur), A)
      <4>1. CASE op.id = 0
        <5>1. op'.what = "key" /\ op'.old = o.old
          BY <3>1, <3>2, <4>1 DEF Writing, Op
        <5>2. Pairs(A, 0, {}) /\ op.old = NoAddr
          BY <1>2, <2>2, <4>1 DEF MovedOK, FoundOK
        <5> QED BY <3>2, <5>1, <5>2 DEF WrittenOK
      <4>2. CASE op.id # 0
        <5>1. op'.what = "val" /\ op'.old = o.old /\ op'.id = op.id /\ op'.key = op.key
          BY <3>1, <3>2, <4>2 DEF Writing, Op
        <5>2. Pairs(A, op.id, {}) /\ OwnKey(op, A)
          BY <2>2, <4>2 DEF MovedOK
        <5>3. op.old.r = cur
          BY <1>2, <4>2 DEF FoundOK
        <5>4. OldIn(op', Alt(cur)) = {}
          BY <1>1, <3>2, <5>1, <5>3 DEF OldIn
        <5>5. OwnKey(op', A)
          BY <5>1, <5>2 DEF OwnKey
        <5> QED BY <5>1, <5>2, <5>4, <5>5 DEF WrittenOK
      <4> QED BY <4>1, <4>2
    <3> QED BY <1>1, <1>3, <2>1, <3>1, <3>3 DEF ValuesInv, Compacting, Writes, Setting
  <2> QED BY <2>3, <2>4
<1> QED BY <1>4, <1>5, <1>6, <1>7, <1>8, NoMishap DEF Compact

\* An entry that readers do not see changes nothing for the set in progress.
LEMMA WrittenSame ==
  ASSUME NEW L, NEW M, NEW o, NEW r, WrittenOK(o, r, L), DOMAIN L \subseteq DOMAIN M,
         LiveKeys(M) = LiveKeys(L), LiveVals(M) = LiveVals(L),
         \A i \in LiveKeys(L) \cup LiveVals(L) : M[i] = L[i]
  PROVE  WrittenOK(o, r, M)
<1>1. \A i \in LiveKeys(L) \cup LiveVals(L) : M[i].id = L[i].id /\ M[i].data = L[i].data
  OBVIOUS
<1>2. CASE o.what = "key"
  <2>1. Pairs(L, 0, {})
    BY <1>2 DEF WrittenOK
  <2>2. Pairs(M, 0, {})
    BY <1>1, <2>1, PairsSame
  <2> QED BY <1>2, <2>2 DEF WrittenOK
<1>3. CASE o.what # "key"
  <2>1. Pairs(L, o.id, OldIn(o, r)) /\ OwnKey(o, L)
    BY <1>3 DEF WrittenOK
  <2>2. Pairs(M, o.id, OldIn(o, r)) /\ OwnKey(o, M)
    BY <1>1, <2>1, PairsSame
  <2> QED BY <1>3, <2>2 DEF WrittenOK
<1> QED BY <1>2, <1>3

\* Readers of a key with one value left find it.
LEMMA ReadersFind ==
  ASSUME NEW L \in Seq(Entry), KeysOK(L), NEW o, OwnKey(o, L), NEW t, Pairs(L, o.id, {t})
  PROVE  Pairs(L, 0, {}) /\ Get(L, o.key) = L[t].data
<1>1. PICK i \in LiveKeys(L) : L[i].data = o.key /\ L[i].id = o.id
  BY DEF OwnKey
<1>2. ValuesOf(L, i) = {t}
  BY <1>1 DEF Pairs
<1>3. Get(L, L[i].data) = L[t].data /\ t \in DOMAIN L
  BY <1>2, GetOwn
<1> QED BY <1>1, <1>3, PairsOwn

\* The writes of a set that nothing disturbs; when they are done readers find the new value.
LEMMA ValuesWrite ==
  ASSUME Undisturbed, EntriesInv, KeysInv, ValuesInv, left = <<>>, Write, KeysInv', TypeOK'
  PROVE  ValuesInv' /\ (pc' = "idle" => Get(log'[cur'], op.key) = op.val)
<1> DEFINE L == log[cur]
           M == log'[cur]
           n == Len(L)
<1>1. /\ TypeOK /\ cur \in Region /\ op \in Op /\ L \in Seq(Entry) /\ KeysOK(L)
      /\ SetInProgress /\ HalfWritten /\ UNCHANGED <<cur, torn>>
      /\ "header" \notin spoilt /\ "header" \notin spoilt' /\ \A r \in Region : ~torn[r]
      /\ M \in Seq(Entry) /\ KeysOK(M) /\ n = Tip
  <2>1. UNCHANGED <<cur, torn>> /\ spoilt' \in {spoilt, spoilt \cup {"id"}}
    BY NoMishap DEF Write, WriteHeader, WriteOverLeft, WritePayload, SetValid, DeleteEntry,
                    history
  <2> QED BY <2>1 DEF EntriesInv, TypeOK, KeysInv, ValuesInv, Tip
<1>2. /\ LiveKeys(L) \subseteq DOMAIN L /\ LiveVals(L) \subseteq DOMAIN L
      /\ DOMAIN L = 1 .. n /\ n \in Nat
  BY <1>1, KeyTypes DEF LiveVals
<1>3. CASE WriteHeader
  <2>1. /\ pc = "hdr" /\ pc' = "payload" /\ log' = [log EXCEPT ![cur] = Append(L, NewEntry)]
        /\ UNCHANGED op
    BY <1>3 DEF WriteHeader
  <2>2. M = Append(L, NewEntry)
    BY <1>1, <2>1 DEF TypeOK
  <2>3. NewEntry \in Entry /\ ~ Live(NewEntry)
    <3>1. op.key \in Keys /\ op.val \in Vals
      BY <1>1, <2>1 DEF SetInProgress
    <3> QED BY <1>1, <3>1, ConstAssumption DEF NewEntry, Entry, Op, Payload, Live
  <2> HIDE DEF M
  <2>4. /\ LiveKeys(M) = LiveKeys(L) /\ LiveVals(M) = LiveVals(L)
        /\ DOMAIN L \subseteq DOMAIN M /\ \A i \in DOMAIN L : M[i] = L[i]
    <3> DEFINE e == NewEntry
    <3>1. e \in Entry /\ ~ Live(e) /\ M = Append(L, e)
      BY <2>2, <2>3
    <3> HIDE DEF e, n
    <3>2. LET N == Append(L, e)
              m == Len(L) + 1
          IN  /\ m \in Nat /\ DOMAIN N = 1 .. m /\ DOMAIN L = 1 .. Len(L) /\ Len(L) \in Nat
              /\ N[m] = e /\ \A i \in DOMAIN L : N[i] = L[i] /\ i < m
              /\ ~ Live(e) => LiveKeys(N) = LiveKeys(L) /\ LiveVals(N) = LiveVals(L)
      BY <1>1, <3>1, AppendLive
    <3> QED BY <3>1, <3>2
  <2>5. WrittenOK(op, cur, L)
    BY <2>1 DEF ValuesInv, Writes
  <2>6. WrittenOK(op, cur, M)
    <3>1. \A i \in LiveKeys(L) \cup LiveVals(L) : M[i] = L[i]
      BY <1>2, <2>4
    <3> QED BY <2>4, <2>5, <3>1, WrittenSame
  <2>7. M[Len(M)].alive
    BY <1>1, <2>2, <2>3 DEF NewEntry
  <2> QED BY <1>1, <2>1, <2>6, <2>7 DEF ValuesInv, Compacting, Writes, Setting, M, Tip
<1>4. CASE WritePayload
  <2> DEFINE e == [L[Tip] EXCEPT !.data = IF op.what = "key" THEN op.key ELSE op.val]
  <2>1. /\ pc = "payload" /\ pc' = "valid" /\ log' = [log EXCEPT ![cur] = [L EXCEPT ![Tip] = e]]
        /\ UNCHANGED op
    BY <1>1, <1>4 DEF WritePayload, TypeOK
  <2>2. M = [L EXCEPT ![Tip] = e]
    BY <1>1, <2>1 DEF TypeOK
  <2>3. /\ Tip \in DOMAIN L /\ ~L[Tip].valid /\ L[Tip] \in Entry
    BY <1>1, <2>1 DEF HalfWritten
  <2>4. e \in Entry /\ ~ Live(e)
    <3>1. op.key \in Keys /\ op.val \in Vals
      BY <1>1, <2>1 DEF SetInProgress
    <3> QED BY <2>3, <3>1 DEF Entry, Payload, Live
  <2> HIDE DEF M, e
  <2>5. /\ LiveKeys(M) = LiveKeys(L) /\ LiveVals(M) = LiveVals(L)
        /\ DOMAIN L \subseteq DOMAIN M /\ \A i \in LiveKeys(L) \cup LiveVals(L) : M[i] = L[i]
    <3> DEFINE t == Tip
    <3>1. t \in DOMAIN L /\ M = [L EXCEPT ![t] = e]
      BY <2>2, <2>3
    <3>2. t \notin LiveKeys(L) /\ t \notin LiveVals(L)
      BY <2>3 DEF LiveKeys, LiveVals, Live
    <3> HIDE DEF t
    <3>3. LET N == [L EXCEPT ![t] = e]
          IN  /\ DOMAIN N = DOMAIN L /\ N[t] = e /\ \A i \in DOMAIN L : i # t => N[i] = L[i]
              /\ ~ Live(e) => LiveKeys(N) = LiveKeys(L) \ {t} /\ LiveVals(N) = LiveVals(L) \ {t}
      BY <1>1, <2>4, <3>1, EditLive
    <3> QED BY <1>2, <2>4, <3>1, <3>2, <3>3
  <2>6. WrittenOK(op, cur, L)
    BY <2>1 DEF ValuesInv, Writes
  <2>7. WrittenOK(op, cur, M)
    BY <2>5, <2>6, WrittenSame
  <2>8. M[Len(M)].alive
    <3>1. L[Tip].alive
      BY <2>1 DEF ValuesInv, Writes
    <3>2. e.alive
      BY <2>3, <3>1 DEF e, Entry
    <3>3. Len(M) = Tip /\ M[Tip] = e
      BY <1>1, <2>2, <2>3, <2>4
    <3> QED BY <3>2, <3>3
  <2> QED BY <1>1, <2>1, <2>7, <2>8 DEF ValuesInv, Compacting, Writes, Setting, M, Tip
<1>5. CASE SetValid
  <2> DEFINE e == [L[Tip] EXCEPT !.valid = TRUE]
             datum == IF op.what = "key" THEN op.key ELSE op.val
  <2>1. /\ pc = "valid" /\ log' = [log EXCEPT ![cur] = [L EXCEPT ![Tip] = e]]
    BY <1>1, <1>5 DEF SetValid, TypeOK
  <2>2. M = [L EXCEPT ![Tip] = e]
    BY <1>1, <2>1 DEF TypeOK
  <2>3. /\ Tip \in DOMAIN L /\ ~L[Tip].valid /\ L[Tip] \in Entry /\ L[Tip].alive
        /\ L[Tip].value = (op.what = "val") /\ L[Tip].data = datum /\ L[Tip].id = op.id
        /\ op.what \in {"key", "val"}
    BY <1>1, <2>1 DEF HalfWritten, SetInProgress, KeysInv, ValuesInv, Writes
  <2>4. /\ e \in Entry /\ Live(e) /\ e.value = (op.what = "val") /\ e.data = datum /\ e.id = op.id
    BY <2>3 DEF Entry, Live
  <2> HIDE DEF M, e
  <2>5. /\ n \notin LiveKeys(L) /\ n \notin LiveVals(L) /\ n \in DOMAIN M /\ M[n] = e
        /\ DOMAIN L \subseteq DOMAIN M
        /\ \A i \in LiveKeys(L) \cup LiveVals(L) : M[i] = L[i] /\ i < n
        /\ op.what = "key" => LiveKeys(M) = LiveKeys(L) \cup {n} /\ LiveVals(M) = LiveVals(L)
        /\ op.what = "val" => LiveKeys(M) = LiveKeys(L) /\ LiveVals(M) = LiveVals(L) \cup {n}
    <3> DEFINE t == n
    <3>1. t \in DOMAIN L /\ M = [L EXCEPT ![t] = e] /\ t = Len(L)
      BY <1>1, <2>2, <2>3
    <3>2. t \notin LiveKeys(L) /\ t \notin LiveVals(L)
      BY <1>1, <2>3 DEF LiveKeys, LiveVals, Live
    <3> HIDE DEF t
    <3>3. LET N == [L EXCEPT ![t] = e]
          IN  /\ DOMAIN N = DOMAIN L /\ N[t] = e /\ \A i \in DOMAIN L : i # t => N[i] = L[i]
              /\ Live(e) /\ ~e.value =>
                   LiveKeys(N) = LiveKeys(L) \cup {t} /\ LiveVals(N) = LiveVals(L) \ {t}
              /\ Live(e) /\ e.value =>
                   LiveKeys(N) = LiveKeys(L) \ {t} /\ LiveVals(N) = LiveVals(L) \cup {t}
              /\ ~ Live(e) =>
                   LiveKeys(N) = LiveKeys(L) \ {t} /\ LiveVals(N) = LiveVals(L) \ {t}
      <4>1. L \in Seq(Entry) /\ t \in DOMAIN L /\ e \in Entry
        BY <1>1, <2>4, <3>1
      <4> QED BY <4>1, EditLive, Zenon
    <3>4. \A i \in LiveKeys(L) \cup LiveVals(L) : i \in DOMAIN L /\ i # t /\ i < t
      BY <1>2, <3>1, <3>2
    <3>5. /\ op.what = "key" => Live(e) /\ ~e.value
          /\ op.what = "val" => Live(e) /\ e.value
      BY <2>4
    <3>6. /\ Live(e) /\ ~e.value =>
               LiveKeys(M) = LiveKeys(L) \cup {t} /\ LiveVals(M) = LiveVals(L) \ {t}
          /\ Live(e) /\ e.value =>
               LiveKeys(M) = LiveKeys(L) \ {t} /\ LiveVals(M) = LiveVals(L) \cup {t}
      BY <3>1, <3>3
    <3>7. LiveKeys(L) \ {t} = LiveKeys(L) /\ LiveVals(L) \ {t} = LiveVals(L)
      BY <3>2
    <3>8. op.what = "key" => LiveKeys(M) = LiveKeys(L) \cup {t} /\ LiveVals(M) = LiveVals(L)
      BY <3>5, <3>6, <3>7
    <3>9. op.what = "val" => LiveKeys(M) = LiveKeys(L) /\ LiveVals(M) = LiveVals(L) \cup {t}
      BY <3>5, <3>6, <3>7
    <3>10. DOMAIN M = DOMAIN L /\ M[t] = e /\ \A i \in LiveKeys(L) \cup LiveVals(L) : M[i] = L[i]
      BY <3>1, <3>3, <3>4
    <3> QED BY <3>1, <3>2, <3>4, <3>8, <3>9, <3>10 DEF t
  <2>6. /\ LiveKeys(L) \subseteq Nat /\ LiveVals(L) \subseteq Nat
        /\ \A i \in LiveKeys(L) \cup LiveVals(L) : M[i].id = L[i].id /\ i < n
        /\ M[n].id = op.id /\ M[n].data = datum
    BY <1>2, <2>4, <2>5
  <2>7. WrittenOK(op, cur, L)
    BY <2>1 DEF ValuesInv, Writes
  <2>8. CASE op.what = "key"
    <3>1. op' = [op EXCEPT !.what = "val"] /\ pc' = "hdr"
      BY <1>5, <2>8 DEF SetValid
    <3>2. /\ op'.what = "val" /\ op'.key = op.key /\ op'.id = op.id /\ op'.old = op.old
      BY <1>1, <3>1 DEF Op
    <3>3. Pairs(L, 0, {}) /\ op.old = NoAddr
      BY <2>7, <2>8 DEF WrittenOK
    <3>4. Pairs(M, op.id, {})
      <4>1. \A i \in LiveKeys(L) : L[i].id # op.id /\ L[i].id # 0
        <5>1. NewKeyOK(op, L)
          BY <2>1, <2>8 DEF KeysInv, Writes
        <5>2. \A i \in LiveKeys(L) : L[i].id \in Nat /\ L[i].id < op.id /\ L[i].id \in 1 .. MaxKeyId
          BY <1>1, <5>1, KeyTypes DEF NewKeyOK, KeysOK
        <5>3. op.id \in Nat
          BY <1>1 DEF Op
        <5> QED BY <5>2, <5>3
      <4> DEFINE id == op.id
      <4>2. /\ M[n].id = id /\ \A i \in LiveKeys(L) : L[i].id # id /\ L[i].id # 0
        BY <2>6, <4>1
      <4> HIDE DEF id, n
      <4>3. LiveKeys(M) = LiveKeys(L) \cup {n} /\ LiveVals(M) = LiveVals(L)
        BY <2>5, <2>8
      <4>4. Pairs(M, id, {})
        BY <1>2, <2>5, <2>6, <3>3, <4>2, <4>3, PairsKey
      <4> QED BY <4>4 DEF id
    <3>5. OldIn(op', cur) = {}
      BY <3>2, <3>3 DEF OldIn
    <3>6. OwnKey(op', M)
      BY <2>5, <2>6, <2>8, <3>2 DEF OwnKey
    <3>7. WrittenOK(op', cur, M)
      BY <3>2, <3>4, <3>5, <3>6 DEF WrittenOK
    <3> QED BY <1>1, <3>1, <3>7 DEF ValuesInv, Compacting, Writes, Setting, M
  <2>9. CASE op.what = "val"
    <3> DEFINE S == OldIn(op, cur)
               id == op.id
    <3>1. Pairs(L, id, S) /\ OwnKey(op, L)
      BY <2>7, <2>9 DEF WrittenOK
    <3>2. PICK i \in LiveKeys(L) : L[i].data = op.key /\ L[i].id = id
      BY <3>1 DEF OwnKey
    <3>3. S \subseteq LiveVals(L)
      <4>1. ValuesOf(L, i) = S
        BY <3>1, <3>2 DEF Pairs
      <4> QED BY <4>1 DEF ValuesOf
    <3>4. OwnKey(op, M)
      BY <2>5, <2>9, <3>2 DEF OwnKey
    <3> HIDE DEF S, id
    <3>5. Pairs(M, id, S \cup {n})
      <4>1. M[n].id = id
        BY <2>6 DEF id
      <4>2. LiveKeys(M) = LiveKeys(L) /\ LiveVals(M) = LiveVals(L) \cup {n}
        BY <2>5, <2>9
      <4>3. \E k \in LiveKeys(L) : L[k].id = id
        BY <3>2
      <4> HIDE DEF n
      <4> QED BY <1>2, <2>5, <2>6, <3>1, <4>1, <4>2, <4>3, PairsVal
    <3>6. M[n].data = op.val
      BY <2>6, <2>9
    <3>7. CASE op.old # NoAddr
      <4>1. pc' = "delete" /\ UNCHANGED op
        BY <1>5, <2>9, <3>7 DEF SetValid
      <4>2. n \in DOMAIN M \ S
        BY <2>5, <3>3
      <4>3. ReplacedOK(op, cur, M)
        BY <3>4, <3>5, <3>6, <3>7, <4>2 DEF ReplacedOK, S, id
      <4> QED BY <1>1, <4>1, <4>3 DEF ValuesInv, Compacting, Writes, Setting, M
    <3>8. CASE op.old = NoAddr
      <4>1. pc' = "idle"
        BY <1>5, <2>9, <3>8 DEF SetValid, Finish
      <4>2. Pairs(M, op.id, {n})
        <5>1. S = {}
          BY <3>8 DEF S, OldIn
        <5>2. S \cup {n} = {n}
          BY <5>1
        <5> QED BY <3>5, <5>2 DEF id
      <4>3. Pairs(M, 0, {}) /\ Get(M, op.key) = op.val
        BY <1>1, <3>4, <3>6, <4>2, ReadersFind DEF M
      <4> QED BY <1>1, <4>1, <4>3 DEF ValuesInv, Compacting, Writes, Setting, M
    <3> QED BY <3>7, <3>8
  <2> QED BY <2>3, <2>8, <2>9
<1>6. CASE DeleteEntry
  <2>1. pc = "delete" /\ pc' = "idle" /\ log' = Deleted
    BY <1>6 DEF DeleteEntry, Finish
  <2>2. op.old # NoAddr /\ OwnKey(op, L)
    BY <2>1 DEF ValuesInv, ReplacedOK
  <2>3. PICK t \in DOMAIN L \ OldIn(op, cur) :
          L[t].data = op.val /\ Pairs(L, op.id, OldIn(op, cur) \cup {t})
    BY <2>1 DEF ValuesInv, ReplacedOK
  <2>4. PICK i \in LiveKeys(L) : L[i].data = op.key /\ L[i].id = op.id
    BY <2>2 DEF OwnKey
  <2>5. Pairs(M, op.id, {t}) /\ M[t].data = op.val /\ OwnKey(op, M)
    <3>1. CASE op.old.r # cur
      <4>1. M = L
        BY <1>1, <2>1, <3>1 DEF Deleted, TypeOK
      <4>2. OldIn(op, cur) = {}
        BY <3>1 DEF OldIn
      <4>3. OldIn(op, cur) \cup {t} = {t}
        BY <4>2
      <4> HIDE DEF M
      <4> QED BY <2>2, <2>3, <4>1, <4>3
    <3>2. CASE op.old.r = cur
      <4> DEFINE v == op.old.i
                 d == [L[v] EXCEPT !.alive = FALSE]
                 id == op.id
                 S == OldIn(op, cur) \cup {t}
      <4>1. OldIn(op, cur) = {v}
        BY <2>2, <3>2 DEF OldIn
      <4>2. v # t /\ S = {v, t} /\ S \ {v} = {t} /\ v \in S /\ Pairs(L, id, S)
        BY <2>3, <4>1
      <4>3. ValuesOf(L, i) = S
        BY <2>4, <4>2 DEF Pairs
      <4>4. v \in LiveVals(L)
        BY <4>2, <4>3 DEF ValuesOf
      <4>5. v \in DOMAIN L /\ L[v] \in Entry /\ v \notin LiveKeys(L)
        BY <1>1, <4>4 DEF LiveVals, LiveKeys
      <4>6. M = [L EXCEPT ![v] = d]
        BY <1>1, <2>1, <3>2 DEF Deleted, TypeOK
      <4>7. d \in Entry /\ ~ Live(d) /\ d.id = L[v].id
        BY <4>5 DEF Entry, Live
      <4> HIDE DEF M, v, d, id, S
      <4>8. LET N == [L EXCEPT ![v] = d]
            IN  /\ DOMAIN N = DOMAIN L /\ N[v] = d /\ \A k \in DOMAIN L : k # v => N[k] = L[k]
                /\ ~ Live(d) => LiveKeys(N) = LiveKeys(L) \ {v} /\ LiveVals(N) = LiveVals(L) \ {v}
        BY <1>1, <4>5, <4>7, EditLive
      <4>9. /\ DOMAIN M = DOMAIN L /\ M[v] = d /\ \A k \in DOMAIN L : k # v => M[k] = L[k]
            /\ LiveKeys(M) = LiveKeys(L) /\ LiveVals(M) = LiveVals(L) \ {v}
        BY <4>5, <4>6, <4>7, <4>8
      <4>10. \A k \in LiveKeys(L) \cup LiveVals(L) : M[k].id = L[k].id
        BY <1>2, <4>7, <4>9
      <4>11. \E k \in LiveKeys(L) : L[k].id = id
        BY <2>4 DEF id
      <4>12. DOMAIN L \subseteq DOMAIN M
        BY <4>9
      <4>13. Pairs(M, id, S \ {v})
        BY <4>2, <4>9, <4>10, <4>11, <4>12, PairsLess
      <4>14. OwnKey(op, M)
        BY <1>2, <2>4, <4>5, <4>9 DEF OwnKey
      <4>15. M[t].data = op.val
        BY <2>3, <4>2, <4>9
      <4> QED BY <4>2, <4>13, <4>14, <4>15 DEF id
    <3> QED BY <3>1, <3>2
  <2> HIDE DEF M
  <2>6. Pairs(M, 0, {}) /\ Get(M, op.key) = op.val
    BY <1>1, <2>5, ReadersFind
  <2> QED BY <1>1, <2>1, <2>6 DEF ValuesInv, Compacting, Writes, Setting, M
<1>7. ~ WriteOverLeft
  BY DEF WriteOverLeft
<1> QED BY <1>3, <1>4, <1>5, <1>6, <1>7, NoMishap DEF Write

\* Every step.
LEMMA ValuesStep ==
  Undisturbed /\ EntriesInv /\ KeysInv /\ SpaceInv /\ ValuesInv /\ left = <<>> /\ [Next]_vars
    => ValuesInv' /\ left' = <<>>
<1> SUFFICES ASSUME Undisturbed, EntriesInv, KeysInv, SpaceInv, ValuesInv, left = <<>>,
                    [Next]_vars
             PROVE  ValuesInv' /\ left' = <<>>
  OBVIOUS
<1>3. left' = <<>>
  BY NoMishap
     DEF Next, vars, Boot, BootMount, BootRecover, BootNotFound, RecreateFormat, RecreateHeader,
         CreateActive, CreateStale, Begin, SetWrite, SetCompact, SetFull, ScanToEnd, Compact,
         CompactFormat, CompactCopy, CompactCopied, CompactNewHeader, CompactOldHeader, Write,
         WriteHeader, WriteOverLeft, ZeroHeader, WritePayload, SetValid, DeleteEntry
<1>1. CASE UNCHANGED vars
  BY <1>1 DEF vars, ValuesInv, Alt, Tip
<1>2. KeysInv' /\ TypeOK'
  BY KeysStep, EntriesStep DEF EntriesInv
<1> QED BY <1>1, <1>2, <1>3, NoMishap, ValuesBoot, ValuesBegin, ValuesCompact, ValuesWrite
       DEF Next

\* The store starts out empty.
LEMMA ValuesInit == Init => ValuesInv
BY PairsEmpty DEF Init, ValuesInv, Compacting, Writes, Setting, Region

\* While nothing fails and nothing is deleted, every key has exactly one value between sets,
\* and every value its key: a set deletes the value it replaces, also across a compaction.
THEOREM ValuesArePaired == Undisturbed => (Spec => []OneValuePerKey)
<1> SUFFICES ASSUME Undisturbed PROVE Spec => []OneValuePerKey
  OBVIOUS
<1> DEFINE Inv == EntriesInv /\ KeysInv /\ SpaceInv /\ LeftFits /\ ValuesInv /\ left = <<>>
<1>1. Init => Inv
  BY EntriesInit, ValuesInit, KeysInit, SpaceInit, LeftInit DEF Init
<1>2. Inv /\ [Next]_vars => Inv'
  BY EntriesStep, KeysStep, SpaceStep, LeftStep, ValuesStep
<1>4. Inv => EntriesInv /\ KeysInv /\ ValuesInv
  OBVIOUS
<1>3. EntriesInv /\ KeysInv /\ ValuesInv => OneValuePerKey
  <2> SUFFICES ASSUME EntriesInv, KeysInv, ValuesInv, pc = "idle"
               PROVE  LET L == log[cur] IN
                      /\ \A i \in LiveKeys(L) : Cardinality(ValuesOf(L, i)) = 1
                      /\ \A j \in LiveVals(L) : \E i \in LiveKeys(L) : i < j /\ L[i].id = L[j].id
    BY DEF OneValuePerKey
  <2> DEFINE L == log[cur]
  <2>1. Pairs(L, 0, {}) /\ KeysOK(L)
    BY DEF ValuesInv, KeysInv, EntriesInv, TypeOK
  <2> HIDE DEF L
  <2>2. ASSUME NEW i \in LiveKeys(L) PROVE Cardinality(ValuesOf(L, i)) = 1
    <3>1. L[i].id # 0
      BY <2>1 DEF KeysOK
    <3>2. PICK t : ValuesOf(L, i) = {t}
      BY <2>1, <3>1 DEF Pairs
    <3> QED BY <3>2, FS_Singleton
  <2>3. \A j \in LiveVals(L) : \E i \in LiveKeys(L) : i < j /\ L[i].id = L[j].id
    BY <2>1 DEF Pairs
  <2> QED BY <2>2, <2>3 DEF L
<1> HIDE DEF Inv
<1> QED BY <1>1, <1>2, <1>3, <1>4, PTL DEF Spec

\* While nothing fails and nothing is deleted, SYSPARAM_OK means what sysparam.h says of it:
\* the value a boot would find after the set is the one that was set.
THEOREM OkIsStored == Undisturbed => (Spec => OkMeansStored)
<1> SUFFICES ASSUME Undisturbed PROVE Spec => OkMeansStored
  OBVIOUS
<1> DEFINE Inv == EntriesInv /\ KeysInv /\ SpaceInv /\ LeftFits /\ ValuesInv /\ left = <<>>
<1>1. Init => Inv
  BY EntriesInit, ValuesInit, KeysInit, SpaceInit, LeftInit DEF Init
<1>2. Inv /\ [Next]_vars => Inv'
  BY EntriesStep, KeysStep, SpaceStep, LeftStep, ValuesStep
<1>3. Inv /\ Inv' /\ MountedIsRecovered' /\ [Next]_vars
        => [\A k \in Keys : Ends(k) /\ status' = "ok" => Durable(k)' = op.val]_vars
  <2> SUFFICES ASSUME Inv, Inv', MountedIsRecovered', Next,
                      NEW k \in Keys, Ends(k), status' = "ok"
               PROVE  Durable(k)' = op.val
    BY DEF vars
  <2>1. Write \/ CompactOldHeader
    <3>1. pc \in Setting /\ pc' = "idle"
      BY DEF Ends
    <3> QED BY <3>1, NoMishap
         DEF Next, Boot, BootMount, BootRecover, BootNotFound, RecreateFormat, RecreateHeader,
             CreateActive, CreateStale, Begin, SetWrite, SetCompact, SetFull, Refused,
             ScanToEnd, Compact, CompactFormat, CompactCopy, CompactCopied, CompactNewHeader,
             Setting
  <2>2. ~ CompactOldHeader
    <3> SUFFICES ASSUME CompactOldHeader PROVE FALSE
      OBVIOUS
    <3> QED BY DEF CompactOldHeader, Finish, Ends
  <2>3. Get(log'[cur'], op.key) = op.val
    BY <2>1, <2>2, ValuesWrite DEF Ends, EntriesInv
  <2>4. cur' = Recovered'
    BY DEF MountedIsRecovered, ValuesInv, Ends
  <2>5. Durable(k)' = Get(log'[Recovered'], k)
    BY DEF Durable
  <2>6. op.key = k
    BY DEF Ends
  <2> QED BY <2>3, <2>4, <2>5, <2>6
<1> HIDE DEF Inv
<1> QED BY <1>1, <1>2, <1>3, StoreRecovered, PTL DEF Spec, OkMeansStored
=============================================================================

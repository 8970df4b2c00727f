-------------------------- MODULE HandleListProofs --------------------------
(***************************************************************************)
(* Theorems about the handle list, for every set of items, any number of   *)
(* readers, and whenever malloc fails.  Callers remove only what they      *)
(* added.                                                                  *)
(***************************************************************************)
EXTENDS HandleList, FiniteSetTheorems, SequenceTheorems, TLAPS

IsFreeChain(n, s) ==
  /\ \A p \in Freed : \E i \in 1 .. n : s[i] = p
  /\ \A i, j \in 1 .. n : s[i] = s[j] => i = j
  /\ free = IF n = 0 THEN Null ELSE Address(s[1])
  /\ \A i \in 1 .. n : index[s[i]].next = IF i = n THEN Null ELSE Address(s[i + 1])

\* Items and listed entries correspond one to one.
Owned ==
  /\ \A p \in Listed : index[p].item \in heap
  /\ \A p, q \in Listed : index[p].item = index[q].item => p = q
  /\ \A x \in heap : \E p \in Listed : index[p].item = x

ListInv ==
  /\ TypeOK
  /\ Len(index) <= indexes
  /\ FreeListOK
  /\ Owned
  /\ ~up => index = <<>>

\* Positions of the array, and which of them are live.
LEMMA EntryTypes ==
  ASSUME TypeOK
  PROVE  /\ DOMAIN index = 1 .. Len(index) /\ Len(index) \in Nat
         /\ \A p \in DOMAIN index : index[p] \in Entry
         /\ Live \subseteq DOMAIN index /\ Deleted \subseteq DOMAIN index
         /\ \A p \in DOMAIN index : p \in Live <=> p \notin Deleted
         /\ \A p : p \in Listed <=> p \in Live /\ index[p].item \in Items
         /\ \A p : p \in Freed <=> p \in Deleted /\ index[p].item \in Items
BY DEF TypeOK, Live, Deleted, Made, Listed, Freed

\* The free list is never longer than the array.
LEMMA ChainLength ==
  ASSUME NEW n \in Nat, NEW m \in Nat, NEW s \in [1 .. n -> 1 .. m],
         \A i, j \in 1 .. n : s[i] = s[j] => i = j
  PROVE  n <= m
<1>1. /\ IsFiniteSet(1 .. m) /\ Cardinality(1 .. m) = m
      /\ Cardinality(1 .. n) = n
  BY FS_Interval
<1>2. IsFiniteSet(1 .. n) /\ (m < n => Cardinality(1 .. m) < Cardinality(1 .. n))
  BY <1>1, FS_Interval
<1>3. ~(m < n)
  BY <1>1, <1>2, FS_PigeonHole
<1> QED BY <1>3

\* Where the free list starts.
LEMMA FreeHead ==
  ASSUME TypeOK, FreeListOK
  PROVE  /\ free = Null <=> Freed = {}
         /\ free # Null => /\ free.arr = Len(index) /\ free.pos \in Freed
                           /\ free = Address(free.pos)
<1>0. PICK n \in 0 .. Len(index) : \E s \in [1 .. n -> Freed] : IsFreeChain(n, s)
  BY DEF FreeListOK, IsFreeChain
<1>1. PICK s \in [1 .. n -> Freed] : IsFreeChain(n, s)
  BY <1>0
<1>2. DOMAIN index = 1 .. Len(index) /\ Len(index) \in Nat /\ Freed \subseteq DOMAIN index
  BY EntryTypes
<1>3. CASE n = 0
  BY <1>1, <1>3 DEF IsFreeChain
<1>4. CASE n # 0
  <2>1. 1 \in 1 .. n /\ s[1] \in Freed /\ free = Address(s[1])
    BY <1>1, <1>4 DEF IsFreeChain
  <2>2. Len(index) # 0
    BY <1>2, <2>1
  <2> QED BY <2>1, <2>2 DEF Address, Null
<1> QED BY <1>3, <1>4

EmptyState ==
  /\ index = <<>> /\ indexes = 0 /\ free = Null /\ heap = {} /\ strayed \in BOOLEAN
  /\ cursor = [r \in Readers |-> Idle] /\ up \in BOOLEAN

\* A list after list_init or list_destroy.
LEMMA EmptyList == EmptyState => ListInv
<1> SUFFICES ASSUME EmptyState PROVE ListInv
  OBVIOUS
<1> USE DEF EmptyState
<1>1. /\ index \in Seq(Entry) /\ Len(index) = 0 /\ DOMAIN index = {}
      /\ Live = {} /\ Listed = {} /\ Freed = {}
  BY DEF Live, Deleted, Listed, Freed
<1>2. TypeOK
  <2>1. Null \in Pointer /\ Idle \in Cursor
    BY DEF Null, Pointer, Idle, Cursor
  <2> QED BY <1>1, <2>1 DEF TypeOK
<1>3. FreeListOK
  <2>1. 0 \in 0 .. Len(index) /\ [i \in 1 .. 0 |-> 0] \in [1 .. 0 -> Freed]
    BY <1>1
  <2>2. IsFreeChain(0, [i \in 1 .. 0 |-> 0])
    BY <1>1 DEF IsFreeChain
  <2> QED BY <2>1, <2>2 DEF FreeListOK, IsFreeChain
<1> QED BY <1>1, <1>2, <1>3 DEF ListInv, Owned, LiveItems

\* The list invariant depends on the list, the heap and the readers' places only.
LEMMA SameList ==
  ASSUME ListInv, UNCHANGED <<index, free, heap, up>>,
         indexes' \in Nat, Len(index) <= indexes',
         cursor' \in [Readers -> Cursor], strayed' \in BOOLEAN
  PROVE  ListInv'
<1>1. /\ Listed' = Listed /\ Freed' = Freed /\ Len(index') = Len(index)
      /\ \A p : Address(p)' = Address(p)
      /\ \A p : index'[p] = index[p]
  BY DEF Live, Deleted, Made, Listed, Freed, Address
<1>2. TypeOK'
  BY DEF ListInv, TypeOK
<1>3. \A n, s : IsFreeChain(n, s) => IsFreeChain(n, s)'
  BY <1>1 DEF IsFreeChain
<1>4. FreeListOK'
  <2>1. PICK n \in 0 .. Len(index) : \E s \in [1 .. n -> Freed] : IsFreeChain(n, s)
    BY DEF ListInv, FreeListOK, IsFreeChain
  <2>2. PICK s \in [1 .. n -> Freed] : IsFreeChain(n, s)
    BY <2>1
  <2>3. IsFreeChain(n, s)'
    BY <1>3, <2>2
  <2>4. n \in 0 .. Len(index') /\ s \in [1 .. n -> Freed']
    BY <1>1
  <2> QED BY <2>3, <2>4 DEF FreeListOK, IsFreeChain
<1>5. Owned'
  BY <1>1 DEF ListInv, Owned
<1> QED BY <1>2, <1>4, <1>5 DEF ListInv

\* list_add taking the first free entry unlinks it from the free list.
LEMMA ReuseKeeps ==
  ASSUME ListInv, NEW x \in Items, x \notin heap, AddReuse(x)
  PROVE  /\ ListInv'
         /\ free.pos \in Freed /\ Listed' = Listed \cup {free.pos}
         /\ index' = [index EXCEPT ![free.pos] = NewEntry(x)]
<1> DEFINE p == free.pos
<1>1. TypeOK /\ FreeListOK /\ Owned /\ free # Null /\ Len(index) <= indexes
  BY DEF ListInv, AddReuse
<1>2. /\ DOMAIN index = 1 .. Len(index) /\ Len(index) \in Nat
      /\ \A q \in DOMAIN index : index[q] \in Entry
      /\ Freed \subseteq DOMAIN index /\ Listed \subseteq DOMAIN index
      /\ \A q : ~(q \in Freed /\ q \in Listed)
  BY <1>1, EntryTypes
<1>3. free.arr = Len(index) /\ p \in Freed /\ free = Address(p)
  BY <1>1, FreeHead
<1>4. /\ index' = [index EXCEPT ![p] = NewEntry(x)]
      /\ free' = index[p].next
      /\ heap' = heap \cup {x}
      /\ UNCHANGED <<up, indexes, cursor, strayed>>
  BY <1>3 DEF AddReuse
<1>5. NewEntry(x) \in Entry /\ ~NewEntry(x).deleted /\ NewEntry(x).item = x
  BY DEF NewEntry, Entry, Null, Pointer
<1>6. /\ index' \in Seq(Entry) /\ Len(index') = Len(index) /\ DOMAIN index' = DOMAIN index
      /\ index'[p] = NewEntry(x)
      /\ \A q \in DOMAIN index : q # p => index'[q] = index[q]
  <2>1. index' \in [1 .. Len(index) -> Entry]
    BY <1>2, <1>3, <1>4, <1>5
  <2>2. index' \in Seq(Entry)
    BY <2>1, <1>2, SeqDef
  <2> QED BY <1>2, <1>3, <1>4, <2>1, <2>2
<1>7. TypeOK'
  <2>1. index[p].next \in Pointer
    BY <1>2, <1>3 DEF Entry
  <2>2. heap' \subseteq Items
    BY <1>1, <1>4 DEF TypeOK
  <2> QED BY <1>1, <1>4, <1>6, <2>1, <2>2 DEF TypeOK
<1>8. Listed' = Listed \cup {p} /\ Freed' = Freed \ {p}
  BY <1>2, <1>3, <1>5, <1>6 DEF Live, Deleted, Made, Listed, Freed
<1>9. FreeListOK'
  <2>0. PICK n \in 0 .. Len(index) : \E s \in [1 .. n -> Freed] : IsFreeChain(n, s)
    BY <1>1 DEF FreeListOK, IsFreeChain
  <2>1. PICK s \in [1 .. n -> Freed] : IsFreeChain(n, s)
    BY <2>0
  <2>2. n # 0 /\ n \in Nat /\ s[1] = p
    <3>1. n # 0
      BY <1>1, <2>1 DEF IsFreeChain
    <3> QED BY <3>1, <1>3, <2>1 DEF IsFreeChain, Address
  <2> DEFINE m == n - 1
             t == [i \in 1 .. m |-> s[i + 1]]
  <2>3. m \in 0 .. Len(index') /\ \A i \in 1 .. m : i + 1 \in 2 .. n
    BY <1>2, <1>6, <2>2
  <2>4. \A i \in 2 .. n : s[i] \in Freed /\ s[i] # p
    <3>1. \A i \in 2 .. n : i \in 1 .. n /\ 1 \in 1 .. n /\ i # 1
      BY <2>2
    <3>2. \A i, j \in 1 .. n : s[i] = s[j] => i = j
      BY <2>1 DEF IsFreeChain
    <3> HIDE DEF p
    <3> QED BY <2>1, <2>2, <3>1, <3>2
  <2>5. t \in [1 .. m -> Freed']
    BY <1>8, <2>3, <2>4
  <2>6. \A q \in Freed' : \E i \in 1 .. m : t[i] = q
    <3> SUFFICES ASSUME NEW q \in Freed' PROVE \E i \in 1 .. m : t[i] = q
      OBVIOUS
    <3>1. PICK j \in 1 .. n : s[j] = q
      BY <1>8, <2>1 DEF IsFreeChain
    <3>2. j # 1
      BY <1>8, <2>2, <3>1
    <3>3. j - 1 \in 1 .. m /\ (j - 1) + 1 = j
      BY <2>2, <3>1, <3>2
    <3> QED BY <3>1, <3>3
  <2>7. \A i, j \in 1 .. m : t[i] = t[j] => i = j
    BY <2>1, <2>2, <2>3 DEF IsFreeChain
  <2>8. \A q : Address(q)' = Address(q)
    BY <1>6 DEF Address
  <2>9. free' = IF m = 0 THEN Null ELSE Address(t[1])'
    <3>1. free' = IF 1 = n THEN Null ELSE Address(s[2])
      <4>1. 1 \in 1 .. n /\ 1 + 1 = 2
        BY <2>2
      <4>2. index[s[1]].next = IF 1 = n THEN Null ELSE Address(s[1 + 1])
        BY <2>1, <4>1 DEF IsFreeChain
      <4> QED BY <1>4, <2>2, <4>1, <4>2
    <3>2. m # 0 => t[1] = s[2]
      BY <2>2, <2>3
    <3> QED BY <2>2, <2>8, <3>1, <3>2
  <2>10. \A i \in 1 .. m : index'[t[i]].next = IF i = m THEN Null ELSE Address(t[i + 1])'
    <3> SUFFICES ASSUME NEW i \in 1 .. m
                 PROVE index'[t[i]].next = IF i = m THEN Null ELSE Address(t[i + 1])'
      OBVIOUS
    <3>1. i + 1 \in 2 .. n /\ t[i] = s[i + 1] /\ t[i] # p /\ t[i] \in DOMAIN index
      BY <1>2, <2>3, <2>4
    <3>2. index'[t[i]] = index[s[i + 1]]
      BY <1>6, <3>1
    <3>3. index[s[i + 1]].next = IF i + 1 = n THEN Null ELSE Address(s[(i + 1) + 1])
      BY <2>1, <2>2, <3>1 DEF IsFreeChain
    <3>4. i # m => i + 1 \in 1 .. m /\ t[i + 1] = s[(i + 1) + 1]
      BY <2>2
    <3> QED BY <2>2, <2>8, <3>2, <3>3, <3>4
  <2>11. IsFreeChain(m, t)'
    <3> HIDE DEF m, t
    <3> QED BY <2>6, <2>7, <2>9, <2>10 DEF IsFreeChain
  <2> QED
    <3> HIDE DEF m, t
    <3> QED BY <2>3, <2>5, <2>11 DEF FreeListOK, IsFreeChain
<1>10. Owned'
  <2>1. /\ \A q \in Listed : index'[q].item = index[q].item /\ index[q].item \in heap /\ q # p
        /\ index'[p].item = x
    BY <1>1, <1>2, <1>3, <1>5, <1>6 DEF Owned
  <2>2. \A y \in heap' : \E q \in Listed' : index'[q].item = y
    BY <1>1, <1>4, <1>8, <2>1 DEF Owned
  <2>3. \A a, b \in Listed' : index'[a].item = index'[b].item => a = b
    BY <1>1, <1>8, <2>1 DEF Owned
  <2>4. \A a \in Listed' : index'[a].item \in heap'
    BY <1>4, <1>8, <2>1
  <2> QED BY <2>2, <2>3, <2>4 DEF Owned
<1>11. up'
  BY <1>4 DEF AddReuse
<1> QED BY <1>1, <1>3, <1>4, <1>6, <1>7, <1>8, <1>9, <1>10, <1>11 DEF ListInv

\* list_add with an empty free list copies an array without removed entries; entries
\* that earlier failures left uninitialized carry no item.
LEMMA GrowKeeps ==
  ASSUME ListInv, NEW x \in Items, x \notin heap, AddGrow(x)
  PROVE  /\ ListInv'
         /\ indexes' = indexes + 1
         /\ indexes + 1 \notin Listed /\ Listed' = Listed \cup {indexes + 1}
         /\ index'[indexes + 1] = NewEntry(x)
         /\ \A p \in DOMAIN index : index'[p] = index[p]
         /\ \A p \in DOMAIN index' : p \in DOMAIN index \/ p = indexes + 1
                                       \/ index'[p].item = Garbage
<1> DEFINE m == indexes + 1
<1>1. /\ TypeOK /\ FreeListOK /\ Owned /\ free = Null /\ Len(index) <= indexes /\ up
      /\ indexes \in Nat
  BY DEF ListInv, AddGrow, MustGrow, TypeOK
<1>2. /\ DOMAIN index = 1 .. Len(index) /\ Len(index) \in Nat
      /\ \A q \in DOMAIN index : index[q] \in Entry
      /\ Listed \subseteq DOMAIN index
  BY <1>1, EntryTypes
<1>3. Freed = {}
  BY <1>1, FreeHead
<1>4. NewEntry(x) \in Entry /\ ~NewEntry(x).deleted /\ NewEntry(x).item = x
  BY DEF NewEntry, Entry, Null, Pointer
<1>5. PICK g \in Uninitialized :
        index' = [p \in 1 .. m |-> IF p = m THEN NewEntry(x) ELSE Copied(p, g)]
  BY DEF AddGrow
<1>6. g \in Entry /\ g.item = Garbage /\ Garbage \notin Items
  BY ListAssumption DEF Uninitialized, Entry, Null, Pointer
<1>7. /\ indexes' = m /\ m \in Nat
      /\ heap' = heap \cup {x}
      /\ UNCHANGED <<up, free, cursor, strayed>>
  BY <1>1 DEF AddGrow
<1>8. \A p \in DOMAIN index : p \in 1 .. m /\ p # m
  BY <1>1, <1>2
<1>9. /\ index' \in Seq(Entry) /\ Len(index') = m /\ DOMAIN index' = 1 .. m
      /\ index'[m] = NewEntry(x) /\ \A q \in DOMAIN index : index'[q] = index[q]
      /\ \A q \in 1 .. m : q \in DOMAIN index \/ q = m \/ index'[q] = g
  <2>1. \A p \in 1 .. m : index'[p] \in Entry
    BY <1>2, <1>4, <1>5, <1>6 DEF Copied
  <2>2. index' \in [1 .. m -> Entry]
    BY <1>5, <2>1
  <2>3. index' \in Seq(Entry)
    BY <2>2, <1>7, SeqDef
  <2>4. m \in 1 .. m
    BY <1>1
  <2> QED BY <1>5, <1>7, <1>8, <2>2, <2>3, <2>4 DEF Copied
<1>10. TypeOK'
  <2>1. heap' \subseteq Items
    BY <1>1, <1>7 DEF TypeOK
  <2> QED BY <1>1, <1>7, <1>9, <2>1 DEF TypeOK
<1>11. m \notin Listed /\ Listed' = Listed \cup {m} /\ Freed' = {}
  <2>1. m \notin DOMAIN index /\ m \in 1 .. m
    BY <1>1, <1>8
  <2>2. \A p \in DOMAIN index : index[p].item \in Items => ~index[p].deleted
    BY <1>3 DEF Freed, Deleted, Made
  <2>3. \A p \in 1 .. m : p \in DOMAIN index \/ p = m \/ index'[p].item \notin Items
    BY <1>6, <1>9
  <2> QED BY <1>2, <1>4, <1>8, <1>9, <2>1, <2>2, <2>3
          DEF Live, Deleted, Made, Listed, Freed
<1>12. FreeListOK'
  <2>1. /\ 0 \in 0 .. Len(index') /\ [i \in 1 .. 0 |-> 0] \in [1 .. 0 -> Freed']
    BY <1>7, <1>9
  <2>2. IsFreeChain(0, [i \in 1 .. 0 |-> 0])'
    BY <1>1, <1>7, <1>11 DEF IsFreeChain
  <2> QED BY <2>1, <2>2 DEF FreeListOK, IsFreeChain
<1>13. Owned'
  <2>1. /\ \A q \in Listed : index'[q].item = index[q].item /\ index[q].item \in heap
        /\ index'[m].item = x
    BY <1>1, <1>2, <1>4, <1>9 DEF Owned
  <2>2. \A y \in heap' : \E q \in Listed' : index'[q].item = y
    BY <1>1, <1>7, <1>11, <2>1 DEF Owned
  <2>3. \A a, b \in Listed' : index'[a].item = index'[b].item => a = b
    BY <1>1, <1>11, <2>1 DEF Owned
  <2>4. \A a \in Listed' : index'[a].item \in heap'
    BY <1>7, <1>11, <2>1
  <2> QED BY <2>2, <2>3, <2>4 DEF Owned
<1>14. ListInv'
  BY <1>1, <1>7, <1>9, <1>10, <1>12, <1>13 DEF ListInv
<1>15. \A p \in DOMAIN index' : p \in DOMAIN index \/ p = m \/ index'[p].item = Garbage
  BY <1>6, <1>9
<1> QED BY <1>7, <1>9, <1>11, <1>14, <1>15

\* list_remove links the removed entry in front of the free list.
LEMMA RemoveKeeps ==
  ASSUME ListInv, NEW h, Remove(h), index[h].item \in heap
  PROVE  /\ ListInv'
         /\ h \in Listed /\ Listed' = Listed \ {h}
         /\ DOMAIN index' = DOMAIN index
         /\ \A p \in DOMAIN index : index'[p].item = index[p].item
         /\ heap' = heap \ {index[h].item}
<1> DEFINE e == [index[h] EXCEPT !.next = free, !.deleted = TRUE]
<1>1. TypeOK /\ FreeListOK /\ Owned /\ Len(index) <= indexes /\ up /\ h \in Live
  BY DEF ListInv, Remove
<1>2. /\ DOMAIN index = 1 .. Len(index) /\ Len(index) \in Nat
      /\ \A q \in DOMAIN index : index[q] \in Entry
      /\ Listed \subseteq DOMAIN index /\ Freed \subseteq DOMAIN index
      /\ h \in DOMAIN index /\ h \in Listed /\ h \notin Freed
  BY <1>1, EntryTypes DEF TypeOK
<1>3. /\ index' = [index EXCEPT ![h] = e]
      /\ free' = Address(h)
      /\ heap' = heap \ {index[h].item}
      /\ cursor' = [r \in Readers |-> [cursor[r] EXCEPT !.base = @ \ {index[h].item}]]
      /\ UNCHANGED <<up, indexes, strayed>>
  BY <1>2 DEF Remove
<1>4. e \in Entry /\ e.deleted = TRUE /\ e.next = free /\ e.item = index[h].item
  <2>1. free \in Pointer /\ index[h] \in Entry
    BY <1>1, <1>2 DEF TypeOK
  <2> QED BY <2>1 DEF Entry
<1> HIDE DEF e
<1>5. /\ index' \in Seq(Entry) /\ Len(index') = Len(index) /\ DOMAIN index' = DOMAIN index
      /\ index'[h] = e /\ \A q \in DOMAIN index : q # h => index'[q] = index[q]
  <2>1. index' \in [1 .. Len(index) -> Entry]
    BY <1>2, <1>3, <1>4
  <2>2. index' \in Seq(Entry)
    BY <2>1, <1>2, SeqDef
  <2> QED BY <1>2, <1>3, <2>1, <2>2
<1>6. TypeOK'
  <2>1. free' \in Pointer
    BY <1>2, <1>3 DEF Address, Pointer
  <2>2. heap' \subseteq Items
    BY <1>1, <1>3 DEF TypeOK
  <2>3. cursor' \in [Readers -> Cursor]
    BY <1>1, <1>3 DEF TypeOK, Cursor
  <2> QED BY <1>1, <1>3, <1>5, <2>1, <2>2, <2>3 DEF TypeOK
<1>7. Listed' = Listed \ {h} /\ Freed' = Freed \cup {h}
  BY <1>2, <1>4, <1>5 DEF Live, Deleted, Made, Listed, Freed
<1>8. \A p \in DOMAIN index : index'[p].item = index[p].item
  BY <1>2, <1>4, <1>5
<1>9. Owned'
  <2>1. \A p \in Listed : p # h => index[p].item # index[h].item
    BY <1>1, <1>2 DEF Owned
  <2>2. \A y \in heap' : \E q \in Listed' : index'[q].item = y
    BY <1>1, <1>2, <1>3, <1>7, <1>8 DEF Owned
  <2>3. \A p \in Listed' : index'[p].item \in heap'
    BY <1>1, <1>2, <1>3, <1>7, <1>8, <2>1 DEF Owned
  <2>4. \A p, q \in Listed' : index'[p].item = index'[q].item => p = q
    BY <1>1, <1>2, <1>7, <1>8 DEF Owned
  <2> QED BY <2>2, <2>3, <2>4 DEF Owned
<1>10. FreeListOK'
  <2>0. PICK n \in 0 .. Len(index) : \E s \in [1 .. n -> Freed] : IsFreeChain(n, s)
    BY <1>1 DEF FreeListOK, IsFreeChain
  <2>1. PICK s \in [1 .. n -> Freed] : IsFreeChain(n, s)
    BY <2>0
  <2> DEFINE m == n + 1
             t == [i \in 1 .. m |-> IF i = 1 THEN h ELSE s[i - 1]]
  <2>2. n \in Nat /\ m \in Nat /\ 1 \in 1 .. m /\ t[1] = h
        /\ \A i \in 1 .. m : i # 1 => i - 1 \in 1 .. n /\ t[i] = s[i - 1]
    OBVIOUS
  <2>3. \A i \in 1 .. n : s[i] \in Freed /\ s[i] # h /\ s[i] \in DOMAIN index
    BY <1>2, <2>1
  <2>4. t \in [1 .. m -> Freed']
    BY <1>7, <2>2, <2>3
  <2>5. \A p \in Freed' : \E i \in 1 .. m : t[i] = p
    <3> SUFFICES ASSUME NEW p \in Freed, p # h PROVE \E i \in 1 .. m : t[i] = p
      BY <1>7, <2>2
    <3>1. PICK j \in 1 .. n : s[j] = p
      BY <2>1 DEF IsFreeChain
    <3>2. j + 1 \in 1 .. m /\ j + 1 # 1 /\ (j + 1) - 1 = j
      BY <2>2
    <3> QED BY <2>2, <3>1, <3>2
  <2>6. \A i, j \in 1 .. m : t[i] = t[j] => i = j
    <3>1. \A i, j \in 1 .. n : s[i] = s[j] => i = j
      BY <2>1 DEF IsFreeChain
    <3> HIDE DEF t
    <3>2. SUFFICES ASSUME NEW i \in 1 .. m, NEW j \in 1 .. m, t[i] = t[j] PROVE i = j
      OBVIOUS
    <3>3. CASE i = 1 \/ j = 1
      BY <2>2, <2>3, <3>2, <3>3
    <3>4. CASE i # 1 /\ j # 1
      BY <2>2, <3>1, <3>2, <3>4
    <3> QED BY <3>3, <3>4
  <2>7. m \in 0 .. Len(index')
    <3>1. t \in [1 .. m -> 1 .. Len(index)]
      BY <1>2, <2>2, <2>3
    <3>2. m <= Len(index)
      <4> HIDE DEF t, m
      <4> QED BY <1>2, <2>2, <2>6, <3>1, ChainLength
    <3> QED BY <1>2, <1>5, <2>2, <3>2
  <2>8. \A q : Address(q)' = Address(q)
    BY <1>5 DEF Address
  <2>9. free' = IF m = 0 THEN Null ELSE Address(t[1])'
    BY <1>3, <2>2, <2>8
  <2>10. \A i \in 1 .. m : index'[t[i]].next = IF i = m THEN Null ELSE Address(t[i + 1])'
    <3> SUFFICES ASSUME NEW i \in 1 .. m
                 PROVE index'[t[i]].next = IF i = m THEN Null ELSE Address(t[i + 1])'
      OBVIOUS
    <3>0. i # m => i + 1 \in 1 .. m /\ t[i + 1] = s[i]
      BY <2>2
    <3>1. CASE i = 1
      <4>1. index'[t[i]].next = free
        BY <1>4, <1>5, <2>2, <3>1
      <4>2. free = IF n = 0 THEN Null ELSE Address(s[1])
        BY <2>1 DEF IsFreeChain
      <4> QED BY <2>2, <2>8, <3>0, <3>1, <4>1, <4>2
    <3>2. CASE i # 1
      <4>1. i - 1 \in 1 .. n /\ t[i] = s[i - 1] /\ (i - 1) + 1 = i
        BY <2>2, <3>2
      <4>2. index'[t[i]] = index[s[i - 1]]
        BY <1>5, <2>3, <4>1
      <4>3. index[s[i - 1]].next = IF i - 1 = n THEN Null ELSE Address(s[(i - 1) + 1])
        BY <2>1, <4>1 DEF IsFreeChain
      <4> QED BY <2>2, <2>8, <3>0, <4>1, <4>2, <4>3
    <3> QED BY <3>1, <3>2
  <2>11. IsFreeChain(m, t)'
    <3> HIDE DEF m, t
    <3> QED BY <2>5, <2>6, <2>9, <2>10 DEF IsFreeChain
  <2> QED
    <3> HIDE DEF m, t
    <3> QED BY <2>4, <2>7, <2>11 DEF FreeListOK, IsFreeChain
<1> QED BY <1>1, <1>2, <1>3, <1>5, <1>6, <1>7, <1>8, <1>9, <1>10 DEF ListInv

\* A reader changes nothing but its own place.
LEMMA WalkKeeps ==
  ASSUME ListInv, NEW r \in Readers, Walk(r)
  PROVE  ListInv' /\ UNCHANGED <<index, heap>>
<1>1. UNCHANGED <<list, heap, strayed>> /\ TypeOK /\ Len(index) <= indexes
  BY DEF Walk, ListFirst, ListNext, ListGet, Finish, ListInv
<1>2. cursor' \in [Readers -> Cursor]
  <2>1. cursor \in [Readers -> Cursor] /\ indexes \in Nat /\ cursor[r] \in Cursor
    BY <1>1 DEF TypeOK
  <2>2. \A p \in Nat : ScanFrom(p) \subseteq Nat
    BY <2>1 DEF ScanFrom
  <2>3. ASSUME NEW q \in Nat PROVE MoveTo(r, q) \in Cursor
    <3>1. (IF q = 0 THEN "end" ELSE "at") \in {"idle", "at", "read", "end"}
      OBVIOUS
    <3> QED BY <2>1, <3>1 DEF MoveTo, Cursor
  <2>4. CASE ListFirst(r)
    <3>1. PICK q \in ScanFrom(1) : cursor' =
            [cursor EXCEPT ![r] = [MoveTo(r, q) EXCEPT !.base = LiveItems, !.seen = {}]]
      BY <2>4 DEF ListFirst
    <3>2. LiveItems \subseteq Items \cup {Garbage}
      BY <1>1, EntryTypes DEF LiveItems, Entry
    <3>3. [MoveTo(r, q) EXCEPT !.base = LiveItems, !.seen = {}] \in Cursor
      <4>1. MoveTo(r, q) \in Cursor
        BY <2>2, <2>3, <3>1
      <4> QED BY <3>2, <4>1 DEF Cursor
    <3> QED BY <2>1, <3>1, <3>3
  <2>5. CASE ListNext(r)
    <3>1. PICK q \in ScanFrom(cursor[r].at + 1) : cursor' = [cursor EXCEPT ![r] = MoveTo(r, q)]
      BY <2>5 DEF ListNext
    <3>2. cursor[r].at + 1 \in Nat
      BY <2>1 DEF Cursor
    <3> QED BY <2>1, <2>2, <2>3, <3>1, <3>2
  <2>6. CASE ListGet(r)
    <3> DEFINE p == cursor[r].at
               item == IF p \in DOMAIN index
                       THEN IF index[p].deleted THEN {} ELSE {index[p].item}
                       ELSE {Garbage}
               c == [cursor[r] EXCEPT !.state = "read", !.seen = @ \cup item]
    <3>1. item \subseteq Items \cup {Garbage}
      BY <1>1, EntryTypes DEF Entry
    <3>2. c \in Cursor
      <4> HIDE DEF item
      <4> QED BY <2>1, <3>1 DEF Cursor
    <3>3. cursor' = [cursor EXCEPT ![r] = c]
      BY <2>1, <2>6 DEF ListGet
    <3> HIDE DEF c
    <3> QED BY <2>1, <3>2, <3>3
  <2>7. CASE Finish(r)
    <3>1. Idle \in Cursor
      BY DEF Idle, Cursor
    <3> QED BY <2>1, <2>7, <3>1 DEF Finish
  <2> QED BY <2>4, <2>5, <2>6, <2>7 DEF Walk
<1>3. indexes' \in Nat /\ strayed' \in BOOLEAN /\ UNCHANGED <<index, indexes, free, heap, up>>
  BY <1>1 DEF list, TypeOK
<1> QED BY <1>1, <1>2, <1>3, SameList

\* An operation that changes neither the array nor the readers' places.
LEMMA CountKeeps ==
  ASSUME ListInv, UNCHANGED <<index, free, heap, up, cursor>>,
         indexes' \in {indexes, indexes + 1}, strayed' \in BOOLEAN
  PROVE  ListInv'
<1>1. indexes' \in Nat /\ Len(index) <= indexes' /\ cursor' \in [Readers -> Cursor]
  BY DEF ListInv, TypeOK
<1> QED BY <1>1, SameList

\* Removing an entry without an item, which only strays.
LEMMA RemoveStrays ==
  ASSUME ListInv, NEW h, Remove(h), ~(index[h].item \in heap)
  PROVE  UNCHANGED <<up, index, indexes, free, heap, cursor>> /\ strayed' = TRUE
BY DEF Remove

\* list_destroy frees every item: none was off the list.
LEMMA DestroyEmpties ==
  ASSUME ListInv, Destroy
  PROVE  EmptyState'
<1>1. heap \subseteq LiveItems
  BY DEF ListInv, Owned, LiveItems, Listed
<1>2. heap' = {}
  BY <1>1 DEF Destroy
<1>3. strayed' \in BOOLEAN
  BY DEF Destroy, ListInv, TypeOK
<1> QED BY <1>2, <1>3 DEF Destroy, EmptyState

\* list_init finds nothing allocated.
LEMMA InitEmpties ==
  ASSUME ListInv, ListInit
  PROVE  EmptyState'
<1>1. index = <<>> /\ Owned /\ strayed \in BOOLEAN
  BY DEF ListInit, ListInv, TypeOK
<1>2. heap = {}
  BY <1>1 DEF Owned, Live, Listed
<1> QED BY <1>1, <1>2 DEF ListInit, EmptyState

\* Every operation keeps the invariant.
LEMMA ListStep ==
  ASSUME ListInv, [Next]_vars
  PROVE  ListInv'
<1>0. (EmptyState => ListInv)'
  BY EmptyList, PTL
<1>1. CASE ListInit
  BY <1>0, <1>1, InitEmpties
<1>2. ASSUME NEW x \in Items, Add(x) PROVE ListInv'
  BY <1>2, ReuseKeeps, GrowKeeps DEF Add
<1>3. CASE AddFails
  BY <1>3, CountKeeps DEF AddFails, ListInv, TypeOK
<1>4. ASSUME NEW h \in 0 .. Width, Remove(h) PROVE ListInv'
  <2>1. CASE index[h].item \in heap
    BY <1>4, <2>1, RemoveKeeps
  <2>2. CASE ~(index[h].item \in heap)
    BY <1>4, <2>2, RemoveStrays, CountKeeps
  <2> QED BY <2>1, <2>2
<1>5. CASE Destroy
  BY <1>0, <1>5, DestroyEmpties
<1>6. ASSUME NEW r \in Readers, Walk(r) PROVE ListInv'
  BY <1>6, WalkKeeps
<1>7. CASE UNCHANGED vars
  BY <1>7, CountKeeps DEF vars, ListInv, TypeOK
<1> QED BY <1>1, <1>2, <1>3, <1>4, <1>5, <1>6, <1>7 DEF Next

\* An empty list is where every run starts.
LEMMA ListStart == Init => ListInv
<1> SUFFICES ASSUME Init PROVE ListInv
  OBVIOUS
<1> QED BY EmptyList DEF Init, EmptyState

\* The free list is exact and never leads into a replaced array: each removed entry
\* is on it once and no live one is, so list_add never hands out a handle twice.
THEOREM FreeListExact == Spec => [](TypeOK /\ FreeListOK)
<1>1. ListInv => TypeOK /\ FreeListOK
  BY DEF ListInv
<1> QED BY <1>1, ListStart, ListStep, PTL DEF Spec

\* No item is lost or listed twice, whichever list_add fails and whatever a new array
\* is filled with.
THEOREM ItemsStayReachable == Spec => []ItemsReachable
<1>1. ListInv => ItemsReachable
  <2> SUFFICES ASSUME ListInv, NEW x \in heap
               PROVE  Cardinality({p \in Live : index[p].item = x}) = 1
    BY DEF ItemsReachable
  <2>1. PICK p \in Listed : index[p].item = x
    BY DEF ListInv, Owned
  <2>2. \A q \in Live : index[q].item = x => q = p
    BY <2>1, EntryTypes DEF ListInv, Owned, TypeOK
  <2>3. {q \in Live : index[q].item = x} = {p}
    BY <2>1, <2>2 DEF Listed
  <2> QED BY <2>3, FS_Singleton
<1> QED BY <1>1, ListStart, ListStep, PTL DEF Spec

-----------------------------------------------------------------------------
(* Walks.  An item that has stayed on the list since list_first has been   *)
(* read or lies ahead of the reader: an entry never moves, and a reader    *)
(* moves past deleted entries only.                                        *)

Ahead(r, p) ==
  \/ cursor[r].state \in {"at", "read"} /\ p > cursor[r].at
  \/ cursor[r].state = "at" /\ p = cursor[r].at

Pending(r, x) ==
  \/ x \in cursor[r].seen
  \/ \E p \in Live : index[p].item = x /\ Ahead(r, p)

\* list_first and list_next find entries of the list and no other memory, as long as
\* no list_add has failed (list.c:68 counts an entry that is not made).
WalkFindsEntries ==
  NoneFailed => \A r \in Readers : cursor[r].state = "at" => cursor[r].at \in Made

WalkInv ==
  /\ \A r \in Readers : \A x \in cursor[r].base : Pending(r, x)
  /\ WalkFindsEntries

\* What other tasks do to the list while readers stand still.
LEMMA OthersKeepWalks ==
  ASSUME WalkInv, NEW gone,
         \A p \in Live : index[p].item \notin gone
            => p \in Live' /\ index'[p].item = index[p].item,
         \A r \in Readers : /\ cursor'[r].at = cursor[r].at
                            /\ cursor'[r].state = cursor[r].state
                            /\ cursor'[r].seen = cursor[r].seen
                            /\ cursor'[r].base \subseteq cursor[r].base \ gone,
         NoneFailed' => NoneFailed /\ Made \subseteq Made'
  PROVE  WalkInv'
<1>1. ASSUME NEW r \in Readers, NEW x \in cursor'[r].base PROVE Pending(r, x)'
  <2>1. x \notin gone /\ Pending(r, x)
    BY <1>1 DEF WalkInv
  <2> QED BY <2>1 DEF Pending, Ahead
<1>2. WalkFindsEntries'
  BY DEF WalkInv, WalkFindsEntries
<1> QED BY <1>1, <1>2 DEF WalkInv

\* The same when not even a walk's base changes.
LEMMA WaitersKeepWalks ==
  ASSUME WalkInv, UNCHANGED cursor,
         \A p \in Live : p \in Live' /\ index'[p].item = index[p].item,
         NoneFailed' => NoneFailed /\ Made \subseteq Made'
  PROVE  WalkInv'
<1> DEFINE gone == {}
<1>1. \A r \in Readers : cursor'[r].base \subseteq cursor[r].base \ gone
  OBVIOUS
<1> HIDE DEF gone
<1> QED BY <1>1, OthersKeepWalks

\* Where a scan stops: at no entry behind a live one.
LEMMA ScanStops ==
  ASSUME ListInv, NEW p \in Nat, p >= 1, NEW q \in ScanFrom(p)
  PROVE  /\ q \in Nat
         /\ q # 0 => q >= p /\ (NoneFailed => q \in Made)
         /\ \A o \in Live : o >= p => q # 0 /\ o >= q
<1>1. /\ TypeOK /\ Len(index) <= indexes /\ indexes \in Nat
      /\ DOMAIN index = 1 .. Len(index) /\ Len(index) \in Nat /\ Live \subseteq DOMAIN index
  BY EntryTypes DEF ListInv, TypeOK
<1>2. \A o \in Live : o \in Nat /\ o >= 1 /\ o <= indexes /\ ~MayBeDeleted(o)
  BY <1>1 DEF Live, MayBeDeleted
<1>3. CASE q \in p .. indexes /\ MayBeLive(q) /\ \A o \in p .. q - 1 : MayBeDeleted(o)
  <2>1. q \in Nat /\ q >= p /\ q # 0 /\ q \in 1 .. indexes
    BY <1>1, <1>3
  <2>2. ASSUME NEW o \in Live, o >= p PROVE o >= q
    <3>1. ~(o \in p .. q - 1)
      BY <1>2, <1>3
    <3> QED BY <1>2, <2>1, <2>2, <3>1
  <2> QED BY <2>1, <2>2 DEF NoneFailed
<1>4. CASE q = 0 /\ \A o \in p .. indexes : MayBeDeleted(o)
  BY <1>1, <1>2, <1>4
<1> QED BY <1>3, <1>4 DEF ScanFrom

\* A reader's own steps.
LEMMA WalkStep ==
  ASSUME ListInv, WalkInv, NEW r \in Readers, Walk(r)
  PROVE  WalkInv'
<1>1. /\ UNCHANGED <<up, index, indexes, free, heap>> /\ TypeOK
      /\ cursor \in [Readers -> Cursor] /\ cursor[r] \in Cursor
  BY DEF Walk, ListFirst, ListNext, ListGet, Finish, ListInv, TypeOK, list
<1>2. Live' = Live /\ (NoneFailed' <=> NoneFailed) /\ Made' = Made
      /\ \A p : index'[p] = index[p]
  BY <1>1 DEF Live, NoneFailed, Made
<1>3. SUFFICES /\ \A x \in cursor'[r].base : Pending(r, x)'
               /\ NoneFailed => (cursor'[r].state = "at" => cursor'[r].at \in Made)
  <2>1. \A o \in Readers : o # r => cursor'[o] = cursor[o]
    BY <1>1 DEF Walk, ListFirst, ListNext, ListGet, Finish
  <2>2. \A o \in Readers : o # r => \A x \in cursor'[o].base : Pending(o, x)'
    BY <1>2, <2>1 DEF WalkInv, Pending, Ahead
  <2> QED BY <1>2, <2>1, <2>2 DEF WalkInv, WalkFindsEntries
<1>4. ASSUME NEW q \in Nat
      PROVE  /\ MoveTo(r, q).at = q /\ MoveTo(r, q).base = cursor[r].base
             /\ MoveTo(r, q).seen = cursor[r].seen
             /\ MoveTo(r, q).state = IF q = 0 THEN "end" ELSE "at"
             /\ MoveTo(r, q) \in Cursor
  <2>1. (IF q = 0 THEN "end" ELSE "at") \in {"idle", "at", "read", "end"}
    OBVIOUS
  <2> QED BY <1>1, <2>1 DEF MoveTo, Cursor
<1>5. CASE ListFirst(r)
  <2>1. PICK q \in ScanFrom(1) : cursor' =
          [cursor EXCEPT ![r] = [MoveTo(r, q) EXCEPT !.base = LiveItems, !.seen = {}]]
    BY <1>5 DEF ListFirst
  <2>2. /\ q \in Nat /\ (q # 0 /\ NoneFailed => q \in Made)
        /\ \A o \in Live : o >= 1 => q # 0 /\ o >= q
    BY <2>1, ScanStops
  <2>3. /\ cursor'[r].at = q /\ cursor'[r].base = LiveItems
        /\ cursor'[r].state = IF q = 0 THEN "end" ELSE "at"
    BY <1>1, <1>4, <2>1, <2>2 DEF Cursor
  <2>4. \A o \in Live : o \in Nat /\ o >= 1
    BY <1>1, EntryTypes
  <2>5. \A x \in LiveItems : \E p \in Live' : index'[p].item = x /\ Ahead(r, p)'
    BY <1>2, <2>2, <2>3, <2>4 DEF LiveItems, Ahead
  <2> QED BY <2>2, <2>3, <2>5 DEF Pending
<1>6. CASE ListNext(r)
  <2>1. PICK q \in ScanFrom(cursor[r].at + 1) : cursor' = [cursor EXCEPT ![r] = MoveTo(r, q)]
    BY <1>6 DEF ListNext
  <2>2. cursor[r].at \in Nat /\ cursor[r].state = "read"
    BY <1>1, <1>6 DEF ListNext, Cursor
  <2>3. /\ q \in Nat /\ (q # 0 /\ NoneFailed => q \in Made)
        /\ \A o \in Live : o >= cursor[r].at + 1 => q # 0 /\ o >= q
    BY <2>1, <2>2, ScanStops
  <2>4. /\ cursor'[r].at = q /\ cursor'[r].base = cursor[r].base
        /\ cursor'[r].seen = cursor[r].seen
        /\ cursor'[r].state = IF q = 0 THEN "end" ELSE "at"
    BY <1>1, <1>4, <2>1, <2>3
  <2>5. \A o \in Live : o \in Nat
    BY <1>1, EntryTypes
  <2>6. \A p \in Live : Ahead(r, p) => Ahead(r, p)'
    BY <2>2, <2>3, <2>4, <2>5 DEF Ahead
  <2> QED BY <1>2, <2>3, <2>4, <2>6 DEF WalkInv, Pending
<1>7. CASE ListGet(r)
  <2> DEFINE p == cursor[r].at
             item == IF p \in DOMAIN index
                     THEN IF index[p].deleted THEN {} ELSE {index[p].item}
                     ELSE {Garbage}
  <2>1. /\ cursor'[r].at = p /\ cursor'[r].base = cursor[r].base
        /\ cursor'[r].seen = cursor[r].seen \cup item
        /\ cursor'[r].state = "read" /\ cursor[r].state = "at"
    BY <1>1, <1>7 DEF ListGet, Cursor
  <2>2. \A o \in Live : Ahead(r, o) => Ahead(r, o)' \/ index[o].item \in item
    BY <2>1 DEF Ahead, Live
  <2> QED BY <1>2, <2>1, <2>2 DEF WalkInv, Pending
<1>8. CASE Finish(r)
  <2>1. cursor'[r] = Idle
    BY <1>1, <1>8 DEF Finish
  <2> QED BY <2>1 DEF Idle
<1> QED BY <1>5, <1>6, <1>7, <1>8 DEF Walk

\* Readers that wait while another task adds, removes or fails to add.
LEMMA WalksStep ==
  ASSUME ListInv, WalkInv, [Next]_vars
  PROVE  WalkInv'
<1>0. /\ TypeOK /\ cursor \in [Readers -> Cursor] /\ indexes \in Nat
      /\ DOMAIN index = 1 .. Len(index) /\ Len(index) <= indexes /\ Len(index) \in Nat
      /\ Live \subseteq DOMAIN index
  BY EntryTypes DEF ListInv, TypeOK
<1>1. EmptyState' => WalkInv'
  BY DEF EmptyState, WalkInv, WalkFindsEntries, Idle
<1>2. ASSUME NEW x \in Items, Add(x) PROVE WalkInv'
  <2>1. CASE AddReuse(x)
    <3>1. /\ free.pos \in Freed /\ index' = [index EXCEPT ![free.pos] = NewEntry(x)]
      BY <1>2, <2>1, ReuseKeeps DEF Add
    <3>2. free.pos \in DOMAIN index /\ free.pos \notin Live
      BY <3>1 DEF Freed, Deleted, Live
    <3>3. /\ DOMAIN index' = DOMAIN index /\ index'[free.pos].item = x
          /\ \A p \in DOMAIN index : p # free.pos => index'[p] = index[p]
      BY <3>1, <3>2 DEF NewEntry
    <3>4. Made' = Made /\ indexes' = indexes /\ cursor' = cursor
      BY <2>1, <3>1, <3>3 DEF Made, Freed, AddReuse
    <3>5. \A p \in Live : p \in Live' /\ index'[p].item = index[p].item
      BY <1>0, <3>2, <3>3 DEF Live
    <3>6. NoneFailed' <=> NoneFailed
      BY <3>4 DEF NoneFailed
    <3> QED BY <3>4, <3>5, <3>6, WaitersKeepWalks
  <2>2. CASE AddGrow(x)
    <3>1. /\ indexes' = indexes + 1 /\ index'[indexes + 1] = NewEntry(x)
          /\ \A p \in DOMAIN index : index'[p] = index[p]
          /\ \A p \in DOMAIN index' : p \in DOMAIN index \/ p = indexes + 1
                                        \/ index'[p].item = Garbage
          /\ cursor' = cursor /\ DOMAIN index' = 1 .. indexes + 1
      BY <1>2, <2>2, GrowKeeps DEF Add, AddGrow
    <3>2. \A p \in DOMAIN index : p \in DOMAIN index'
      BY <1>0, <3>1
    <3>3. \A p \in Live : p \in Live' /\ index'[p].item = index[p].item
      BY <3>1, <3>2 DEF Live
    <3>4. Made \subseteq Made'
      BY <3>1, <3>2 DEF Made
    <3>5. NoneFailed' => NoneFailed
      <4> SUFFICES ASSUME NoneFailed', NEW p \in 1 .. indexes PROVE p \in Made
        BY DEF NoneFailed
      <4>1. p \in Made' /\ p # indexes + 1
        BY <1>0, <3>1 DEF NoneFailed
      <4> QED BY <3>1, <4>1, ListAssumption DEF Made
    <3> QED BY <3>1, <3>3, <3>4, <3>5, WaitersKeepWalks
  <2> QED BY <1>2, <2>1, <2>2 DEF Add
<1>3. CASE AddFails
  <2>1. UNCHANGED <<index, cursor>> /\ indexes' = indexes + 1
    BY <1>3 DEF AddFails
  <2>2. Live' = Live /\ Made' = Made
    BY <2>1 DEF Live, Made
  <2>3. NoneFailed' => NoneFailed
    BY <1>0, <2>1, <2>2 DEF NoneFailed
  <2> QED BY <2>1, <2>2, <2>3, WaitersKeepWalks
<1>4. ASSUME NEW h \in 0 .. Width, Remove(h), index[h].item \in heap PROVE WalkInv'
  <2>1. /\ DOMAIN index' = DOMAIN index
        /\ \A p \in DOMAIN index : index'[p].item = index[p].item
    BY <1>4, RemoveKeeps
  <2>2. /\ cursor' = [r \in Readers |-> [cursor[r] EXCEPT !.base = @ \ {index[h].item}]]
        /\ index' = [index EXCEPT ![h] = [@ EXCEPT !.next = free, !.deleted = TRUE]]
        /\ indexes' = indexes
    BY <1>0, <1>4 DEF Remove
  <2>3. Made' = Made
    BY <2>1 DEF Made
  <2>4. \A p \in Live : index[p].item \notin {index[h].item} => p \in Live'
    BY <2>1, <2>2 DEF Live
  <2>5. \A r \in Readers : /\ cursor'[r].at = cursor[r].at
                           /\ cursor'[r].state = cursor[r].state
                           /\ cursor'[r].seen = cursor[r].seen
                           /\ cursor'[r].base = cursor[r].base \ {index[h].item}
    BY <1>0, <2>2 DEF Cursor
  <2>6. NoneFailed' <=> NoneFailed
    BY <2>2, <2>3 DEF NoneFailed
  <2> DEFINE gone == {index[h].item}
  <2>7. /\ \A p \in Live : index[p].item \notin gone => p \in Live' /\ index'[p].item = index[p].item
        /\ \A r \in Readers : cursor'[r].base \subseteq cursor[r].base \ gone
    BY <1>0, <2>1, <2>4, <2>5
  <2> HIDE DEF gone
  <2> QED BY <2>3, <2>5, <2>6, <2>7, OthersKeepWalks
<1>5. ASSUME NEW h \in 0 .. Width, Remove(h), ~(index[h].item \in heap) PROVE WalkInv'
  <2>1. UNCHANGED <<index, indexes, cursor>>
    BY <1>5, RemoveStrays
  <2>2. Live' = Live /\ Made' = Made /\ (NoneFailed' <=> NoneFailed)
    BY <2>1 DEF Live, Made, NoneFailed
  <2> QED BY <2>1, <2>2, WaitersKeepWalks
<1>6. CASE UNCHANGED vars
  <2>1. UNCHANGED <<index, indexes, cursor>>
    BY <1>6 DEF vars
  <2>2. Live' = Live /\ Made' = Made /\ (NoneFailed' <=> NoneFailed)
    BY <2>1 DEF Live, Made, NoneFailed
  <2> QED BY <2>1, <2>2, WaitersKeepWalks
<1> QED BY <1>1, <1>2, <1>3, <1>4, <1>5, <1>6, WalkStep, InitEmpties, DestroyEmpties DEF Next

\* A walk reads every item that stays on the list while it lasts, and, unless a
\* list_add has failed, nothing but entries of the list.
THEOREM WalksAreComplete == Spec => [](WalkComplete /\ WalkFindsEntries)
<1>1. Init => WalkInv
  BY DEF Init, WalkInv, WalkFindsEntries, Idle
<1>2. WalkInv => WalkComplete /\ WalkFindsEntries
  BY DEF WalkInv, WalkComplete, Pending, Ahead
<1> QED BY <1>1, <1>2, ListStart, ListStep, WalksStep, PTL DEF Spec

-----------------------------------------------------------------------------
(* The list implements the table of handles                                *)

View == [p \in Listed |-> index[p].item]

\* An item added is an insertion into the table, under a handle that was not in use.
LEMMA InsertStep ==
  ASSUME NEW p, NEW x \in Items, p \notin Listed, x \notin heap,
         Listed' = Listed \cup {p}, index'[p].item = x,
         \A q \in Listed : index'[q].item = index[q].item,
         heap' = heap \cup {x}
  PROVE  Table!Next
<1>1. View' = [q \in Listed \cup {p} |-> IF q = p THEN x ELSE View[q]]
  BY DEF View
<1>2. Table!Insert(p, x)
  BY <1>1 DEF Table!Insert, View
<1>3. p \in DOMAIN View'
  BY <1>1
<1> QED BY <1>2, <1>3 DEF Table!Next, View

\* What changes neither the array nor the heap is invisible in the table.
LEMMA SameTable ==
  ASSUME UNCHANGED <<index, heap>>
  PROVE  UNCHANGED Table!vars
<1>1. Listed' = Listed
  BY DEF Listed, Live, Made
<1> QED BY <1>1 DEF Table!vars

\* Every list_add, list_remove and list_destroy is what HandleTable allows: it adds
\* a handle that named nothing, or removes one and frees its item, and leaves every
\* other handle and item alone, also after a list_add that failed.
THEOREM ListImplementsTable == Spec => Refinement
<1>1. Init => Table!Init
  <2> SUFFICES ASSUME Init PROVE Table!Init
    OBVIOUS
  <2>1. Listed = {} /\ heap = {}
    BY DEF Init, Live, Listed
  <2> QED BY <2>1 DEF Table!Init, Table!NoHandles
<1>2. ListInv /\ [Next]_vars => [Table!Next]_(Table!vars)
  <2> SUFFICES ASSUME ListInv, [Next]_vars PROVE [Table!Next]_(Table!vars)
    OBVIOUS
  <2>0. /\ TypeOK /\ DOMAIN index = 1 .. Len(index) /\ Len(index) \in Nat
        /\ Listed \subseteq DOMAIN index
    BY EntryTypes DEF ListInv
  <2> USE DEF View
  <2>1. CASE UNCHANGED vars
    BY <2>1, SameTable DEF vars
  <2>2. CASE ListInit
    <3>1. index = <<>> /\ index' = <<>> /\ heap' = heap
      BY <2>2 DEF ListInit, ListInv
    <3> QED BY <3>1, SameTable
  <2>3. ASSUME NEW x \in Items, Add(x) PROVE Table!Next
    <3>1. CASE AddReuse(x)
      <4>1. /\ free.pos \in Freed /\ Listed' = Listed \cup {free.pos}
            /\ index' = [index EXCEPT ![free.pos] = NewEntry(x)]
        BY <2>3, <3>1, ReuseKeeps DEF Add
      <4>2. heap' = heap \cup {x} /\ x \notin heap
        BY <2>3, <3>1 DEF Add, AddReuse
      <4>3. free.pos \notin Listed /\ free.pos \in DOMAIN index
        BY <4>1 DEF Live, Deleted, Listed, Freed
      <4>4. index'[free.pos].item = x
        BY <4>1, <4>3 DEF NewEntry
      <4>5. \A q \in Listed : index'[q].item = index[q].item
        BY <2>0, <4>1, <4>3
      <4> QED BY <4>1, <4>2, <4>3, <4>4, <4>5, InsertStep
    <3>2. CASE AddGrow(x)
      <4>1. /\ indexes + 1 \notin Listed
            /\ Listed' = Listed \cup {indexes + 1}
            /\ index'[indexes + 1] = NewEntry(x)
            /\ \A p \in DOMAIN index : index'[p] = index[p]
        BY <2>3, <3>2, GrowKeeps DEF Add
      <4>2. heap' = heap \cup {x} /\ x \notin heap
        BY <2>3, <3>2 DEF Add, AddGrow
      <4>3. index'[indexes + 1].item = x
        BY <4>1 DEF NewEntry
      <4> QED BY <2>0, <4>1, <4>2, <4>3, InsertStep
    <3> QED BY <2>3, <3>1, <3>2 DEF Add
  <2>4. ASSUME NEW h \in 0 .. Width, Remove(h), index[h].item \in heap PROVE Table!Next
    <3>1. /\ h \in Listed /\ Listed' = Listed \ {h}
          /\ \A p \in Listed : index'[p].item = index[p].item
          /\ heap' = heap \ {index[h].item}
      BY <2>0, <2>4, RemoveKeeps
    <3>2. View' = [q \in Listed \ {h} |-> View[q]]
      BY <3>1
    <3>3. Table!Delete(h)
      BY <3>1, <3>2 DEF Table!Delete
    <3> QED BY <3>1, <3>3 DEF Table!Next
  <2>5. ASSUME NEW h \in 0 .. Width, Remove(h), ~(index[h].item \in heap)
        PROVE  UNCHANGED Table!vars
    BY <2>5, RemoveStrays, SameTable
  <2>6. CASE Destroy
    <3>1. index' = <<>> /\ heap' = {}
      BY <2>6, DestroyEmpties DEF EmptyState
    <3>2. Listed' = {}
      BY <3>1 DEF Live, Listed
    <3>3. Table!Clear
      BY <3>1, <3>2 DEF Table!Clear, Table!NoHandles
    <3> QED BY <3>3 DEF Table!Next
  <2>7. ASSUME NEW r \in Readers, Walk(r) PROVE UNCHANGED Table!vars
    BY <2>7, WalkKeeps, SameTable
  <2>8. CASE AddFails
    BY <2>8, SameTable DEF AddFails
  <2> QED BY <2>1, <2>2, <2>3, <2>4, <2>5, <2>6, <2>7, <2>8 DEF Next
<1> QED BY <1>1, <1>2, ListStart, ListStep, PTL DEF Spec, Refinement, Table!Spec

=============================================================================

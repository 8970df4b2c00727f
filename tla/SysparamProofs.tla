--------------------------- MODULE SysparamProofs ---------------------------
(***************************************************************************)
(* Theorems about the parameter store, for every set of keys and values,   *)
(* every region size, and any number of failures and power cuts: an entry  *)
(* that readers see is complete; a boot recovers the region in use; a torn *)
(* region is compacted before it is written; ids go up from key to key,    *)
(* none passes MAX_KEY_ID, and no name has two live entries; and, from all *)
(* of these, what survives is a ParamStore.                                *)
(***************************************************************************)
EXTENDS Sysparam, FiniteSetTheorems, SequenceTheorems, WellFoundedInduction, TLAPS

\* Every nonempty set of naturals has a least element: the intervals 0 .. i are
\* finite sets, which strict inclusion orders well.
LEMMA LeastExists ==
  ASSUME NEW S \in SUBSET Nat, S # {}
  PROVE  \E i \in S : \A j \in S : i <= j
<1> DEFINE T == {0 .. i : i \in S}
<1>1. T \in SUBSET FiniteSubsetsOf(Nat) /\ T # {}
  <2>1. ASSUME NEW i \in S PROVE 0 .. i \in FiniteSubsetsOf(Nat)
    BY FS_Interval DEF FiniteSubsetsOf
  <2> QED BY <2>1
<1>2. IsWellFoundedOn(StrictSubsetOrdering(Nat), FiniteSubsetsOf(Nat))
  BY FS_StrictSubsetOrderingWellFounded
<1>3. PICK x \in T : \A y \in T : ~ (<<y, x>> \in StrictSubsetOrdering(Nat))
  <2> HIDE DEF T
  <2> QED BY <1>1, <1>2, WFMin
<1>4. PICK i \in S : x = 0 .. i
  BY <1>3
<1>5. ASSUME NEW j \in S, j < i PROVE FALSE
  <2>1. 0 .. j \in T /\ 0 .. j \subseteq 0 .. i /\ i \in 0 .. i /\ i \notin 0 .. j
    BY <1>5
  <2>2. <<0 .. j, 0 .. i>> \in StrictSubsetOrdering(Nat)
    BY <2>1, <1>1, <1>3, <1>4 DEF StrictSubsetOrdering
  <2> QED BY <2>1, <2>2, <1>3, <1>4
<1> QED BY <1>5

\* First of a set of naturals is its least element, or 0.
LEMMA FirstIn ==
  ASSUME NEW S \in SUBSET Nat
  PROVE  First(S) \in S \cup {0} /\ (First(S) = 0 => S = {} \/ 0 \in S)
<1>1. CASE S = {}
  BY <1>1 DEF First
<1>2. CASE S # {}
  BY <1>2, LeastExists DEF First
<1> QED BY <1>1, <1>2

\* So has every nonempty set bounded from above a largest element.
LEMMA LastExists ==
  ASSUME NEW n \in Nat, NEW S \in SUBSET (1 .. n), S # {}
  PROVE  \E i \in S : \A j \in S : j <= i
<1> DEFINE T == {n - j : j \in S}
<1>1. T \in SUBSET Nat /\ T # {}
  <2>1. \A j \in S : n - j \in Nat
    OBVIOUS
  <2> QED BY <2>1
<1>2. PICK m \in T : \A k \in T : m <= k
  <2> HIDE DEF T
  <2> QED BY <1>1, LeastExists
<1>3. PICK i \in S : m = n - i
  BY <1>2
<1>4. \A j \in S : n - j \in T
  OBVIOUS
<1>5. \A j \in S : j <= i
  BY <1>2, <1>3, <1>4
<1> QED BY <1>5

\* A search of the log for a key or a value ends at an entry, or at 0.
LEMMA FindTypes ==
  ASSUME NEW L \in Seq(Entry), NEW k
  PROVE  /\ FindKey(L, k) \in DOMAIN L \cup {0}
         /\ FindKey(L, k) # 0 => L[FindKey(L, k)].data = k
         /\ LastKeyId(L) \in Nat
         /\ DOMAIN L \subseteq Nat \ {0}
<1>1. DOMAIN L = 1 .. Len(L) /\ Len(L) \in Nat /\ LiveKeys(L) \subseteq DOMAIN L
  BY DEF LiveKeys
<1>2. FindKey(L, k) \in {i \in LiveKeys(L) : L[i].data = k} \cup {0}
  BY <1>1, FirstIn DEF FindKey
<1>3. LastKeyId(L) \in Nat
  <2>1. CASE LiveKeys(L) = {}
    BY <2>1 DEF LastKeyId
  <2>2. CASE LiveKeys(L) # {}
    <3>1. \E i \in LiveKeys(L) : \A j \in LiveKeys(L) : j <= i
      BY <1>1, <2>2, LastExists
    <3> DEFINE i == CHOOSE i \in LiveKeys(L) : \A j \in LiveKeys(L) : j <= i
    <3>2. i \in DOMAIN L
      BY <3>1, <1>1
    <3>3. L[i].id \in Nat
      <4>1. \A x \in DOMAIN L : L[x] \in Entry
        BY <1>1
      <4> HIDE DEF i
      <4> QED BY <4>1, <3>2 DEF Entry
    <3> QED BY <3>3, <2>2 DEF LastKeyId
  <2> QED BY <2>1, <2>2
<1> QED BY <1>1, <1>2, <1>3

\* The iterator and the search for a value stay within the log.
LEMMA ScanTypes ==
  ASSUME NEW L \in Seq(Entry), NEW i
  PROVE  /\ ValuesOf(L, i) \subseteq LiveVals(L)
         /\ LiveVals(L) \subseteq DOMAIN L
         /\ FindValue(L, i) \in ValuesOf(L, i) \cup {0}
         /\ ValuesOf(L, i) # {} => FindValue(L, i) \in ValuesOf(L, i)
<1>1. DOMAIN L \subseteq Nat \ {0}
  OBVIOUS
<1>2. ValuesOf(L, i) \subseteq LiveVals(L) /\ LiveVals(L) \subseteq DOMAIN L
  BY DEF ValuesOf, LiveVals
<1> QED BY <1>1, <1>2, FirstIn DEF FindValue

\* The iterator of a compaction moves forward, to a key that has a value.
LEMMA NextKeyType ==
  ASSUME log[cur] \in Seq(Entry), NextKey # 0
  PROVE  /\ NextKey \in LiveKeys(log[cur])
         /\ NextKey \in DOMAIN log[cur]
         /\ ValuesOf(log[cur], NextKey) # {}
<1> DEFINE S == {i \in LiveKeys(log[cur]) : i > op.iter /\ ValuesOf(log[cur], i) # {}}
<1>1. S \in SUBSET Nat /\ LiveKeys(log[cur]) \subseteq DOMAIN log[cur]
  BY DEF LiveKeys
<1>2. NextKey = First(S)
  BY DEF NextKey
<1>3. NextKey \in S
  <2> HIDE DEF S
  <2> QED BY <1>1, <1>2, FirstIn
<1> QED BY <1>1, <1>3

-----------------------------------------------------------------------------
(* Type correctness and complete entries.  TypeOK is not inductive by      *)
(* itself: the copy loop takes the length of a copied key from the data of *)
(* a live entry, which must be a name; that is NoHalfWrittenEntry, and it  *)
(* holds because clearing INVALID comes last, when the payload of the      *)
(* entry at the tip has been written.                                      *)

GoodEntry(e) == Live(e) => e.data \in IF e.value THEN Vals ELSE Keys

LogOK(L) == L \in Seq(Entry) /\ \A i \in DOMAIN L : GoodEntry(L[i])

SetInProgress ==
  /\ pc \in {"format", "copy", "newHdr", "oldHdr", "hdr", "payload", "valid"}
       => op.key \in Keys /\ op.val \in Vals
  /\ pc \in {"hdr", "payload", "valid"} => op.what \in {"key", "val"}

HalfWritten ==
  /\ pc \in {"payload", "valid"} =>
       /\ Tip \in DOMAIN log[cur]
       /\ ~log[cur][Tip].valid
       /\ log[cur][Tip].value = (op.what = "val")
  /\ pc = "valid" =>
       log[cur][Tip].data = IF op.what = "key" THEN op.key ELSE op.val

EntriesInv == TypeOK /\ NoHalfWrittenEntry /\ SetInProgress /\ HalfWritten

\* NoHalfWrittenEntry, one log at a time.
LEMMA LogsOK ==
  ASSUME log \in [Region -> Seq(Entry)]
  PROVE  NoHalfWrittenEntry <=> \A r \in Region : LogOK(log[r])
BY DEF NoHalfWrittenEntry, LogOK, GoodEntry

\* A good log stays good when a good entry is appended.
LEMMA AppendOK ==
  ASSUME NEW L, LogOK(L), NEW e \in Entry, GoodEntry(e)
  PROVE  /\ LogOK(Append(L, e))
         /\ Len(Append(L, e)) \in DOMAIN Append(L, e)
         /\ Append(L, e)[Len(Append(L, e))] = e
<1>1. L \in Seq(Entry) /\ Append(L, e) \in Seq(Entry)
  BY DEF LogOK
<1>2. /\ Len(Append(L, e)) = Len(L) + 1
      /\ \A i \in 1 .. Len(L) : Append(L, e)[i] = L[i]
      /\ Append(L, e)[Len(L) + 1] = e
      /\ DOMAIN Append(L, e) = 1 .. Len(L) + 1
      /\ DOMAIN L = 1 .. Len(L)
      /\ Len(L) \in Nat
  BY <1>1
<1>3. \A i \in DOMAIN Append(L, e) : GoodEntry(Append(L, e)[i])
  BY <1>2 DEF LogOK
<1> QED BY <1>1, <1>2, <1>3 DEF LogOK

\* A good log stays good when an entry is replaced by a good one.
LEMMA ReplaceOK ==
  ASSUME NEW L, LogOK(L), NEW i, NEW e,
         i \in DOMAIN L => e \in Entry /\ GoodEntry(e)
  PROVE  /\ LogOK([L EXCEPT ![i] = e])
         /\ Len([L EXCEPT ![i] = e]) = Len(L)
         /\ DOMAIN [L EXCEPT ![i] = e] = DOMAIN L
         /\ i \in DOMAIN L => [L EXCEPT ![i] = e][i] = e
<1>1. L \in Seq(Entry) /\ DOMAIN L = 1 .. Len(L) /\ Len(L) \in Nat
  BY DEF LogOK
<1>2. \A j \in DOMAIN L : L[j] \in Entry
  BY <1>1
<1>3. [L EXCEPT ![i] = e] \in Seq(Entry)
  <2>1. [L EXCEPT ![i] = e] \in [1 .. Len(L) -> Entry]
    BY <1>1, <1>2
  <2> QED BY <2>1, <1>1, SeqDef
<1>4. \A j \in DOMAIN L : GoodEntry([L EXCEPT ![i] = e][j])
  BY DEF LogOK
<1> QED BY <1>1, <1>3, <1>4 DEF LogOK

\* The headers that a failed write may leave at end_addr.
LEMMA LeftTypes ==
  ASSUME TypeOK
  PROVE  /\ LeftOK(<<>>) /\ LeftOK(<<Blank>>) /\ LeftOK(<<Torn>>)
         /\ op.key \in Keys /\ op.val \in Vals => LeftOK(<<NewEntry>>)
<1>1. Blank \in Entry /\ ~Live(Blank) /\ Torn \in Entry /\ ~Live(Torn)
  BY ConstAssumption DEF Blank, Torn, Entry, Live, Payload
<1>2. ASSUME op.key \in Keys, op.val \in Vals PROVE NewEntry \in Entry /\ ~Live(NewEntry)
  BY <1>2, ConstAssumption DEF TypeOK, NewEntry, Entry, Op, Payload, Live
<1>3. \A e \in Entry : ~Live(e) => LeftOK(<<e>>)
  BY DEF LeftOK
<1>4. LeftOK(<<>>)
  BY DEF LeftOK
<1> QED BY <1>1, <1>2, <1>3, <1>4

\* Blank flash has no entries.
LEMMA EntriesInit == Init => EntriesInv
<1> SUFFICES ASSUME Init PROVE EntriesInv
  OBVIOUS
<1>1. NoOp \in Op
  BY DEF NoOp, Op, NoAddr, Region
<1>2. TypeOK
  <2>1. log \in [Region -> Seq(Entry)]
    BY EmptySeq DEF Init
  <2>2. header \in [Region -> HeaderState] /\ torn \in [Region -> BOOLEAN]
    BY DEF Init, HeaderState
  <2>3. LeftOK(left)
    BY DEF Init, LeftOK
  <2> QED BY <1>1, <2>1, <2>2, <2>3 DEF Init, TypeOK, Region, PC
<1>3. NoHalfWrittenEntry
  BY DEF Init, NoHalfWrittenEntry
<1> QED BY <1>2, <1>3 DEF Init, EntriesInv, SetInProgress, HalfWritten

\* A boot writes headers, and erases only a region it found without one.
LEMMA EntriesBoot ==
  ASSUME EntriesInv, Boot
  PROVE  EntriesInv'
<1>1. TypeOK /\ Alt(Found) \in Region /\ Recovered \in Region
  BY DEF EntriesInv, Alt, Found, Recovered, Region
<1>2. CASE BootMount \/ BootRecover \/ BootNotFound
  <2>1. UNCHANGED <<flash, left, op, status, history>> /\ cur' \in Region
    BY <1>1, <1>2 DEF BootMount, BootRecover, BootNotFound, TypeOK
  <2>2. TypeOK'
    BY <1>1, <1>2, <2>1 DEF TypeOK, BootMount, BootRecover, BootNotFound, flash, history, PC
  <2>3. NoHalfWrittenEntry'
    BY <2>1 DEF EntriesInv, NoHalfWrittenEntry, flash
  <2> QED BY <1>2, <2>2, <2>3
      DEF EntriesInv, SetInProgress, HalfWritten, BootMount, BootRecover, BootNotFound
<1>3. CASE RecreateFormat
  <2>1. TypeOK'
    BY <1>1, <1>3 DEF TypeOK, RecreateFormat, history, HeaderState, PC
  <2>2. NoHalfWrittenEntry'
    BY <1>1, <1>3 DEF EntriesInv, TypeOK, NoHalfWrittenEntry, RecreateFormat
  <2> QED BY <1>3, <2>1, <2>2 DEF EntriesInv, SetInProgress, HalfWritten, RecreateFormat
<1>4. CASE RecreateHeader \/ CreateActive \/ CreateStale \/ BootFault
  <2>1. UNCHANGED <<log, torn, cur, force, left, op, status, spoilt>> /\ mishaps' \in Nat
    BY <1>1, <1>4
       DEF RecreateHeader, CreateActive, CreateStale, BootFault, history, Mishap, TypeOK
  <2>2. header' \in [Region -> HeaderState] /\ pc' \in {"off", "create1", "dead"}
    BY <1>1, <1>4
       DEF RecreateHeader, CreateActive, CreateStale, BootFault, FailedHeader, TypeOK,
           HeaderState, Region
  <2>3. TypeOK'
    BY <1>1, <2>1, <2>2 DEF TypeOK, PC
  <2>4. NoHalfWrittenEntry'
    BY <2>1 DEF EntriesInv, NoHalfWrittenEntry
  <2> QED BY <2>2, <2>3, <2>4 DEF EntriesInv, SetInProgress, HalfWritten
<1> QED BY <1>2, <1>3, <1>4 DEF Boot

\* The arguments of a set.
LEMMA ArgsType ==
  ASSUME TypeOK, NEW k \in Keys, NEW v \in Vals \cup {Missing}
  PROVE  /\ Args(k, v) \in Op
         /\ Args(k, v).key = k /\ Args(k, v).val = v
         /\ \A o \in Op, n \in Nat :
              /\ Writing(o, n) \in Op
              /\ Writing(o, n).what \in {"key", "val"}
              /\ Writing(o, n).key = o.key /\ Writing(o, n).val = o.val
<1> DEFINE L == log[cur]
<1>1. L \in Seq(Entry) /\ cur \in Region
  BY DEF TypeOK
<1>2. FindKey(L, k) \in DOMAIN L \cup {0} /\ DOMAIN L \subseteq Nat \ {0}
  BY <1>1, FindTypes
<1>3. IdOf(k) \in Nat
  <2>1. \A i \in DOMAIN L : L[i] \in Entry
    BY <1>1
  <2> QED BY <1>2, <2>1 DEF IdOf, Entry
<1>4. OldValue(k) \in Nat
  <2>1. FindValue(L, FindKey(L, k)) \in DOMAIN L \cup {0}
    BY <1>1, ScanTypes
  <2> QED BY <1>2, <2>1 DEF OldValue
<1>5. Args(k, v) \in Op /\ Args(k, v).key = k /\ Args(k, v).val = v
  BY <1>1, <1>3, <1>4 DEF Args, NoOp, NoAddr, Op, Region
<1>6. ASSUME NEW o \in Op, NEW n \in Nat
      PROVE  /\ Writing(o, n) \in Op
             /\ Writing(o, n).what \in {"key", "val"}
             /\ Writing(o, n).key = o.key /\ Writing(o, n).val = o.val
  <2>1. CASE o.id = 0
    <3>1. Writing(o, n) = [o EXCEPT !.id = n + 1, !.what = "key"] /\ n + 1 \in Nat
      BY <2>1 DEF Writing
    <3> QED BY <3>1 DEF Op
  <2>2. CASE o.id # 0
    <3>1. Writing(o, n) = [o EXCEPT !.what = "val"]
      BY <2>2 DEF Writing
    <3> QED BY <3>1 DEF Op
  <2> QED BY <2>1, <2>2
<1> QED BY <1>5, <1>6

\* The first steps of a set write nothing and start from what a scan found.
LEMMA EntriesBegin ==
  ASSUME EntriesInv, Begin
  PROVE  EntriesInv'
<1>1. TypeOK /\ LastKeyId(log[cur]) \in Nat
  BY FindTypes DEF EntriesInv, TypeOK
<1>2. UNCHANGED <<flash, cur, left, history>>
  BY DEF Begin, SetDelete, SetWrite, SetCompact, SetFull, ScanToEnd
<1>3. NoHalfWrittenEntry'
  BY <1>2 DEF EntriesInv, NoHalfWrittenEntry, flash
<1>4. ASSUME NEW k \in Keys, SetDelete(k) PROVE EntriesInv'
  <2>1. op' \in Op /\ pc' = "delete" /\ UNCHANGED <<force, status>>
    BY <1>1, <1>4, ArgsType DEF SetDelete
  <2> QED BY <1>1, <1>2, <1>3, <2>1
      DEF EntriesInv, TypeOK, PC, flash, history, SetInProgress, HalfWritten
<1>5. ASSUME NEW k \in Keys, NEW v \in Vals, SetWrite(k, v) PROVE EntriesInv'
  <2>1. /\ op' \in Op /\ pc' = "hdr" /\ UNCHANGED <<force, status>>
        /\ op'.key = k /\ op'.val = v /\ op'.what \in {"key", "val"}
    BY <1>1, <1>5, ArgsType DEF SetWrite
  <2> QED BY <1>1, <1>2, <1>3, <2>1
      DEF EntriesInv, TypeOK, PC, flash, history, SetInProgress, HalfWritten
<1>6. ASSUME NEW k \in Keys, NEW v \in Vals, SetCompact(k, v) PROVE EntriesInv'
  <2>1. Needed(k, v) \in Nat
    BY ConstAssumption DEF Needed, EntrySize
  <2>2. /\ op' \in Op
        /\ op'.key = k /\ op'.val = v
    <3>1. Args(k, v) \in Op /\ Args(k, v).key = k /\ Args(k, v).val = v
      BY <1>1, ArgsType
    <3>2. /\ op' = [Args(k, v) EXCEPT !.site = Plan(k, v), !.need = Needed(k, v)]
          /\ Plan(k, v) \in {"space", "ids", "force"}
      BY <1>6 DEF SetCompact
    <3> QED BY <2>1, <3>1, <3>2 DEF Op
  <2>3. pc' = "format" /\ UNCHANGED status /\ force' \in BOOLEAN
    BY <1>1, <1>6 DEF SetCompact, Forced, TypeOK
  <2> QED BY <1>1, <1>2, <1>3, <2>2, <2>3
      DEF EntriesInv, TypeOK, PC, flash, history, SetInProgress, HalfWritten
<1>7. ASSUME NEW k \in Keys, NEW v \in Vals, SetFull(k, v) PROVE EntriesInv'
  <2>1. NoOp \in Op
    BY DEF NoOp, Op, NoAddr, Region
  <2>2. op' \in Op /\ pc' = "idle" /\ status' = "full" /\ force' \in BOOLEAN
    BY <1>1, <1>7, <2>1 DEF SetFull, Finish, Forced, TypeOK
  <2> QED BY <1>1, <1>2, <1>3, <2>2
      DEF EntriesInv, TypeOK, PC, flash, history, SetInProgress, HalfWritten
<1>8. ASSUME ScanToEnd PROVE EntriesInv'
  BY <1>1, <1>2, <1>3, <1>8
     DEF ScanToEnd, EntriesInv, TypeOK, PC, flash, history, SetInProgress, HalfWritten
<1> QED BY <1>4, <1>5, <1>6, <1>7, <1>8 DEF Begin

\* A failed operation of a set.
LEMMA FaultType ==
  ASSUME TypeOK, NEW site, Fault(site)
  PROVE  /\ pc' = "idle" /\ op' = NoOp /\ status' = "io" /\ mishaps' = mishaps + 1
         /\ UNCHANGED <<cur, force>>
         /\ NoOp \in Op /\ mishaps' \in Nat
<1>1. NoOp \in Op
  BY DEF NoOp, Op, NoAddr, Region
<1> QED BY <1>1 DEF Fault, Mishap, Finish, TypeOK

\* What one turn of the copy loop appends: a complete name and a complete value.
LEMMA CopiedEntries ==
  ASSUME EntriesInv, NextKey # 0, NEW n \in Nat
  PROVE  LET L == log[cur]
             key == KeyEntry(n, L[NextKey].data, TRUE)
             val == ValueEntry(n, L[FindValue(L, NextKey)])
         IN  /\ key \in Entry /\ GoodEntry(key)
             /\ val \in Entry /\ GoodEntry(val)
             /\ NextKey \in Nat
<1> DEFINE L == log[cur]
           i == NextKey
           j == FindValue(L, i)
           key == KeyEntry(n, L[i].data, TRUE)
           val == ValueEntry(n, L[j])
<1>1. cur \in Region /\ L \in Seq(Entry) /\ LogOK(L)
  BY LogsOK DEF EntriesInv, TypeOK
<1>2. i \in LiveKeys(L) /\ i \in DOMAIN L /\ ValuesOf(L, i) # {}
  BY <1>1, NextKeyType
<1>3. j \in LiveVals(L) /\ j \in DOMAIN L
  BY <1>1, <1>2, ScanTypes
<1>4. /\ L[i] \in Entry /\ GoodEntry(L[i]) /\ i \in Nat
      /\ L[j] \in Entry /\ GoodEntry(L[j])
  BY <1>1, <1>2, <1>3 DEF LogOK
<1>5. L[i].data \in Keys
  BY <1>2, <1>4 DEF LiveKeys, GoodEntry
<1>6. key \in Entry /\ GoodEntry(key)
  BY <1>5, ConstAssumption DEF KeyEntry, Entry, GoodEntry, Payload
<1>7. val = [L[j] EXCEPT !.id = n]
  BY DEF ValueEntry
<1>8. val \in Entry /\ GoodEntry(val)
  <2> HIDE DEF val, j, i, L
  <2>1. val \in Entry
    BY <1>4, <1>7 DEF Entry
  <2>2. /\ val.alive = L[j].alive /\ val.valid = L[j].valid
        /\ val.data = L[j].data /\ val.value = L[j].value
    BY <1>4, <1>7 DEF Entry
  <2> QED BY <1>4, <2>1, <2>2 DEF GoodEntry, Live
<1> QED BY <1>4, <1>6, <1>8

\* A compaction copies complete entries to the other region.
LEMMA EntriesCompact ==
  ASSUME EntriesInv, Compact
  PROVE  EntriesInv'
<1>1. /\ TypeOK /\ Alt(cur) \in Region /\ Alt(cur) # cur
      /\ \A r \in Region : LogOK(log[r])
  BY LogsOK DEF EntriesInv, TypeOK, Alt, Region
<1>2. CASE CompactFormat
  <2>1. TypeOK'
    BY <1>1, <1>2 DEF TypeOK, CompactFormat, history, HeaderState, PC
  <2>2. NoHalfWrittenEntry'
    BY <1>1, <1>2 DEF EntriesInv, TypeOK, NoHalfWrittenEntry, CompactFormat
  <2> QED BY <1>2, <2>1, <2>2 DEF EntriesInv, SetInProgress, HalfWritten, CompactFormat
<1>3. CASE CompactCopy
  <2> DEFINE L == log[cur]
             i == NextKey
             n == op.n + 1
             key == KeyEntry(n, L[i].data, TRUE)
             val == ValueEntry(n, L[FindValue(L, i)])
             own == op.id # 0 /\ L[i].id = op.id
             A == log[Alt(cur)]
             B == IF own THEN Append(A, key) ELSE Append(Append(A, key), val)
  <2>1. /\ pc = "copy" /\ i # 0
        /\ log' = [log EXCEPT ![Alt(cur)] = B]
        /\ op' = [op EXCEPT !.iter = i, !.n = n, !.id = IF own THEN n ELSE @]
        /\ UNCHANGED <<header, torn, cur, force, left, pc, status, history>>
    BY <1>3 DEF CompactCopy
  <2>2. op \in Op /\ n \in Nat /\ op.n \in Nat
    BY <1>1 DEF TypeOK, Op
  <2>3. /\ key \in Entry /\ GoodEntry(key)
        /\ val \in Entry /\ GoodEntry(val)
        /\ i \in Nat
    BY <2>1, <2>2, CopiedEntries
  <2>4. LogOK(B)
    <3> HIDE DEF key, val, own, A
    <3>1. LogOK(A)
      BY <1>1 DEF A
    <3>2. LogOK(Append(A, key)) /\ LogOK(Append(Append(A, key), val))
      BY <2>3, <3>1, AppendOK
    <3> QED BY <3>2
  <2>5. \A r \in Region : LogOK(log'[r])
    <3> HIDE DEF B
    <3> QED BY <1>1, <2>1, <2>4 DEF TypeOK
  <2>6. log' \in [Region -> Seq(Entry)]
    <3> HIDE DEF B
    <3> QED BY <1>1, <2>1, <2>4 DEF TypeOK, LogOK
  <2>7. op' \in Op /\ op'.key = op.key /\ op'.val = op.val
    <3> HIDE DEF i, n, own
    <3> QED BY <2>1, <2>2, <2>3 DEF Op
  <2>8. TypeOK'
    BY <1>1, <2>1, <2>6, <2>7 DEF TypeOK, history
  <2>9. NoHalfWrittenEntry'
    BY <2>5 DEF NoHalfWrittenEntry, LogOK, GoodEntry
  <2> QED BY <2>1, <2>7, <2>8, <2>9 DEF EntriesInv, SetInProgress, HalfWritten
<1>4. CASE CompactCopied \/ CompactNewHeader
  <2>1. UNCHANGED <<log, torn, cur, force, left, op, status, history>>
    BY <1>4 DEF CompactCopied, CompactNewHeader, flash
  <2>2. /\ header' \in [Region -> HeaderState] /\ pc' \in {"newHdr", "oldHdr"}
        /\ pc \in {"copy", "newHdr"}
    BY <1>1, <1>4 DEF CompactCopied, CompactNewHeader, flash, TypeOK, HeaderState
  <2>3. TypeOK'
    BY <1>1, <2>1, <2>2 DEF TypeOK, PC, history
  <2>4. NoHalfWrittenEntry'
    BY <2>1 DEF EntriesInv, NoHalfWrittenEntry
  <2> QED BY <2>1, <2>2, <2>3, <2>4 DEF EntriesInv, SetInProgress, HalfWritten
<1>5. CASE CompactOldHeader
  <2>1. /\ header' \in [Region -> HeaderState] /\ cur' \in Region /\ force' = FALSE
        /\ left' = <<>> /\ LeftOK(left')
        /\ UNCHANGED <<log, torn, history>> /\ pc = "oldHdr"
    BY <1>1, <1>5, LeftTypes DEF CompactOldHeader, TypeOK, HeaderState
  <2>2. NoHalfWrittenEntry'
    BY <2>1 DEF EntriesInv, NoHalfWrittenEntry
  <2>3. CASE Finish("full")
    <3>1. NoOp \in Op
      BY DEF NoOp, Op, NoAddr, Region
    <3> QED BY <1>1, <2>1, <2>2, <2>3, <3>1
        DEF EntriesInv, TypeOK, PC, history, SetInProgress, HalfWritten, Finish
  <2>4. CASE ~Finish("full")
    <3> DEFINE o == [op EXCEPT !.old = IF op.site = "force" THEN @ ELSE NoAddr]
    <3>1. op' = Writing(o, op.n) /\ pc' = "hdr" /\ UNCHANGED status
      BY <1>5, <2>4 DEF CompactOldHeader
    <3>2. op \in Op /\ op.n \in Nat /\ NoAddr \in [r : Region, i : Nat]
      BY <1>1 DEF TypeOK, Op, NoAddr, Region
    <3>3. o \in Op /\ o.key = op.key /\ o.val = op.val
      BY <3>2 DEF Op
    <3>4. /\ op' \in Op /\ op'.what \in {"key", "val"}
          /\ op'.key = op.key /\ op'.val = op.val
      <4> HIDE DEF o
      <4>1. op.key \in Keys /\ op.val \in Vals
        BY <2>1 DEF EntriesInv, SetInProgress
      <4> QED BY <1>1, <3>1, <3>2, <3>3, <4>1, ArgsType
    <3> QED BY <1>1, <2>1, <2>2, <3>1, <3>4
        DEF EntriesInv, TypeOK, PC, history, SetInProgress, HalfWritten
  <2> QED BY <2>3, <2>4
<1>6. CASE CompactFault
  <2>1. /\ pc' = "idle" /\ op' \in Op /\ status' = "io" /\ mishaps' \in Nat
        /\ UNCHANGED <<cur, force, left, log, torn>>
        /\ header' \in [Region -> HeaderState] /\ spoilt' \in SUBSET {"id", "header"}
    <3>1. PICK site \in FaultSites : Fault(site)
      BY <1>6 DEF CompactFault, FaultSites
    <3>2. UNCHANGED <<log, torn, left>> /\ spoilt' \in SUBSET {"id", "header"}
      BY <1>1, <1>6 DEF CompactFault, TypeOK
    <3>3. header' \in [Region -> HeaderState]
      BY <1>1, <1>6 DEF CompactFault, FailedHeader, TypeOK, HeaderState
    <3> QED BY <1>1, <3>1, <3>2, <3>3, FaultType
  <2>2. NoHalfWrittenEntry'
    BY <2>1 DEF EntriesInv, NoHalfWrittenEntry
  <2> QED BY <1>1, <2>1, <2>2 DEF EntriesInv, TypeOK, PC, SetInProgress, HalfWritten
<1> QED BY <1>2, <1>3, <1>4, <1>5, <1>6 DEF Compact

\* A log in which one region is replaced by another good log is good.
LEMMA OneLogOK ==
  ASSUME TypeOK, \A r \in Region : LogOK(log[r]),
         NEW q \in Region, NEW L, LogOK(L), log' = [log EXCEPT ![q] = L]
  PROVE  log' \in [Region -> Seq(Entry)] /\ NoHalfWrittenEntry' /\ log'[q] = L
<1>1. \A r \in Region : LogOK(log'[r])
  BY DEF TypeOK
<1>2. log' \in [Region -> Seq(Entry)]
  BY DEF TypeOK, LogOK
<1>3. NoHalfWrittenEntry'
  BY <1>1 DEF NoHalfWrittenEntry, LogOK, GoodEntry
<1> QED BY <1>2, <1>3 DEF TypeOK

\* Clearing a flag bit or filling in the payload of a good entry.
LEMMA EditOK ==
  ASSUME NEW L, LogOK(L), NEW i, i \in DOMAIN L
  PROVE  LET clear == [L EXCEPT ![i].alive = FALSE]
         IN  LogOK(clear)
<1>1. L[i] \in Entry /\ GoodEntry(L[i])
  BY DEF LogOK
<1>2. [L[i] EXCEPT !.alive = FALSE] \in Entry /\ GoodEntry([L[i] EXCEPT !.alive = FALSE])
  BY <1>1 DEF Entry, GoodEntry, Live
<1> QED BY <1>2, ReplaceOK

\* An entry becomes valid only after its payload, and it is the last of its log.
LEMMA EntriesWrite ==
  ASSUME EntriesInv, Write
  PROVE  EntriesInv'
<1> DEFINE L == log[cur]
           datum == IF op.what = "key" THEN op.key ELSE op.val
<1>1. /\ TypeOK /\ cur \in Region /\ op \in Op /\ pc \in PC
      /\ \A r \in Region : LogOK(log[r])
      /\ LogOK(L) /\ SetInProgress /\ HalfWritten
  BY LogsOK DEF EntriesInv, TypeOK
<1>2. CASE WriteHeader
  <2>1. /\ pc = "hdr" /\ pc' = "payload"
        /\ log' = [log EXCEPT ![cur] = Append(L, NewEntry)]
        /\ UNCHANGED <<header, torn, cur, force, op, status, mishaps>>
        /\ spoilt' \in SUBSET {"id", "header"} /\ LeftOK(left')
    BY <1>1, <1>2, LeftTypes DEF WriteHeader, TypeOK
  <2>2. op.key \in Keys /\ op.val \in Vals /\ op.what \in {"key", "val"}
    BY <1>1, <2>1 DEF SetInProgress
  <2>3. NewEntry \in Entry /\ ~NewEntry.valid /\ NewEntry.value = (op.what = "val")
    BY <1>1, <2>2, ConstAssumption DEF NewEntry, Entry, Op, Payload
  <2>4. GoodEntry(NewEntry)
    BY <2>3 DEF GoodEntry, Live
  <2>5. /\ LogOK(Append(L, NewEntry))
        /\ Len(Append(L, NewEntry)) \in DOMAIN Append(L, NewEntry)
        /\ Append(L, NewEntry)[Len(Append(L, NewEntry))] = NewEntry
    BY <1>1, <2>3, <2>4, AppendOK
  <2>6. /\ log' \in [Region -> Seq(Entry)] /\ NoHalfWrittenEntry'
        /\ log'[cur] = Append(L, NewEntry)
    BY <1>1, <2>1, <2>5, OneLogOK
  <2>7. TypeOK'
    BY <1>1, <2>1, <2>6 DEF TypeOK, PC
  <2>8. SetInProgress' /\ HalfWritten'
    BY <2>1, <2>2, <2>3, <2>5, <2>6 DEF SetInProgress, HalfWritten, Tip
  <2> QED BY <2>6, <2>7, <2>8 DEF EntriesInv
<1>3. CASE WritePayload
  <2> DEFINE e == [L[Tip] EXCEPT !.data = datum]
  <2>1. /\ pc = "payload" /\ pc' = "valid"
        /\ log' = [log EXCEPT ![cur] = [L EXCEPT ![Tip] = e]]
        /\ UNCHANGED <<header, torn, cur, force, left, op, status, history>>
    BY <1>1, <1>3 DEF WritePayload, TypeOK
  <2>2. /\ op.key \in Keys /\ op.val \in Vals /\ op.what \in {"key", "val"}
        /\ Tip \in DOMAIN L /\ ~L[Tip].valid /\ L[Tip].value = (op.what = "val")
    BY <1>1, <2>1 DEF SetInProgress, HalfWritten
  <2>3. L[Tip] \in Entry
    BY <1>1, <2>2 DEF LogOK
  <2>4. /\ e \in Entry /\ ~e.valid /\ e.value = (op.what = "val") /\ e.data = datum
    BY <2>2, <2>3 DEF Entry, Payload
  <2>5. GoodEntry(e)
    BY <2>4 DEF GoodEntry, Live
  <2> HIDE DEF e
  <2>6. /\ LogOK([L EXCEPT ![Tip] = e]) /\ Len([L EXCEPT ![Tip] = e]) = Len(L)
        /\ DOMAIN [L EXCEPT ![Tip] = e] = DOMAIN L /\ [L EXCEPT ![Tip] = e][Tip] = e
    BY <1>1, <2>2, <2>4, <2>5, ReplaceOK
  <2>7. /\ log' \in [Region -> Seq(Entry)] /\ NoHalfWrittenEntry'
        /\ log'[cur] = [L EXCEPT ![Tip] = e]
    BY <1>1, <2>1, <2>6, OneLogOK
  <2>8. TypeOK'
    BY <1>1, <2>1, <2>7 DEF TypeOK, PC, history
  <2>9. Tip' = Tip
    BY <2>1, <2>6, <2>7 DEF Tip
  <2>10. SetInProgress' /\ HalfWritten'
    BY <2>1, <2>2, <2>4, <2>6, <2>7, <2>9 DEF SetInProgress, HalfWritten
  <2> QED BY <2>7, <2>8, <2>10 DEF EntriesInv
<1>4. /\ pc = "valid" => /\ Tip \in DOMAIN L
                         /\ LogOK([L EXCEPT ![Tip].valid = TRUE])
  <2> SUFFICES ASSUME pc = "valid" PROVE Tip \in DOMAIN L /\ LogOK([L EXCEPT ![Tip].valid = TRUE])
    OBVIOUS
  <2> DEFINE e == [L[Tip] EXCEPT !.valid = TRUE]
  <2>1. /\ op.key \in Keys /\ op.val \in Vals /\ op.what \in {"key", "val"}
        /\ Tip \in DOMAIN L /\ L[Tip].value = (op.what = "val") /\ L[Tip].data = datum
    BY <1>1 DEF SetInProgress, HalfWritten
  <2>2. L[Tip] \in Entry
    BY <1>1, <2>1 DEF LogOK
  <2>3. e \in Entry /\ e.value = (op.what = "val") /\ e.data = datum
    BY <2>1, <2>2 DEF Entry
  <2>4. GoodEntry(e)
    <3> HIDE DEF e
    <3> QED BY <2>1, <2>3 DEF GoodEntry
  <2> QED BY <1>1, <2>1, <2>3, <2>4, ReplaceOK
<1>5. CASE SetValid
  <2>1. /\ pc = "valid"
        /\ log' = [log EXCEPT ![cur] = [L EXCEPT ![Tip].valid = TRUE]]
        /\ UNCHANGED <<header, torn, cur, force, left, history>>
    BY <1>1, <1>5 DEF SetValid, TypeOK
  <2>2. log' \in [Region -> Seq(Entry)] /\ NoHalfWrittenEntry'
    BY <1>1, <1>4, <2>1, OneLogOK
  <2>3. op.key \in Keys /\ op.val \in Vals
    BY <1>1, <2>1 DEF SetInProgress
  <2>4. CASE op.what = "key"
    <3>1. op' = [op EXCEPT !.what = "val"] /\ pc' = "hdr" /\ UNCHANGED status
      BY <1>5, <2>4 DEF SetValid
    <3>2. /\ op' \in Op /\ op'.what = "val" /\ op'.key = op.key /\ op'.val = op.val
      BY <1>1, <3>1 DEF Op
    <3> QED BY <1>1, <2>1, <2>2, <2>3, <3>1, <3>2
        DEF EntriesInv, TypeOK, PC, history, SetInProgress, HalfWritten
  <2>5. CASE op.what = "val" /\ op.old # NoAddr
    <3>1. pc' = "delete" /\ UNCHANGED <<op, status>>
      BY <1>5, <2>5 DEF SetValid
    <3> QED BY <1>1, <2>1, <2>2, <3>1
        DEF EntriesInv, TypeOK, PC, history, SetInProgress, HalfWritten
  <2>6. CASE op.what # "key" /\ ~(op.what = "val" /\ op.old # NoAddr)
    <3>1. Finish("ok")
      BY <1>5, <2>6 DEF SetValid
    <3>2. NoOp \in Op
      BY DEF NoOp, Op, NoAddr, Region
    <3> QED BY <1>1, <2>1, <2>2, <3>1, <3>2
        DEF EntriesInv, TypeOK, PC, history, SetInProgress, HalfWritten, Finish
  <2> QED BY <2>4, <2>5, <2>6
<1>6. LogOK(Append(L, Blank))
  <2>1. Blank \in Entry /\ GoodEntry(Blank)
    BY DEF Blank, Entry, GoodEntry, Live, Payload
  <2> QED BY <1>1, <2>1, AppendOK
<1>7. log' = log => log' \in [Region -> Seq(Entry)] /\ NoHalfWrittenEntry'
  BY <1>1 DEF EntriesInv, TypeOK, NoHalfWrittenEntry
<1>8. CASE WriteFault
  <2>1. \E site \in FaultSites : Fault(site)
    BY <1>8 DEF WriteFault, FaultSites
  <2>2. /\ pc' = "idle" /\ op' \in Op /\ status' = "io" /\ mishaps' \in Nat
        /\ UNCHANGED <<cur, force>>
    BY <1>1, <2>1, FaultType
  <2>3. UNCHANGED <<header, torn, spoilt>> /\ LeftOK(left')
    <3>1. UNCHANGED <<header, torn, spoilt>> /\ LeftOK(left)
      BY <1>1, <1>8 DEF WriteFault, TypeOK
    <3>2. pc = "hdr" => LeftOK(<<NewEntry>>)
      BY <1>1, LeftTypes DEF SetInProgress
    <3>3. \/ left' = left
          \/ pc = "hdr" /\ left' \in {<<>>, <<NewEntry>>, <<Torn>>, <<Blank>>}
      BY <1>8 DEF WriteFault, ZeroHeader
    <3> QED BY <1>1, <3>1, <3>2, <3>3, LeftTypes
  <2>4. \/ log' = log
        \/ log' = [log EXCEPT ![cur] = Append(L, Blank)]
        \/ pc = "valid" /\ log' = [log EXCEPT ![cur] = [L EXCEPT ![Tip].valid = TRUE]]
    BY <1>1, <1>8 DEF WriteFault, ZeroHeader, TypeOK
  <2>5. log' \in [Region -> Seq(Entry)] /\ NoHalfWrittenEntry'
    BY <1>1, <1>4, <1>6, <1>7, <2>4, OneLogOK
  <2> QED BY <1>1, <2>2, <2>3, <2>5 DEF EntriesInv, TypeOK, PC, SetInProgress, HalfWritten
<1>12. CASE WriteOverLeft
  <2>1. NoOp \in Op
    BY DEF NoOp, Op, NoAddr, Region
  <2>2. /\ pc' = "idle" /\ op' \in Op /\ status' = "io" /\ LeftOK(left')
        /\ UNCHANGED <<header, torn, cur, force, history>>
        /\ log' = [log EXCEPT ![cur] = Append(L, Blank)]
    BY <1>1, <1>12, <2>1, LeftTypes DEF WriteOverLeft, ZeroHeader, Finish, TypeOK
  <2>3. log' \in [Region -> Seq(Entry)] /\ NoHalfWrittenEntry'
    BY <1>1, <1>6, <2>2, OneLogOK
  <2> QED BY <1>1, <2>2, <2>3
      DEF EntriesInv, TypeOK, PC, history, SetInProgress, HalfWritten
<1>9. Deleted \in [Region -> Seq(Entry)] /\ (log' = Deleted => NoHalfWrittenEntry')
  <2> DEFINE r == op.old.r
             i == op.old.i
  <2>1. r \in Region
    BY <1>1 DEF Op
  <2>2. Deleted = [log EXCEPT ![r] = [log[r] EXCEPT ![i].alive = FALSE]]
    BY <1>1, <2>1 DEF Deleted, TypeOK
  <2>3. LogOK([log[r] EXCEPT ![i].alive = FALSE])
    <3>1. CASE i \in DOMAIN log[r]
      BY <1>1, <2>1, <3>1, EditOK
    <3>2. CASE i \notin DOMAIN log[r]
      <4>1. LogOK(log[r])
        BY <1>1, <2>1
      <4> QED BY <3>2, <4>1, ReplaceOK
    <3> QED BY <3>1, <3>2
  <2>4. Deleted \in [Region -> Seq(Entry)]
    BY <1>1, <2>1, <2>2, <2>3 DEF TypeOK, LogOK
  <2>5. log' = Deleted => NoHalfWrittenEntry'
    BY <1>1, <2>1, <2>2, <2>3, OneLogOK
  <2> QED BY <2>4, <2>5
<1>10. CASE DeleteEntry
  <2>1. NoOp \in Op
    BY DEF NoOp, Op, NoAddr, Region
  <2>2. /\ log' = Deleted /\ pc' = "idle" /\ op' \in Op /\ status' = "ok"
        /\ UNCHANGED <<header, torn, cur, force, left, history>>
    BY <1>10, <2>1 DEF DeleteEntry, Finish
  <2> QED BY <1>1, <1>9, <2>2
      DEF EntriesInv, TypeOK, PC, history, SetInProgress, HalfWritten
<1>11. CASE DeleteFault
  <2>1. /\ pc' = "idle" /\ op' \in Op /\ status' = "io" /\ mishaps' \in Nat
        /\ UNCHANGED <<cur, force>>
    BY <1>1, <1>11, FaultType DEF DeleteFault
  <2>2. log' \in {log, Deleted} /\ UNCHANGED <<header, torn, left, spoilt>>
    BY <1>11 DEF DeleteFault
  <2>3. log' \in [Region -> Seq(Entry)] /\ NoHalfWrittenEntry'
    BY <1>7, <1>9, <2>2
  <2> QED BY <1>1, <2>1, <2>2, <2>3
      DEF EntriesInv, TypeOK, PC, SetInProgress, HalfWritten
<1> QED BY <1>2, <1>3, <1>5, <1>8, <1>10, <1>11, <1>12 DEF Write

\* What a power cut makes part of the log in use: nothing, or the header at end_addr.
LEMMA CrashLog ==
  ASSUME TypeOK, Crash
  PROVE  \/ log' = log
         \/ \E e \in Entry : /\ ~Live(e) /\ left = <<e>> /\ e # Torn
                            /\ log' = [log EXCEPT ![cur] = Append(@, e)]
<1>1. CASE left = <<>> \/ MeetsTorn
  BY <1>1 DEF Crash
<1>2. CASE ~(left = <<>> \/ MeetsTorn)
  <2>1. left \in Seq(Entry) /\ Len(left) = 1 /\ ~Live(left[1])
    <3>1. left \in Seq(Entry) /\ Len(left) <= 1 /\ \A i \in DOMAIN left : ~Live(left[i])
      BY DEF TypeOK, LeftOK
    <3>2. left # <<>>
      BY <1>2
    <3>3. Len(left) \in Nat \ {0}
      BY <3>1, <3>2, EmptySeq
    <3>4. Len(left) = 1
      <4>1. \A n \in Nat \ {0} : n <= 1 => n = 1
        OBVIOUS
      <4>2. Len(left) <= 1
        BY <3>1
      <4> QED BY <3>3, <4>1, <4>2, Zenon
    <3>5. 1 \in DOMAIN left
      <4>1. left \in Seq(Entry)
        BY <3>1
      <4> QED BY <3>4, <4>1
    <3> QED BY <3>1, <3>4, <3>5
  <2>2. left[1] \in Entry /\ left = <<left[1]>> /\ left[1] # Torn
    BY <1>2, <2>1 DEF MeetsTorn
  <2>3. log[cur] \in Seq(Entry)
    BY DEF TypeOK
  <2>4. ASSUME NEW L \in Seq(Entry), NEW e \in Entry
        PROVE  L \o <<e>> = Append(L, e)
    OBVIOUS
  <2>5. log' = [log EXCEPT ![cur] = @ \o left]
    BY <1>2 DEF Crash
  <2>6. log[cur] \o left = Append(log[cur], left[1])
    BY <2>2, <2>3, <2>4
  <2> QED BY <2>1, <2>2, <2>5, <2>6
<1> QED BY <1>1, <1>2

\* A power cut may leave the last header torn, never an entry that readers accept.
LEMMA EntriesCrash ==
  ASSUME EntriesInv, Crash
  PROVE  EntriesInv'
<1>1. NoOp \in Op
  BY DEF NoOp, Op, NoAddr, Region
<1>2. /\ cur' = 0 /\ force' = FALSE /\ op' = NoOp /\ pc' = "off" /\ left' = <<>>
      /\ UNCHANGED <<header, status, spoilt>>
      /\ mishaps' = mishaps + 1
  BY DEF Crash, Mishap
<1>3. torn' \in [Region -> BOOLEAN]
  BY DEF Crash, MeetsTorn, EntriesInv, TypeOK
<1>6. log' = log \/ \E e \in Entry : ~Live(e) /\ log' = [log EXCEPT ![cur] = Append(@, e)]
  BY CrashLog DEF EntriesInv
<1>7. log' \in [Region -> Seq(Entry)] /\ NoHalfWrittenEntry'
  <2>1. TypeOK /\ cur \in Region /\ \A r \in Region : LogOK(log[r])
    BY LogsOK DEF EntriesInv, TypeOK
  <2>2. ASSUME NEW e \in Entry, ~Live(e), log' = [log EXCEPT ![cur] = Append(@, e)]
        PROVE  log' \in [Region -> Seq(Entry)] /\ NoHalfWrittenEntry'
    <3>1. LogOK(Append(log[cur], e))
      BY <2>1, <2>2, AppendOK DEF GoodEntry
    <3> QED BY <2>1, <2>2, <3>1, OneLogOK DEF TypeOK
  <2>3. CASE log' = log
    BY <2>1, <2>3 DEF EntriesInv, TypeOK, NoHalfWrittenEntry
  <2> QED BY <1>6, <2>2, <2>3
<1>4. TypeOK'
  <2>1. TypeOK /\ mishaps' \in Nat /\ LeftOK(left')
    BY <1>2, LeftTypes DEF EntriesInv, TypeOK
  <2>2. cur' \in Region /\ pc' \in PC /\ force' \in BOOLEAN /\ op' \in Op
    BY <1>1, <1>2 DEF Region, PC
  <2> QED BY <1>2, <1>3, <1>7, <2>1, <2>2 DEF TypeOK
<1> QED BY <1>2, <1>4, <1>7 DEF EntriesInv, SetInProgress, HalfWritten

\* No step writes an entry that readers accept before it is complete.
LEMMA EntriesStep == EntriesInv /\ [Next]_vars => EntriesInv'
<1> SUFFICES ASSUME EntriesInv, [Next]_vars PROVE EntriesInv'
  OBVIOUS
<1>1. CASE UNCHANGED vars
  BY <1>1 DEF vars, EntriesInv, TypeOK, NoHalfWrittenEntry, SetInProgress, HalfWritten, Tip
<1> QED BY <1>1, EntriesBoot, EntriesBegin, EntriesCompact, EntriesWrite, EntriesCrash
    DEF Next

\* In every reachable state the variables have their types, and an entry that
\* readers take into account was written completely, whatever flash operation of
\* sysparam_set_data, _compact_params or sysparam_init fails or is cut short.
THEOREM EntriesComplete == Spec => [](TypeOK /\ NoHalfWrittenEntry)
<1>1. EntriesInv => TypeOK /\ NoHalfWrittenEntry
  BY DEF EntriesInv
<1> QED BY <1>1, EntriesInit, EntriesStep, PTL DEF Spec

-----------------------------------------------------------------------------
(* The region headers.  Region 0 is found first, so a store in region 1 is *)
(* recovered only while region 0 does not claim to be active: outside the  *)
(* two header writes that end a compaction the current region is active    *)
(* and, if it is region 1, region 0 is not; between them both are active.  *)

Running == (Setting \ {"oldHdr"}) \cup {"idle"}

HeadersInv ==
  /\ pc \in Running => header[cur] = "active" /\ (cur = 1 => header[0] # "active")
  /\ pc = "oldHdr" => \A r \in Region : header[r] = "active"
  /\ pc = "create0" => \A r \in Region : log[r] = <<>> /\ ~Magic(r)
  /\ pc = "create1" => header[0] = "active"
  /\ pc \in {"recreate0", "recreate1"} =>
       header[Found] = "active" /\ ~Magic(Alt(Found))
  /\ left # <<>> \/ (\E r \in Region : Magic(r) \/ log[r] # <<>>) =>
       \E r \in Region : header[r] = "active"

\* A failed header write leaves the header of the other region alone.
LEMMA OtherHeader ==
  ASSUME TypeOK, NEW r \in Region, NEW s \in Region, s # r, NEW h, FailedHeader(r, h)
  PROVE  header'[s] = header[s]
BY DEF TypeOK, FailedHeader

\* A boot mounts the region that the last compaction made active.
LEMMA HeadersBoot ==
  ASSUME TypeOK, HeadersInv, Boot
  PROVE  HeadersInv'
<1> USE DEF Region
<1>1. CASE BootMount
  <2>1. header[Recovered] = "active" /\ (Recovered = 1 => header[0] # "active")
    BY <1>1 DEF BootMount, HeadersInv, Recovered, Found, Alt, Magic
  <2>2. UNCHANGED <<header, log, left>> /\ cur' = Recovered /\ pc' = "idle"
    BY <1>1 DEF BootMount, flash
  <2> QED BY <2>1, <2>2 DEF HeadersInv, Magic
<1>2. CASE BootRecover
  <2>1. /\ UNCHANGED <<header, log, left>>
        /\ \/ pc' = "dead"
           \/ pc' = "recreate0" /\ header[Found] = "active" /\ ~Magic(Alt(Found))
    BY <1>2 DEF BootRecover, flash
  <2>2. Found' = Found /\ \A r : Magic(r)' = Magic(r)
    BY <2>1 DEF Found, Magic
  <2> QED BY <2>1, <2>2 DEF HeadersInv, Running, Setting, Alt, Found
<1>3. CASE BootNotFound
  <2>1. /\ UNCHANGED <<header, log, left>> /\ \A r \in Region : ~Magic(r)
        /\ \/ pc' = "dead"
           \/ pc' = "create0" /\ AreaEmpty
    BY <1>3 DEF BootNotFound, flash
  <2>2. \A r : Magic(r)' = Magic(r)
    BY <2>1 DEF Magic
  <2> QED BY <2>1, <2>2 DEF HeadersInv, AreaEmpty, Running, Setting
<1>4. CASE RecreateFormat
  <2>1. /\ header' = [header EXCEPT ![Alt(Found)] = "blank"]
        /\ header[Found] = "active" /\ Found \in Region /\ Alt(Found) \in Region
        /\ Found # Alt(Found) /\ pc' = "recreate1"
    BY <1>4 DEF RecreateFormat, HeadersInv, Alt, Found
  <2>2. Found' = Found /\ ~Magic(Alt(Found))' /\ header'[Found] = "active"
    BY <2>1 DEF TypeOK, Found, Alt, Magic
  <2> QED BY <2>1, <2>2 DEF HeadersInv, Alt, Running, Setting
<1>5. CASE RecreateHeader
  <2>1. /\ header' = [header EXCEPT ![Alt(Found)] = "stale"]
        /\ header[Found] = "active" /\ Found \in Region
        /\ Found # Alt(Found) /\ pc' = "off"
    BY <1>5 DEF RecreateHeader, HeadersInv, Alt, Found
  <2>2. header'[Found] = "active"
    BY <2>1 DEF TypeOK
  <2> QED BY <2>1, <2>2 DEF HeadersInv, Running, Setting
<1>6. CASE CreateActive \/ CreateStale
  <2>1. header'[0] = "active" /\ pc' \in {"create1", "off"}
    BY <1>6 DEF CreateActive, CreateStale, HeadersInv, TypeOK
  <2> QED BY <2>1 DEF HeadersInv, Running, Setting
<1>7. CASE BootFault
  <2>1. pc' = "dead" /\ UNCHANGED log
    BY <1>7 DEF BootFault
  <2>2. CASE pc \in {"recreate0", "recreate1"}
    <3>1. /\ header[Found] = "active" /\ Found \in Region
          /\ Alt(Found) \in Region /\ Alt(Found) # Found
      BY <2>2 DEF HeadersInv, Alt, Found
    <3>2. FailedHeader(Alt(Found), "blank") \/ FailedHeader(Alt(Found), "stale")
      BY <1>7, <2>2 DEF BootFault
    <3>3. header'[Found] = "active"
      BY <3>1, <3>2, OtherHeader
    <3> QED BY <2>1, <3>1, <3>3 DEF HeadersInv, Running, Setting
  <2>4. CASE pc = "create0"
    <3>1. \A r \in Region : ~Magic(r) /\ log'[r] = <<>> /\ left' = <<>>
      BY <1>7, <2>1, <2>4 DEF BootFault, HeadersInv, Magic
    <3>2. \E h0 \in {header[0], "zero", "active"} : header' = [header EXCEPT ![0] = h0]
      BY <1>7, <2>4 DEF BootFault, FailedHeader
    <3>3. header'[0] = "active" \/ \A r \in Region : ~Magic(r)'
      BY <3>1, <3>2 DEF TypeOK, Magic
    <3> QED BY <2>1, <3>1, <3>3 DEF HeadersInv, Running, Setting
  <2>5. CASE pc = "create1"
    <3>1. FailedHeader(1, "stale")
      BY <1>7, <2>5 DEF BootFault
    <3>2. header'[0] = "active"
      BY <2>5, <3>1, OtherHeader DEF HeadersInv
    <3> QED BY <2>1, <3>2 DEF HeadersInv, Running, Setting
  <2> QED BY <1>7, <2>2, <2>4, <2>5 DEF BootFault
<1> QED BY <1>1, <1>2, <1>3, <1>4, <1>5, <1>6, <1>7 DEF Boot

\* A step of a set that leaves the headers alone keeps the store where it is.
LEMMA HeadersKept ==
  ASSUME TypeOK, HeadersInv, pc \in Running, UNCHANGED <<header, cur>>,
         pc' \in Running \cup {"off", "dead"}
  PROVE  HeadersInv'
<1>1. header[cur] = "active" /\ cur \in Region /\ (cur = 1 => header[0] # "active")
  BY DEF HeadersInv, TypeOK
<1> QED BY <1>1 DEF HeadersInv, Running, Setting

\* Between the two header writes of a compaction both regions say that they are active;
\* only when the second of them fails may a boot find another region than the one in use.
LEMMA HeadersCompact ==
  ASSUME "header" \notin spoilt', TypeOK, HeadersInv, Compact
  PROVE  HeadersInv'
<1>1. /\ cur \in Region /\ Alt(cur) \in Region /\ Alt(cur) # cur
      /\ Region = {0, 1} /\ Alt(Alt(cur)) = cur
  BY DEF TypeOK, Alt, Region
<1>2. CASE CompactFormat
  <2>1. header' = [header EXCEPT ![Alt(cur)] = "blank"] /\ pc' = "copy" /\ cur' = cur
    BY <1>2 DEF CompactFormat
  <2>2. header[cur] = "active"
    BY <1>2 DEF CompactFormat, HeadersInv, Running, Setting
  <2>3. header'[cur] = "active" /\ header'[Alt(cur)] = "blank"
    BY <1>1, <2>1, <2>2 DEF TypeOK
  <2> QED BY <1>1, <2>1, <2>3 DEF HeadersInv, Running, Setting, Alt
<1>3. CASE CompactCopy \/ CompactCopied
  <2>1. UNCHANGED <<header, cur>> /\ pc \in Running /\ pc' \in Running
    BY <1>3 DEF CompactCopy, CompactCopied, flash, Running, Setting
  <2> QED BY <2>1, HeadersKept
<1>4. CASE CompactNewHeader
  <2>1. header' = [header EXCEPT ![Alt(cur)] = "active"] /\ pc' = "oldHdr"
    BY <1>4 DEF CompactNewHeader
  <2>2. header[cur] = "active"
    BY <1>4 DEF CompactNewHeader, HeadersInv, Running, Setting
  <2>3. \A r \in Region : header'[r] = "active"
    BY <1>1, <2>1, <2>2 DEF TypeOK
  <2> QED BY <2>1, <2>3, <1>1 DEF HeadersInv, Running, Setting
<1>5. CASE CompactOldHeader
  <2>1. header' = [header EXCEPT ![cur] = "stale"] /\ cur' = Alt(cur) /\ pc' \in Running
    BY <1>5 DEF CompactOldHeader, Finish, Running, Setting
  <2>2. header'[Alt(cur)] = "active" /\ header'[cur] = "stale"
    BY <1>1, <1>5, <2>1 DEF CompactOldHeader, HeadersInv, TypeOK
  <2> QED BY <1>1, <2>1, <2>2 DEF HeadersInv, Running, Setting
<1>6. CASE CompactFault
  <2>1. pc \in {"format", "copy", "newHdr"} /\ pc \in Running /\ pc' = "idle" /\ cur' = cur
    BY <1>6 DEF CompactFault, Fault, Mishap, Finish, Running, Setting
  <2>4. \/ header' = header
        \/ \E h0 \in {header[Alt(cur)], "zero", "blank", "active"} :
             header' = [header EXCEPT ![Alt(cur)] = h0] /\ h0 # "active"
        \/ header' = [header EXCEPT ![Alt(cur)] = header[Alt(cur)]]
    BY <1>1, <1>6, <2>1 DEF CompactFault, FailedHeader, TypeOK
  <2>2. header[cur] = "active" /\ (cur = 1 => header[0] # "active")
    BY <2>1 DEF HeadersInv
  <2>3. header'[cur] = "active" /\ (cur = 1 => header'[0] # "active")
    BY <1>1, <2>2, <2>4 DEF TypeOK
  <2> QED BY <1>1, <2>1, <2>3 DEF HeadersInv, Running, Setting
<1> QED BY <1>2, <1>3, <1>4, <1>5, <1>6 DEF Compact

\* A power cut does not touch a region header.
LEMMA HeadersCrash ==
  ASSUME TypeOK, HeadersInv, Crash
  PROVE  HeadersInv'
<1>1. UNCHANGED header /\ pc' = "off" /\ left' = <<>> /\ cur \in Region
  BY DEF Crash, TypeOK
<1>2. left = <<>> => log' = log
  BY DEF Crash
<1> QED BY <1>1, <1>2 DEF HeadersInv, Magic, Running, Setting

\* What spoilt records is never forgotten.
LEMMA SpoiltGrows ==
  ASSUME [Next]_vars
  PROVE  spoilt \subseteq spoilt'
<1>1. CASE Boot \/ Begin \/ Crash
  BY <1>1 DEF Boot, BootMount, BootRecover, BootNotFound, RecreateFormat, RecreateHeader,
              CreateActive, CreateStale, BootFault, Begin, SetDelete, SetWrite, SetCompact,
              SetFull, ScanToEnd, Crash, history
<1>2. CASE Compact
  BY <1>2 DEF Compact, CompactFormat, CompactCopy, CompactCopied, CompactNewHeader,
              CompactOldHeader, CompactFault, history
<1>3. CASE Write
  BY <1>3 DEF Write, WriteHeader, WriteOverLeft, WritePayload, SetValid, WriteFault,
              DeleteEntry, DeleteFault, history
<1>4. CASE UNCHANGED vars
  BY <1>4 DEF vars
<1> QED BY <1>1, <1>2, <1>3, <1>4 DEF Next

\* All of this until marking the old region stale has failed.
HeadersSafe == "header" \notin spoilt => HeadersInv

LEMMA HeadersInit == Init => HeadersSafe
BY DEF Init, HeadersSafe, HeadersInv, Running, Setting, Magic

\* Every step.
LEMMA HeadersStep == TypeOK /\ HeadersSafe /\ [Next]_vars => HeadersSafe'
<1> SUFFICES ASSUME TypeOK, HeadersSafe, [Next]_vars, "header" \notin spoilt'
             PROVE  HeadersInv'
  BY DEF HeadersSafe
<1>1. HeadersInv
  BY SpoiltGrows DEF HeadersSafe
<1>2. CASE Begin
  <2>1. UNCHANGED <<header, cur>> /\ pc = "idle" /\ pc' \in Running
    BY <1>2 DEF Begin, SetDelete, SetWrite, SetCompact, SetFull, Refused, ScanToEnd, Finish,
                flash, Running, Setting
  <2> QED BY <1>1, <2>1, HeadersKept DEF Running
<1>3. CASE Write
  <2>1. UNCHANGED <<header, cur>> /\ pc \in Running /\ pc' \in Running
    BY <1>3 DEF Write, WriteHeader, WriteOverLeft, WritePayload, SetValid, WriteFault,
                DeleteEntry, DeleteFault, Fault, Finish, flash, Running, Setting
  <2> QED BY <1>1, <2>1, HeadersKept
<1>4. CASE UNCHANGED vars
  BY <1>1, <1>4 DEF vars, HeadersInv, Magic, Found, Alt
<1> QED BY <1>1, <1>2, <1>3, <1>4, HeadersBoot, HeadersCompact, HeadersCrash DEF Next

\* As long as marking the old region stale has not failed, the region in use is the
\* one a boot recovers, and a boot finds the store, at every step of every boot,
\* compaction, write and deletion, across any number of power cuts and failures.
THEOREM StoreRecovered == Spec => [](MountedIsRecovered /\ StoreFindable)
<1>1. TypeOK /\ HeadersSafe => MountedIsRecovered /\ StoreFindable
  BY DEF TypeOK, HeadersSafe, HeadersInv, MountedIsRecovered, StoreFindable, Running,
         Recovered, Found, Alt, Magic, Region
<1> QED BY <1>1, HeadersInit, HeadersStep, EntriesComplete, PTL DEF Spec

-----------------------------------------------------------------------------
(* Torn headers.  force_compact is the RAM copy of "the current log ends in *)
(* a torn header": it is set at boot and cleared when a compaction switches *)
(* to a region that was erased by the same compaction.                      *)

\* Nothing is appended behind a header of impossible length: the region is
\* compacted first (force_compact).
NoWriteOverTorn == pc \in {"hdr", "payload", "valid"} => ~torn[cur]

TornInv ==
  /\ pc \in Setting \cup {"idle"} => (torn[cur] => force)
  /\ pc \in {"copy", "newHdr", "oldHdr"} => ~torn[Alt(cur)]
  /\ pc \in {"hdr", "payload", "valid"} => ~torn[cur]

\* A region with force_compact set is written to only after it was compacted.
LEMMA PlanWrite ==
  ASSUME NEW k, NEW v, Plan(k, v) = "write"
  PROVE  ~force
<1>1. Needed(k, v) > Free(log[cur]) => Plan(k, v) # "write"
  BY DEF Plan
<1>2. IdOf(k) = 0 /\ LastKeyId(log[cur]) >= MaxKeyId
        /\ ~(Needed(k, v) > Free(log[cur])) => Plan(k, v) # "write"
  BY DEF Plan
<1> QED BY <1>1, <1>2 DEF Plan

\* Every step that appends to the region in use finds it without a torn header.
LEMMA TornStep ==
  ASSUME TypeOK, TornInv, [Next]_vars
  PROVE  TornInv'
<1>1. /\ cur \in Region /\ Alt(cur) \in Region /\ Alt(cur) # cur
  BY DEF TypeOK, Alt, Region
<1>2. CASE Boot
  <2>1. CASE BootMount
    BY <2>1 DEF BootMount, TornInv, flash, Setting
  <2>2. CASE ~BootMount
    <3>1. pc' \in {"dead", "recreate0", "create0", "recreate1", "off", "create1"}
      BY <1>2, <2>2
         DEF Boot, BootRecover, BootNotFound, RecreateFormat, RecreateHeader,
             CreateActive, CreateStale, BootFault
    <3> QED BY <3>1 DEF TornInv, Setting
  <2> QED BY <2>1, <2>2
<1>3. CASE Begin
  <2>1. pc = "idle" /\ UNCHANGED <<torn, cur>> /\ (torn[cur] => force)
    BY <1>3 DEF Begin, SetDelete, SetWrite, SetCompact, SetFull, Refused, ScanToEnd, flash,
                TornInv
  <2>2. ASSUME NEW k \in Keys, NEW v \in Vals, SetWrite(k, v) PROVE TornInv'
    <3>1. pc' = "hdr" /\ UNCHANGED force /\ ~force
      BY <2>2, PlanWrite DEF SetWrite
    <3> QED BY <2>1, <3>1 DEF TornInv
  <2>3. ASSUME NEW k \in Keys, NEW v \in Vals, SetCompact(k, v) \/ SetFull(k, v)
        PROVE TornInv'
    <3>1. pc' \in {"format", "idle"} /\ (force => force')
      BY <2>3 DEF SetCompact, SetFull, Forced, Finish
    <3> QED BY <2>1, <3>1 DEF TornInv
  <2>4. ASSUME NEW k \in Keys, SetDelete(k) PROVE TornInv'
    <3>1. pc' = "delete" /\ UNCHANGED force
      BY <2>4 DEF SetDelete
    <3> QED BY <2>1, <3>1 DEF TornInv
  <2>5. CASE ScanToEnd
    BY <2>1, <2>5 DEF ScanToEnd, TornInv
  <2> QED BY <1>3, <2>2, <2>3, <2>4, <2>5 DEF Begin
<1>4. CASE Compact
  <2>1. CASE CompactFormat
    <3>1. /\ torn' = [torn EXCEPT ![Alt(cur)] = FALSE] /\ UNCHANGED <<cur, force>>
          /\ pc = "format" /\ pc' = "copy" /\ (torn[cur] => force)
      BY <2>1 DEF CompactFormat, TornInv, Setting
    <3>2. ~torn'[Alt(cur)] /\ torn'[cur] = torn[cur]
      BY <1>1, <3>1 DEF TypeOK
    <3> QED BY <3>1, <3>2 DEF TornInv, Alt
  <2>2. CASE CompactCopy \/ CompactCopied \/ CompactNewHeader
    <3>1. /\ UNCHANGED <<torn, cur, force>> /\ pc \in {"copy", "newHdr"}
          /\ pc' \in {"copy", "newHdr", "oldHdr"}
      BY <2>2 DEF CompactCopy, CompactCopied, CompactNewHeader, flash
    <3> QED BY <3>1 DEF TornInv, Alt, Setting
  <2>3. CASE CompactOldHeader
    <3>1. /\ UNCHANGED torn /\ cur' = Alt(cur) /\ ~torn[Alt(cur)]
          /\ pc' \in {"idle", "hdr"}
      BY <2>3 DEF CompactOldHeader, TornInv, Finish
    <3> QED BY <3>1 DEF TornInv
  <2>4. CASE CompactFault
    <3>1. UNCHANGED <<torn, cur, force>> /\ pc' = "idle" /\ pc \in Setting
      BY <2>4 DEF CompactFault, Fault, Finish, flash, Setting
    <3> QED BY <3>1 DEF TornInv
  <2> QED BY <1>4, <2>1, <2>2, <2>3, <2>4 DEF Compact
<1>5. CASE Write
  <2>1. /\ UNCHANGED <<torn, cur>> /\ pc \in {"hdr", "payload", "valid", "delete"}
        /\ UNCHANGED force
    BY <1>5 DEF Write, WriteHeader, WriteOverLeft, WritePayload, SetValid, WriteFault,
                DeleteEntry, DeleteFault, Fault, Finish, flash
  <2>2. \/ pc \in {"hdr", "payload", "valid"} /\ pc' \in {"hdr", "payload", "valid", "delete"}
        \/ pc' = "idle"
    BY <1>5 DEF Write, WriteHeader, WriteOverLeft, WritePayload, SetValid, WriteFault,
                DeleteEntry, DeleteFault, Fault, Finish
  <2> QED BY <2>1, <2>2 DEF TornInv, Setting
<1>6. CASE Crash
  BY <1>6 DEF Crash, TornInv, Setting
<1>7. CASE UNCHANGED vars
  BY <1>7 DEF vars, TornInv, Alt
<1> QED BY <1>2, <1>3, <1>4, <1>5, <1>6, <1>7 DEF Next

\* No entry is appended behind a header of impossible length, whose following
\* bytes no scan can reach (force_compact in sysparam_init and _compact_params).
THEOREM TornIsCompacted == Spec => []NoWriteOverTorn
<1>1. Init => TornInv
  BY DEF Init, TornInv, Setting
<1>2. TornInv => NoWriteOverTorn
  BY DEF TornInv, NoWriteOverTorn
<1> QED BY <1>1, <1>2, TornStep, EntriesComplete, PTL DEF Spec

-----------------------------------------------------------------------------
(* Keys.  In both regions ids go up from key to key and no name has two    *)
(* live entries: a compaction gives its n-th key an id no larger than it   *)
(* had, and a smaller one behind a key it has dropped.                     *)

KeysOK(L) ==
  \A i, j \in LiveKeys(L) :
    /\ L[i].id \in 1 .. MaxKeyId
    /\ i < j => L[i].id < L[j].id /\ L[i].data # L[j].data

\* The keys a compaction drops.
Unused(L) == {u \in LiveKeys(L) : ValuesOf(L, u) = {}}

\* A compaction of L gives its n-th key an id no larger than it had, and a
\* smaller one behind a key it has dropped.
CopyOK(o, L) ==
  /\ o.site \in {"space", "ids", "force"}
  /\ \/ o.iter = 0 /\ o.n = 0
     \/ o.iter \in LiveKeys(L) \ Unused(L) /\ o.n <= L[o.iter].id
  /\ \A u \in Unused(L) : u < o.iter => o.n < L[o.iter].id
  /\ o.id = 0 =>
       /\ \A i \in LiveKeys(L) : L[i].data # o.key
       /\ o.site = "ids" => Unused(L) # {}
       /\ o.site = "force" => 1 <= MaxKeyId /\ \A i \in LiveKeys(L) : L[i].id < MaxKeyId

\* What has been copied from L to A.
CopiedOK(o, L, A) ==
  \A j \in LiveKeys(A) :
    /\ A[j].id <= o.n
    /\ \E i \in LiveKeys(L) : i <= o.iter /\ A[j].data = L[i].data

\* The key being written is a new one, and its id is the next.
NewKeyOK(o, L) ==
  /\ o.id \in 1 .. MaxKeyId
  /\ \A i \in LiveKeys(L) : L[i].id < o.id /\ L[i].data # o.key

Compacting == {"format", "copy", "newHdr", "oldHdr"}
Writes == {"hdr", "payload", "valid"}

KeysInv ==
  /\ \A r \in Region : KeysOK(log[r])
  /\ pc \in Compacting => CopyOK(op, log[cur])
  /\ pc \in Compacting \ {"format"} => CopiedOK(op, log[cur], log[Alt(cur)])
  /\ pc \in Writes /\ op.what = "key" => NewKeyOK(op, log[cur])
  /\ pc \in Writes \ {"hdr"} => log[cur][Tip].id = op.id

-----------------------------------------------------------------------------
(* Logs                                                                    *)

\* What the types say of a key entry.
LEMMA KeyTypes ==
  ASSUME NEW L \in Seq(Entry)
  PROVE  /\ LiveKeys(L) \subseteq DOMAIN L /\ DOMAIN L = 1 .. Len(L) /\ Len(L) \in Nat
         /\ \A i \in DOMAIN L : L[i] \in Entry /\ L[i].id \in Nat
<1>1. \A i \in DOMAIN L : L[i] \in Entry
  OBVIOUS
<1> QED BY <1>1 DEF LiveKeys, Entry

\* An entry that is no new key, or one with a larger id and a name of its own.
LEMMA KeysAppend ==
  ASSUME NEW L \in Seq(Entry), KeysOK(L), NEW e \in Entry,
         Live(e) /\ ~e.value =>
           /\ e.id \in 1 .. MaxKeyId
           /\ \A i \in LiveKeys(L) : L[i].id < e.id /\ L[i].data # e.data
  PROVE  LET M == Append(L, e)
         IN  /\ M \in Seq(Entry) /\ KeysOK(M)
             /\ LiveKeys(M) = LiveKeys(L) \cup {i \in {Len(L) + 1} : Live(e) /\ ~e.value}
             /\ \A i \in LiveKeys(L) : M[i] = L[i]
             /\ M[Len(L) + 1] = e
<1> DEFINE M == Append(L, e)
<1>1. /\ M \in Seq(Entry) /\ Len(M) = Len(L) + 1 /\ M[Len(L) + 1] = e
      /\ \A i \in 1 .. Len(L) : M[i] = L[i]
      /\ DOMAIN M = 1 .. Len(L) + 1
  OBVIOUS
<1>2. LiveKeys(L) \subseteq DOMAIN L /\ DOMAIN L = 1 .. Len(L) /\ Len(L) \in Nat
  BY KeyTypes
<1> HIDE DEF M
<1>3. \A i \in LiveKeys(L) : M[i] = L[i]
  BY <1>1, <1>2
<1>4. LiveKeys(M) = LiveKeys(L) \cup {i \in {Len(L) + 1} : Live(e) /\ ~e.value}
  BY <1>1, <1>2 DEF LiveKeys
<1>5. KeysOK(M)
  <2> SUFFICES ASSUME NEW i \in LiveKeys(M), NEW j \in LiveKeys(M)
               PROVE  /\ M[i].id \in 1 .. MaxKeyId
                      /\ i < j => M[i].id < M[j].id /\ M[i].data # M[j].data
    BY DEF KeysOK
  <2>1. \A k \in LiveKeys(L) : k < Len(L) + 1
    BY <1>2
  <2>2. CASE i \in LiveKeys(L) /\ j \in LiveKeys(L)
    BY <1>3, <2>2 DEF KeysOK
  <2>3. CASE i \in LiveKeys(L) /\ j \notin LiveKeys(L)
    <3>1. j = Len(L) + 1 /\ Live(e) /\ ~e.value
      BY <1>4, <2>3
    <3>2. L[i].id \in 1 .. MaxKeyId
      BY <2>3 DEF KeysOK
    <3> QED BY <1>1, <1>3, <2>3, <3>1, <3>2
  <2>4. CASE i \notin LiveKeys(L)
    <3>1. i = Len(L) + 1 /\ Live(e) /\ ~e.value
      BY <1>4, <2>4
    <3>2. ~ (i < j)
      BY <1>2, <1>4, <2>1, <3>1
    <3> QED BY <1>1, <3>1, <3>2
  <2> QED BY <2>2, <2>3, <2>4
<1> QED BY <1>1, <1>3, <1>4, <1>5 DEF M

\* A log with some key entries less.
LEMMA KeysFewer ==
  ASSUME NEW L, NEW M, KeysOK(L), LiveKeys(M) \subseteq LiveKeys(L),
         \A i \in LiveKeys(M) : M[i].id = L[i].id /\ M[i].data = L[i].data
  PROVE  KeysOK(M)
BY DEF KeysOK

\* What a scan to the end says of ids and names.
LEMMA LastIsLargest ==
  ASSUME NEW L \in Seq(Entry), KeysOK(L)
  PROVE  LastKeyId(L) \in Nat /\ \A i \in LiveKeys(L) : L[i].id <= LastKeyId(L)
<1>1. LiveKeys(L) \subseteq 1 .. Len(L) /\ Len(L) \in Nat
  BY KeyTypes
<1>2. CASE LiveKeys(L) = {}
  BY <1>2 DEF LastKeyId
<1>3. CASE LiveKeys(L) # {}
  <2>1. \E i \in LiveKeys(L) : \A j \in LiveKeys(L) : j <= i
    BY <1>1, <1>3, LastExists
  <2> DEFINE m == CHOOSE i \in LiveKeys(L) : \A j \in LiveKeys(L) : j <= i
  <2>2. m \in LiveKeys(L) /\ \A j \in LiveKeys(L) : j <= m
    BY <2>1
  <2>3. LastKeyId(L) = L[m].id
    BY <1>3 DEF LastKeyId
  <2> HIDE DEF m
  <2>4. \A i \in LiveKeys(L) : L[i].id \in Nat
    BY KeyTypes
  <2>5. ASSUME NEW i \in LiveKeys(L) PROVE L[i].id <= L[m].id
    <3>1. i \in Nat /\ m \in Nat /\ i <= m
      BY <1>1, <2>2
    <3>2. i = m \/ i < m
      BY <3>1
    <3>3. i < m => L[i].id < L[m].id
      BY <2>2 DEF KeysOK
    <3> QED BY <2>2, <2>4, <3>2, <3>3
  <2> QED BY <2>2, <2>3, <2>4, <2>5
<1> QED BY <1>2, <1>3

\* A scan that found no key of a name has seen all keys.
LEMMA NoSuchName ==
  ASSUME log[cur] \in Seq(Entry), KeysOK(log[cur]), NEW k, IdOf(k) = 0
  PROVE  \A i \in LiveKeys(log[cur]) : log[cur][i].data # k
<1> DEFINE L == log[cur]
           S == {i \in LiveKeys(L) : L[i].data = k}
<1>1. S \in SUBSET Nat /\ 0 \notin S
  BY KeyTypes
<1>2. FindKey(L, k) = First(S)
  BY DEF FindKey
<1> HIDE DEF S
<1>3. FindKey(L, k) \in S \cup {0} /\ (FindKey(L, k) = 0 => S = {})
  BY <1>1, <1>2, FirstIn
<1>4. FindKey(L, k) \in S => L[FindKey(L, k)].id # 0
  BY DEF S, KeysOK
<1>5. FindKey(L, k) = 0
  BY <1>3, <1>4 DEF IdOf
<1> QED BY <1>3, <1>5 DEF S

\* More keys than values: some key has none, since values of two keys differ.
LEMMA UnusedExists ==
  ASSUME NEW L \in Seq(Entry), KeysOK(L), UnusedKeys(L) > 0
  PROVE  Unused(L) # {}
<1> SUFFICES ASSUME Unused(L) = {} PROVE FALSE
  OBVIOUS
<1> DEFINE f == [i \in LiveKeys(L) |-> FindValue(L, i)]
<1>1. \A i \in LiveKeys(L) : FindValue(L, i) \in ValuesOf(L, i) /\ ValuesOf(L, i) \subseteq LiveVals(L)
  BY ScanTypes DEF Unused
<1>2. \A i \in LiveKeys(L) : f[i] \in LiveVals(L) /\ L[f[i]].id = L[i].id
  BY <1>1 DEF ValuesOf
<1>3. ASSUME NEW i \in LiveKeys(L), NEW j \in LiveKeys(L), i # j PROVE f[i] # f[j]
  <2>1. i \in Nat /\ j \in Nat /\ L[i].id \in Nat /\ L[j].id \in Nat
    BY KeyTypes
  <2>2. i < j \/ j < i
    BY <1>3, <2>1
  <2>3. L[i].id # L[j].id
    BY <2>1, <2>2 DEF KeysOK
  <2> QED BY <1>2, <2>3
<1>4. f \in Injection(LiveKeys(L), LiveVals(L))
  <2>1. f \in [LiveKeys(L) -> LiveVals(L)]
    BY <1>2
  <2> HIDE DEF f
  <2>2. \A i, j \in LiveKeys(L) : f[i] = f[j] => i = j
    BY <1>3
  <2> QED BY <2>1, <2>2 DEF Injection, IsInjective
<1>5. IsFiniteSet(LiveVals(L))
  <2>1. Len(L) \in Nat /\ LiveVals(L) \subseteq 1 .. Len(L)
    BY KeyTypes DEF LiveVals
  <2>2. IsFiniteSet(1 .. Len(L))
    BY <2>1, FS_Interval
  <2> QED BY <2>1, <2>2, FS_Subset
<1>6. /\ Cardinality(LiveKeys(L)) <= Cardinality(LiveVals(L))
      /\ Cardinality(LiveKeys(L)) \in Nat /\ Cardinality(LiveVals(L)) \in Nat
  BY <1>4, <1>5, FS_Injection, FS_CardinalityType
<1> QED BY <1>6 DEF UnusedKeys

-----------------------------------------------------------------------------
(* The copy loop                                                           *)

\* One turn of the loop: the next key with a value gets the next id.
LEMMA CopyTurn ==
  ASSUME NEW L \in Seq(Entry), KeysOK(L), NEW o \in Op, CopyOK(o, L), NEW p \in Op,
         NEW i \in LiveKeys(L) \ Unused(L), o.iter < i,
         p.iter = i, p.n = o.n + 1, p.site = o.site, p.key = o.key, p.id = 0 => o.id = 0
  PROVE  CopyOK(p, L) /\ p.n \in 1 .. MaxKeyId
<1>1. /\ LiveKeys(L) \subseteq Nat /\ \A j \in LiveKeys(L) : L[j].id \in Nat
      /\ \A j \in LiveKeys(L) : L[j].id \in 1 .. MaxKeyId
  <2>1. \A j \in LiveKeys(L) : L[j].id \in 1 .. MaxKeyId
    BY DEF KeysOK
  <2> QED BY <2>1, KeyTypes
<1>2. \A j, k \in LiveKeys(L) : j < k => L[j].id < L[k].id
  BY DEF KeysOK
<1>3. o.n \in Nat /\ o.iter \in Nat /\ i \in LiveKeys(L)
  BY DEF Op
<1>4. p.n <= L[i].id
  <2>1. CASE o.iter = 0 /\ o.n = 0
    BY <1>1, <1>3, <2>1
  <2>2. CASE o.iter \in LiveKeys(L) /\ o.n <= L[o.iter].id
    <3>1. L[o.iter].id < L[i].id
      BY <1>2, <1>3, <2>2
    <3> QED BY <1>1, <1>3, <2>2, <3>1
  <2> QED BY <2>1, <2>2 DEF CopyOK
<1>5. ASSUME NEW u \in Unused(L), u < i PROVE p.n < L[i].id
  <2>1. u \in LiveKeys(L) /\ L[u].id < L[i].id
    BY <1>2, <1>3, <1>5 DEF Unused
  <2>2. CASE o.iter = 0 /\ o.n = 0
    BY <1>1, <1>3, <2>1, <2>2
  <2>3. CASE o.iter \in LiveKeys(L) \ Unused(L) /\ o.n <= L[o.iter].id
    <3>1. L[o.iter].id < L[i].id /\ L[o.iter].id \in Nat
      BY <1>1, <1>2, <1>3, <2>3
    <3>2. u < o.iter \/ o.iter < u
      BY <1>1, <1>3, <2>1, <2>3
    <3>3. CASE u < o.iter
      <4>1. o.n < L[o.iter].id
        BY <3>3 DEF CopyOK
      <4> QED BY <1>1, <1>3, <3>1, <4>1
    <3>4. CASE o.iter < u
      <4>1. L[o.iter].id < L[u].id
        BY <1>2, <2>1, <2>3, <3>4
      <4> QED BY <1>1, <1>3, <2>1, <2>3, <3>1, <4>1
    <3> QED BY <3>2, <3>3, <3>4
  <2> QED BY <2>2, <2>3 DEF CopyOK
<1>6. p.n \in 1 .. MaxKeyId
  BY <1>1, <1>3, <1>4, ConstAssumption
<1> QED BY <1>3, <1>4, <1>5, <1>6 DEF CopyOK

\* What is appended for it.
LEMMA CopiedTurn ==
  ASSUME NEW L \in Seq(Entry), KeysOK(L), NEW A \in Seq(Entry), KeysOK(A),
         NEW o \in Op, CopiedOK(o, L, A), NEW p \in Op,
         NEW i \in LiveKeys(L), o.iter < i, p.iter = i, p.n = o.n + 1, p.n \in 1 .. MaxKeyId,
         NEW key \in Entry, key.id = p.n, key.data = L[i].data, NEW val \in Entry, val.value
  PROVE  LET B == Append(A, key)
         IN  /\ KeysOK(B) /\ CopiedOK(p, L, B)
             /\ KeysOK(Append(B, val)) /\ CopiedOK(p, L, Append(B, val))
<1> DEFINE B == Append(A, key)
           C == Append(B, val)
<1>1. o.n \in Nat /\ o.iter \in Nat /\ i \in Nat
  <2>1. LiveKeys(L) \subseteq Nat
    BY KeyTypes
  <2> QED BY <2>1 DEF Op
<1>2. \A j \in LiveKeys(A) : A[j].id \in Nat /\ A[j].id <= o.n
  BY KeyTypes DEF CopiedOK
<1>3. ASSUME NEW j \in LiveKeys(A) PROVE A[j].id < key.id /\ A[j].data # key.data
  <2>1. PICK k \in LiveKeys(L) : k <= o.iter /\ A[j].data = L[k].data
    BY DEF CopiedOK
  <2>2. k \in Nat /\ k < i
    BY <1>1, <2>1, KeyTypes
  <2>3. L[k].data # L[i].data
    BY <2>2 DEF KeysOK
  <2> QED BY <1>1, <1>2, <2>1, <2>3
<1>4. /\ B \in Seq(Entry) /\ KeysOK(B)
      /\ LiveKeys(B) \subseteq LiveKeys(A) \cup {Len(A) + 1}
      /\ \A j \in LiveKeys(A) : B[j] = A[j]
      /\ B[Len(A) + 1] = key
  <2>1. /\ key.id \in 1 .. MaxKeyId
        /\ \A j \in LiveKeys(A) : A[j].id < key.id /\ A[j].data # key.data
    <3>1. key.id \in 1 .. MaxKeyId
      OBVIOUS
    <3> QED BY <1>3, <3>1
  <2>2. /\ B \in Seq(Entry) /\ KeysOK(B)
        /\ LiveKeys(B) = LiveKeys(A) \cup {j \in {Len(A) + 1} : Live(key) /\ ~key.value}
        /\ \A j \in LiveKeys(A) : B[j] = A[j]
        /\ B[Len(A) + 1] = key
    BY <2>1, KeysAppend
  <2> HIDE DEF B
  <2> QED BY <2>2
<1> HIDE DEF B
<1>5. CopiedOK(p, L, B)
  <2> SUFFICES ASSUME NEW j \in LiveKeys(B)
               PROVE  /\ B[j].id <= p.n
                      /\ \E k \in LiveKeys(L) : k <= p.iter /\ B[j].data = L[k].data
    BY DEF CopiedOK
  <2>1. CASE j \in LiveKeys(A)
    <3>1. PICK k \in LiveKeys(L) : k <= o.iter /\ A[j].data = L[k].data
      BY <2>1 DEF CopiedOK
    <3>2. k \in Nat /\ k <= p.iter
      BY <1>1, <3>1, KeyTypes
    <3>3. B[j] = A[j] /\ A[j].id <= p.n
      BY <1>1, <1>2, <1>4, <2>1
    <3> QED BY <3>1, <3>2, <3>3
  <2>2. CASE j = Len(A) + 1
    BY <1>1, <1>4, <2>2
  <2> QED BY <1>4, <2>1, <2>2
<1>6. /\ KeysOK(C) /\ LiveKeys(C) = LiveKeys(B)
      /\ \A j \in LiveKeys(B) : C[j] = B[j]
  <2>1. ~ (Live(val) /\ ~val.value)
    OBVIOUS
  <2>2. /\ KeysOK(C) /\ \A j \in LiveKeys(B) : C[j] = B[j]
        /\ LiveKeys(C) = LiveKeys(B) \cup {j \in {Len(B) + 1} : Live(val) /\ ~val.value}
    BY <1>4, <2>1, KeysAppend
  <2> HIDE DEF C
  <2> QED BY <2>1, <2>2
<1> HIDE DEF C
<1>7. CopiedOK(p, L, C)
  BY <1>5, <1>6 DEF CopiedOK
<1> QED BY <1>4, <1>5, <1>6, <1>7 DEF B, C

\* The key written after a compaction gets an id that is left.
LEMMA IdLeft ==
  ASSUME NEW L \in Seq(Entry), KeysOK(L), NEW A \in Seq(Entry), KeysOK(A), NEW o \in Op,
         CopyOK(o, L), CopiedOK(o, L, A), o.id = 0, o.site = "space" => o.n < MaxKeyId
  PROVE  /\ o.n + 1 \in 1 .. MaxKeyId
         /\ \A j \in LiveKeys(A) : A[j].id < o.n + 1 /\ A[j].data # o.key
<1>1. o.n \in Nat /\ o.iter \in Nat /\ MaxKeyId \in Nat
  BY ConstAssumption DEF Op
<1>2. /\ LiveKeys(L) \subseteq Nat
      /\ \A j \in LiveKeys(L) : L[j].id \in Nat /\ 1 <= L[j].id /\ L[j].id <= MaxKeyId
  <2>1. \A j \in LiveKeys(L) : L[j].id \in 1 .. MaxKeyId
    BY DEF KeysOK
  <2> QED BY <1>1, <2>1, KeyTypes
<1>3. o.n < MaxKeyId
  <2>1. CASE o.site = "space"
    BY <2>1
  <2>2. CASE o.site = "force"
    BY <1>1, <1>2, <2>2 DEF CopyOK
  <2>3. CASE o.site = "ids"
    <3>1. PICK u \in Unused(L) : TRUE
      BY <2>3 DEF CopyOK
    <3>2. u \in LiveKeys(L)
      BY DEF Unused
    <3>3. CASE o.iter = 0 /\ o.n = 0
      BY <1>1, <1>2, <3>2, <3>3
    <3>4. CASE o.iter \in LiveKeys(L) \ Unused(L) /\ o.n <= L[o.iter].id
      <4>1. u < o.iter \/ o.iter < u
        BY <1>1, <1>2, <3>2, <3>4
      <4>2. u < o.iter => o.n < L[o.iter].id
        BY DEF CopyOK
      <4>3. o.iter < u => L[o.iter].id < L[u].id
        BY <3>2, <3>4 DEF KeysOK
      <4> QED BY <1>1, <1>2, <3>2, <3>4, <4>1, <4>2, <4>3
    <3> QED BY <3>3, <3>4 DEF CopyOK
  <2> QED BY <2>1, <2>2, <2>3 DEF CopyOK
<1>4. \A j \in LiveKeys(A) : A[j].id \in Nat
  BY KeyTypes
<1>5. \A j \in LiveKeys(A) : A[j].data # o.key
  BY DEF CopyOK, CopiedOK
<1> QED BY <1>1, <1>3, <1>4, <1>5 DEF CopiedOK

-----------------------------------------------------------------------------
(* The steps                                                               *)

\* A step that ends outside a compaction and a write.
LEMMA KeysRest ==
  ASSUME \A r \in Region : KeysOK(log'[r]), pc' \notin Compacting \cup Writes
  PROVE  KeysInv'
BY DEF KeysInv, KeysOK, Compacting, Writes, LiveKeys, Live

\* A region just formatted.
LEMMA KeysEmpty == KeysOK(<<>>)
BY DEF KeysOK, LiveKeys

\* A boot that formats a region.
LEMMA KeysBoot ==
  ASSUME EntriesInv, KeysInv, Boot
  PROVE  KeysInv'
<1>1. pc' \notin Compacting \cup Writes
  BY DEF Boot, BootMount, BootRecover, BootNotFound, RecreateFormat, RecreateHeader,
         CreateActive, CreateStale, BootFault, Compacting, Writes
<1>2. log' = log \/ log' = [log EXCEPT ![Alt(Found)] = <<>>]
  BY DEF Boot, BootMount, BootRecover, BootNotFound, RecreateFormat, RecreateHeader,
         CreateActive, CreateStale, BootFault, flash
<1>3. log \in [Region -> Seq(Entry)]
  BY DEF EntriesInv, TypeOK
<1>4. \A r \in Region : log'[r] = log[r] \/ log'[r] = <<>>
  BY <1>2, <1>3
<1>5. \A r \in Region : KeysOK(log'[r])
  BY <1>4, KeysEmpty DEF KeysInv
<1> QED BY <1>1, <1>5, KeysRest

\* The fields of a set that has begun.
LEMMA ArgsFields ==
  ASSUME NEW k, NEW v
  PROVE  /\ Args(k, v).id = IdOf(k) /\ Args(k, v).key = k
         /\ Args(k, v).iter = 0 /\ Args(k, v).n = 0
BY DEF Args, NoOp

\* What the decision says of ids.
LEMMA PlanIds ==
  ASSUME NEW k, NEW v
  PROVE  /\ Plan(k, v) \in {"write", "force"} /\ IdOf(k) = 0 => ~ (LastKeyId(log[cur]) >= MaxKeyId)
         /\ Plan(k, v) = "ids" => UnusedKeys(log[cur]) > 0
<1> DEFINE L == log[cur]
<1>1. Needed(k, v) > Free(L) => Plan(k, v) \in {"space", "full"}
  BY DEF Plan
<1>2. CASE ~ (Needed(k, v) > Free(L)) /\ IdOf(k) = 0 /\ LastKeyId(L) >= MaxKeyId
  <2>1. Plan(k, v) = IF UnusedKeys(L) > 0 THEN "ids" ELSE "full"
    BY <1>2 DEF Plan
  <2> QED BY <2>1
<1>3. CASE /\ ~ (Needed(k, v) > Free(L))
           /\ ~ (IdOf(k) = 0 /\ LastKeyId(L) >= MaxKeyId)
  <2>1. Plan(k, v) \in {"force", "write"}
    BY <1>3 DEF Plan
  <2>2. Plan(k, v) # "ids"
    BY <2>1
  <2> QED BY <1>3, <2>2
<1> QED BY <1>1, <1>2, <1>3

\* A set that compacts first begins the copy; one that does not has an id left.
LEMMA KeysBegin ==
  ASSUME EntriesInv, KeysInv, Begin
  PROVE  KeysInv'
<1> DEFINE L == log[cur]
<1>1. /\ L \in Seq(Entry) /\ KeysOK(L) /\ TypeOK
      /\ \A r \in Region : KeysOK(log[r])
  BY DEF EntriesInv, TypeOK, KeysInv
<1>2. UNCHANGED <<log, cur>>
  BY DEF Begin, SetDelete, SetWrite, SetCompact, SetFull, ScanToEnd, flash
<1>3. LastKeyId(L) \in Nat /\ \A i \in LiveKeys(L) : L[i].id <= LastKeyId(L)
  BY <1>1, LastIsLargest
<1>4. \A i \in LiveKeys(L) : L[i].id \in Nat
  BY <1>1, KeyTypes
<1>5. MaxKeyId \in Nat
  BY ConstAssumption
<1> HIDE DEF L
<1>6. ASSUME NEW k \in Keys, SetDelete(k) PROVE KeysInv'
  <2>1. pc' = "delete"
    BY <1>6 DEF SetDelete
  <2> QED BY <1>1, <1>2, <2>1, KeysRest DEF Compacting, Writes
<1>7. ASSUME NEW k \in Keys, NEW v \in Vals, SetFull(k, v) PROVE KeysInv'
  <2>1. pc' = "idle"
    BY <1>7 DEF SetFull, Finish
  <2> QED BY <1>1, <1>2, <2>1, KeysRest DEF Compacting, Writes
<1>8. ASSUME NEW k \in Keys, NEW v \in Vals, SetWrite(k, v) PROVE KeysInv'
  <2> DEFINE o == Args(k, v)
  <2>1. op' = Writing(o, LastKeyId(L)) /\ pc' = "hdr" /\ Plan(k, v) = "write"
    BY <1>8 DEF SetWrite, L
  <2>2. o \in Op /\ o.id = IdOf(k) /\ o.key = k
    BY <1>1, ArgsType, ArgsFields
  <2> HIDE DEF o
  <2>3. ASSUME op'.what = "key" PROVE NewKeyOK(op', L)
    <3>1. o.id = 0
      BY <2>1, <2>2, <2>3 DEF Writing, Op
    <3>2. op'.id = LastKeyId(L) + 1 /\ op'.key = k
      BY <2>1, <2>2, <3>1 DEF Writing, Op
    <3>3. LastKeyId(L) < MaxKeyId
      <4>1. ~ (LastKeyId(L) >= MaxKeyId)
        BY <2>1, <2>2, <3>1, PlanIds DEF L
      <4> QED BY <1>3, <1>5, <4>1
    <3>4. \A i \in LiveKeys(L) : L[i].data # k
      BY <1>1, <2>2, <3>1, NoSuchName DEF L
    <3> QED BY <1>3, <1>4, <1>5, <3>2, <3>3, <3>4 DEF NewKeyOK
  <2> QED BY <1>1, <1>2, <2>1, <2>3 DEF KeysInv, Compacting, Writes, L
<1>9. ASSUME NEW k \in Keys, NEW v \in Vals, SetCompact(k, v) PROVE KeysInv'
  <2> DEFINE o == Args(k, v)
  <2>1. /\ op' = [o EXCEPT !.site = Plan(k, v), !.need = Needed(k, v)] /\ pc' = "format"
        /\ Plan(k, v) \in {"space", "ids", "force"}
    BY <1>9 DEF SetCompact
  <2>2. o \in Op /\ o.id = IdOf(k) /\ o.key = k /\ o.iter = 0 /\ o.n = 0
    BY <1>1, ArgsType, ArgsFields
  <2> HIDE DEF o
  <2>3. op'.id = IdOf(k) /\ op'.key = k /\ op'.iter = 0 /\ op'.n = 0 /\ op'.site = Plan(k, v)
    BY <2>1, <2>2 DEF Op
  <2>4. ASSUME IdOf(k) = 0
        PROVE  /\ \A i \in LiveKeys(L) : L[i].data # k
               /\ Plan(k, v) = "ids" => Unused(L) # {}
               /\ Plan(k, v) = "force" => 1 <= MaxKeyId /\ \A i \in LiveKeys(L) : L[i].id < MaxKeyId
    <3>1. \A i \in LiveKeys(L) : L[i].data # k
      BY <1>1, <2>4, NoSuchName DEF L
    <3>2. Plan(k, v) = "ids" => Unused(L) # {}
      BY <1>1, PlanIds, UnusedExists DEF L
    <3>3. Plan(k, v) = "force" => LastKeyId(L) < MaxKeyId
      BY <1>3, <1>5, <2>4, PlanIds DEF L
    <3> QED BY <1>3, <1>4, <1>5, <3>1, <3>2, <3>3
  <2>5. \A u \in Unused(L) : ~ (u < 0)
    <3>1. LiveKeys(L) \subseteq Nat
      BY <1>1, KeyTypes
    <3> QED BY <3>1 DEF Unused
  <2>6. CopyOK(op', L)
    BY <2>1, <2>3, <2>4, <2>5 DEF CopyOK
  <2> QED BY <1>1, <1>2, <2>1, <2>6 DEF KeysInv, Compacting, Writes, L
<1>10. CASE ScanToEnd
  <2>1. pc' = "idle"
    BY <1>10 DEF ScanToEnd
  <2> QED BY <1>1, <1>2, <2>1, KeysRest DEF Compacting, Writes
<1> QED BY <1>6, <1>7, <1>8, <1>9, <1>10 DEF Begin

\* A compaction never gives out more ids than there were.
LEMMA KeysCompact ==
  ASSUME EntriesInv, KeysInv, Compact
  PROVE  KeysInv'
<1> DEFINE L == log[cur]
           A == log[Alt(cur)]
<1>1. /\ TypeOK /\ cur \in Region /\ Alt(cur) \in Region /\ Alt(cur) # cur /\ op \in Op
      /\ L \in Seq(Entry) /\ KeysOK(L) /\ A \in Seq(Entry) /\ KeysOK(A)
      /\ \A r \in Region : KeysOK(log[r])
  BY DEF EntriesInv, TypeOK, KeysInv, Alt, Region
<1>2. CASE CompactFormat
  <2>1. /\ log' = [log EXCEPT ![Alt(cur)] = <<>>] /\ UNCHANGED <<cur, op>>
        /\ pc = "format" /\ pc' = "copy"
    BY <1>2 DEF CompactFormat
  <2>2. log'[cur] = L /\ log'[Alt(cur)] = <<>> /\ \A r \in Region : r # Alt(cur) => log'[r] = log[r]
    BY <1>1, <2>1 DEF TypeOK
  <2>3. \A r \in Region : KeysOK(log'[r])
    BY <1>1, <2>2, KeysEmpty
  <2>4. CopyOK(op, L)
    BY <2>1 DEF KeysInv, Compacting
  <2>5. CopiedOK(op, L, <<>>)
    BY DEF CopiedOK, LiveKeys
  <2> QED BY <2>1, <2>2, <2>3, <2>4, <2>5 DEF KeysInv, Compacting, Writes
<1>3. CASE CompactCopy
  <2> DEFINE i == NextKey
             n == op.n + 1
             key == KeyEntry(n, L[i].data, TRUE)
             val == ValueEntry(n, L[FindValue(L, i)])
             own == op.id # 0 /\ L[i].id = op.id
             B == Append(A, key)
             C == Append(B, val)
  <2>1. /\ pc = "copy" /\ i # 0
        /\ log' = [log EXCEPT ![Alt(cur)] = IF own THEN B ELSE C]
        /\ op' = [op EXCEPT !.iter = i, !.n = n, !.id = IF own THEN n ELSE @]
        /\ UNCHANGED <<cur, pc>>
    BY <1>3 DEF CompactCopy
  <2>2. CopyOK(op, L) /\ CopiedOK(op, L, A)
    BY <2>1 DEF KeysInv, Compacting
  <2>3. i \in LiveKeys(L) \ Unused(L) /\ op.iter < i
    <3> DEFINE S == {j \in LiveKeys(L) : j > op.iter /\ ValuesOf(L, j) # {}}
    <3>1. S \in SUBSET Nat /\ i = First(S)
      BY <1>1, KeyTypes DEF NextKey
    <3> HIDE DEF S
    <3>2. i \in S
      BY <2>1, <3>1, FirstIn
    <3>3. i \in LiveKeys(L) /\ i > op.iter /\ ValuesOf(L, i) # {}
      BY <3>2 DEF S
    <3>4. i \in Nat /\ op.iter \in Nat
      BY <1>1, <3>1, <3>2 DEF Op
    <3> QED BY <3>3, <3>4 DEF Unused
  <2>4. op.n \in Nat /\ n \in Nat /\ i \in Nat
    BY <1>1, <2>3, KeyTypes DEF Op
  <2>5. /\ key \in Entry /\ key.id = n /\ key.data = L[i].data
        /\ val \in Entry /\ val.value
    <3>1. key \in Entry /\ val \in Entry
      BY <2>1, <2>4, CopiedEntries
    <3>2. key.id = n /\ key.data = L[i].data
      BY DEF KeyEntry
    <3>3. FindValue(L, i) \in LiveVals(L) /\ FindValue(L, i) \in DOMAIN L
      BY <1>1, <2>3, ScanTypes DEF Unused
    <3>4. L[FindValue(L, i)].value /\ L[FindValue(L, i)] \in Entry
      BY <1>1, <3>3 DEF LiveVals
    <3>5. val.value = L[FindValue(L, i)].value
      BY <3>4 DEF ValueEntry, Entry
    <3> QED BY <3>1, <3>2, <3>4, <3>5
  <2> HIDE DEF i, n, key, val, own, B, C
  <2>6. /\ op' \in Op /\ op'.iter = i /\ op'.n = n /\ op'.site = op.site /\ op'.key = op.key
        /\ op'.id = 0 => op.id = 0
    <3>1. op'.id = IF own THEN n ELSE op.id
      BY <1>1, <2>1 DEF Op
    <3>2. n # 0
      BY <2>4 DEF n
    <3>3. op' \in Op
      BY <1>1, <2>1, <2>4 DEF Op
    <3> QED BY <1>1, <2>1, <3>1, <3>2, <3>3 DEF Op
  <2>7. CopyOK(op', L) /\ n \in 1 .. MaxKeyId
    BY <1>1, <2>2, <2>3, <2>6, CopyTurn DEF n
  <2>8. KeysOK(B) /\ CopiedOK(op', L, B) /\ KeysOK(C) /\ CopiedOK(op', L, C)
    <3>1. i \in LiveKeys(L) /\ op.iter < i /\ op'.n = op.n + 1 /\ op'.n \in 1 .. MaxKeyId
      BY <2>3, <2>6, <2>7 DEF n
    <3>2. key.id = op'.n
      BY <2>5, <2>6
    <3> QED BY <1>1, <2>2, <2>5, <2>6, <3>1, <3>2, CopiedTurn DEF B, C
  <2>9. /\ log'[Alt(cur)] \in {B, C} /\ log'[cur] = L
        /\ \A r \in Region : r # Alt(cur) => log'[r] = log[r]
    BY <1>1, <2>1 DEF TypeOK
  <2>10. \A r \in Region : KeysOK(log'[r])
    BY <1>1, <2>8, <2>9
  <2>11. CopiedOK(op', L, log'[Alt(cur)])
    BY <2>8, <2>9
  <2> QED BY <2>1, <2>7, <2>9, <2>10, <2>11 DEF KeysInv, Compacting, Writes
<1>4. CASE CompactCopied \/ CompactNewHeader
  <2>1. UNCHANGED <<log, cur, op>> /\ pc \in {"copy", "newHdr"} /\ pc' \in {"newHdr", "oldHdr"}
    BY <1>4 DEF CompactCopied, CompactNewHeader, flash
  <2>2. CopyOK(op, L) /\ CopiedOK(op, L, A)
    BY <2>1 DEF KeysInv, Compacting
  <2> QED BY <1>1, <2>1, <2>2 DEF KeysInv, Compacting, Writes
<1>5. CASE CompactOldHeader
  <2>1. UNCHANGED log /\ cur' = Alt(cur) /\ pc = "oldHdr"
    BY <1>5 DEF CompactOldHeader
  <2>2. CopyOK(op, L) /\ CopiedOK(op, L, A)
    BY <2>1 DEF KeysInv, Compacting
  <2>3. CASE pc' = "idle"
    BY <1>1, <2>1, <2>3, KeysRest DEF Compacting, Writes
  <2>4. CASE pc' # "idle"
    <3> DEFINE o == [op EXCEPT !.old = IF op.site = "force" THEN @ ELSE NoAddr]
    <3>1. /\ op' = Writing(o, op.n) /\ pc' = "hdr"
          /\ ~ (op.site = "space" /\ op.id = 0 /\ op.n >= MaxKeyId)
      BY <1>5, <2>4 DEF CompactOldHeader, StillFull, Finish
    <3>2. o.id = op.id /\ o.key = op.key
      BY <1>1 DEF Op
    <3>3. o \in Op
      BY <1>1 DEF Op, NoAddr, Region
    <3> HIDE DEF o
    <3>4. ASSUME op'.what = "key" PROVE NewKeyOK(op', A)
      <4>1. op.id = 0
        BY <3>1, <3>2, <3>3, <3>4 DEF Writing, Op
      <4>2. op'.id = op.n + 1 /\ op'.key = op.key
        BY <3>1, <3>2, <3>3, <4>1 DEF Writing, Op
      <4>3. op.site = "space" => op.n < MaxKeyId
        <5>1. op.n \in Nat /\ MaxKeyId \in Nat
          BY <1>1, ConstAssumption DEF Op
        <5> QED BY <3>1, <4>1, <5>1
      <4>4. /\ op.n + 1 \in 1 .. MaxKeyId
            /\ \A j \in LiveKeys(A) : A[j].id < op.n + 1 /\ A[j].data # op.key
        BY <1>1, <2>2, <4>1, <4>3, IdLeft
      <4> QED BY <4>2, <4>4 DEF NewKeyOK
    <3> QED BY <1>1, <2>1, <3>1, <3>4 DEF KeysInv, Compacting, Writes
  <2> QED BY <2>3, <2>4
<1>6. CASE CompactFault
  <2>1. UNCHANGED log /\ pc' = "idle"
    BY <1>6 DEF CompactFault, Fault, Finish, flash
  <2> QED BY <1>1, <2>1, KeysRest DEF Compacting, Writes
<1> QED BY <1>2, <1>3, <1>4, <1>5, <1>6 DEF Compact

\* The log with its last entry changed.
LEMMA KeysTip ==
  ASSUME NEW L \in Seq(Entry), KeysOK(L), NEW i \in DOMAIN L, NEW e \in Entry,
         i \notin LiveKeys(L), ~ (Live(e) /\ ~e.value)
  PROVE  LET M == [L EXCEPT ![i] = e]
         IN  KeysOK(M) /\ LiveKeys(M) = LiveKeys(L) /\ \A j \in LiveKeys(L) : M[j] = L[j]
<1> DEFINE M == [L EXCEPT ![i] = e]
<1>1. DOMAIN M = DOMAIN L /\ M[i] = e /\ \A j \in DOMAIN L : j # i => M[j] = L[j]
  OBVIOUS
<1> HIDE DEF M
<1>2. LiveKeys(M) = LiveKeys(L) /\ \A j \in LiveKeys(L) : M[j] = L[j]
  BY <1>1 DEF LiveKeys
<1>3. KeysOK(M)
  BY <1>2, KeysFewer
<1> QED BY <1>2, <1>3 DEF M

\* The entry at the tip becomes a key that readers see.
LEMMA KeysTipValid ==
  ASSUME NEW L \in Seq(Entry), KeysOK(L), Len(L) \in DOMAIN L, Len(L) \notin LiveKeys(L),
         NEW e \in Entry,
         ~e.value => /\ e.id \in 1 .. MaxKeyId
                     /\ \A i \in LiveKeys(L) : L[i].id < e.id /\ L[i].data # e.data
  PROVE  KeysOK([L EXCEPT ![Len(L)] = e])
<1> DEFINE M == [L EXCEPT ![Len(L)] = e]
<1>1. /\ DOMAIN M = DOMAIN L /\ M[Len(L)] = e /\ \A j \in DOMAIN L : j # Len(L) => M[j] = L[j]
      /\ DOMAIN L = 1 .. Len(L) /\ Len(L) \in Nat /\ LiveKeys(L) \subseteq DOMAIN L
  BY KeyTypes
<1> HIDE DEF M
<1>2. /\ \A j \in LiveKeys(M) : j \in LiveKeys(L) \/ (j = Len(L) /\ ~e.value)
      /\ \A j \in LiveKeys(L) : M[j] = L[j] /\ j < Len(L)
  BY <1>1 DEF LiveKeys
<1> SUFFICES ASSUME NEW i \in LiveKeys(M), NEW j \in LiveKeys(M)
             PROVE  /\ M[i].id \in 1 .. MaxKeyId
                    /\ i < j => M[i].id < M[j].id /\ M[i].data # M[j].data
  BY DEF KeysOK, M
<1>3. CASE i \in LiveKeys(L) /\ j \in LiveKeys(L)
  BY <1>2, <1>3 DEF KeysOK
<1>4. CASE i \in LiveKeys(L) /\ j \notin LiveKeys(L)
  <2>1. j = Len(L) /\ ~e.value
    BY <1>2, <1>4
  <2>2. L[i].id \in 1 .. MaxKeyId
    BY <1>4 DEF KeysOK
  <2> QED BY <1>1, <1>2, <1>4, <2>1, <2>2
<1>5. CASE i \notin LiveKeys(L)
  <2>1. i = Len(L) /\ ~e.value
    BY <1>2, <1>5
  <2>2. ~ (i < j)
    <3>1. j = Len(L) \/ j < Len(L)
      BY <1>2
    <3> QED BY <1>1, <1>2, <2>1, <3>1
  <2> QED BY <1>1, <2>1, <2>2
<1> QED BY <1>3, <1>4, <1>5

\* A log with the alive bit of one entry cleared.
LEMMA KeysDelete ==
  ASSUME NEW L \in Seq(Entry), KeysOK(L), NEW i
  PROVE  KeysOK([L EXCEPT ![i].alive = FALSE])
<1> DEFINE e == [L[i] EXCEPT !.alive = FALSE]
           M == [L EXCEPT ![i] = e]
<1>1. /\ DOMAIN M = DOMAIN L /\ \A j \in DOMAIN L : M[j] = IF j = i THEN e ELSE L[j]
      /\ \A j \in DOMAIN L : L[j] \in Entry
  OBVIOUS
<1>2. i \in DOMAIN L => ~e.alive
  BY <1>1 DEF Entry
<1> HIDE DEF e, M
<1>3. \A j \in LiveKeys(M) : j \in LiveKeys(L) /\ M[j] = L[j]
  BY <1>1, <1>2 DEF LiveKeys, Live
<1>4. KeysOK(M)
  BY <1>3, KeysFewer
<1> QED BY <1>4 DEF M, e

\* One write of an entry.
LEMMA KeysWrite ==
  ASSUME EntriesInv, KeysInv, Write
  PROVE  KeysInv'
<1> DEFINE L == log[cur]
           datum == IF op.what = "key" THEN op.key ELSE op.val
<1>1. /\ TypeOK /\ cur \in Region /\ op \in Op /\ L \in Seq(Entry) /\ KeysOK(L)
      /\ \A r \in Region : log[r] \in Seq(Entry) /\ KeysOK(log[r])
      /\ SetInProgress /\ HalfWritten
  BY DEF EntriesInv, TypeOK, KeysInv
<1>2. ASSUME NEW M, KeysOK(M), log' = [log EXCEPT ![cur] = M]
      PROVE  log'[cur] = M /\ \A r \in Region : KeysOK(log'[r])
  BY <1>1, <1>2 DEF TypeOK
<1>3. CASE WriteHeader
  <2> DEFINE M == Append(L, NewEntry)
  <2>1. /\ pc = "hdr" /\ pc' = "payload" /\ log' = [log EXCEPT ![cur] = M] /\ UNCHANGED <<cur, op>>
    BY <1>3 DEF WriteHeader
  <2>2. /\ NewEntry \in Entry /\ ~NewEntry.valid /\ NewEntry.id = op.id
    <3>1. op.key \in Keys /\ op.val \in Vals
      BY <1>1, <2>1 DEF SetInProgress
    <3> QED BY <1>1, <3>1, ConstAssumption DEF NewEntry, Entry, Op, Payload
  <2>3. /\ KeysOK(M) /\ LiveKeys(M) = LiveKeys(L) /\ \A i \in LiveKeys(L) : M[i] = L[i]
        /\ M[Len(L) + 1] = NewEntry /\ Len(M) = Len(L) + 1
    <3>1. ~ Live(NewEntry)
      BY <2>2 DEF Live
    <3>2. /\ KeysOK(M) /\ \A i \in LiveKeys(L) : M[i] = L[i] /\ M[Len(L) + 1] = NewEntry
          /\ M[Len(L) + 1] = NewEntry
          /\ LiveKeys(M) = LiveKeys(L) \cup {i \in {Len(L) + 1} : Live(NewEntry) /\ ~NewEntry.value}
      BY <1>1, <2>2, <3>1, KeysAppend
    <3>3. Len(M) = Len(L) + 1
      BY <1>1, <2>2
    <3> HIDE DEF M
    <3> QED BY <3>1, <3>2, <3>3
  <2> HIDE DEF M
  <2>4. log'[cur] = M /\ \A r \in Region : KeysOK(log'[r])
    BY <1>2, <2>1, <2>3
  <2>5. op.what = "key" => NewKeyOK(op, M)
    BY <2>1, <2>3 DEF KeysInv, Writes, NewKeyOK
  <2>6. M[Len(M)].id = op.id
    BY <2>2, <2>3
  <2> QED BY <2>1, <2>4, <2>5, <2>6 DEF KeysInv, Compacting, Writes, Tip
<1>4. CASE WritePayload
  <2> DEFINE e == [L[Tip] EXCEPT !.data = datum]
             M == [L EXCEPT ![Tip] = e]
  <2>1. /\ pc = "payload" /\ pc' = "valid" /\ log' = [log EXCEPT ![cur] = M] /\ UNCHANGED <<cur, op>>
    BY <1>1, <1>4 DEF WritePayload, TypeOK
  <2>2. /\ Tip \in DOMAIN L /\ ~L[Tip].valid /\ L[Tip] \in Entry /\ L[Tip].id = op.id
        /\ datum \in Payload
    <3>1. op.key \in Keys /\ op.val \in Vals
      BY <1>1, <2>1 DEF SetInProgress
    <3> QED BY <1>1, <2>1, <3>1 DEF HalfWritten, KeysInv, Writes, Payload
  <2>3. e \in Entry /\ ~e.valid /\ e.id = op.id
    BY <2>2 DEF Entry
  <2> HIDE DEF e
  <2>4. /\ KeysOK(M) /\ LiveKeys(M) = LiveKeys(L) /\ \A j \in LiveKeys(L) : M[j] = L[j]
    <3>1. Tip \notin LiveKeys(L) /\ ~ (Live(e) /\ ~e.value)
      BY <2>2, <2>3 DEF LiveKeys, Live
    <3> QED BY <1>1, <2>2, <2>3, <3>1, KeysTip
  <2>5. Len(M) = Len(L) /\ M[Tip] = e
    BY <1>1, <2>2
  <2> HIDE DEF M
  <2>6. log'[cur] = M /\ \A r \in Region : KeysOK(log'[r])
    BY <1>2, <2>1, <2>4
  <2>7. op.what = "key" => NewKeyOK(op, M)
    BY <2>1, <2>4 DEF KeysInv, Writes, NewKeyOK
  <2>8. M[Len(M)].id = op.id
    BY <2>3, <2>5 DEF Tip
  <2> QED BY <2>1, <2>6, <2>7, <2>8 DEF KeysInv, Compacting, Writes, Tip
<1>5. pc = "valid" => KeysOK([L EXCEPT ![Tip].valid = TRUE])
  <2> SUFFICES ASSUME pc = "valid" PROVE KeysOK([L EXCEPT ![Tip].valid = TRUE])
    OBVIOUS
  <2> DEFINE e == [L[Tip] EXCEPT !.valid = TRUE]
  <2>1. /\ Tip \in DOMAIN L /\ ~L[Tip].valid /\ L[Tip] \in Entry /\ L[Tip].id = op.id
        /\ L[Tip].data = datum /\ L[Tip].value = (op.what = "val") /\ op.what \in {"key", "val"}
    BY <1>1 DEF HalfWritten, SetInProgress, KeysInv, Writes
  <2>2. /\ e \in Entry /\ e.id = op.id /\ e.data = datum /\ e.value = (op.what = "val")
    BY <2>1 DEF Entry
  <2> HIDE DEF e
  <2>3. op.what = "key" => NewKeyOK(op, L)
    BY DEF KeysInv, Writes
  <2>4. ~e.value => /\ e.id \in 1 .. MaxKeyId
                    /\ \A i \in LiveKeys(L) : L[i].id < e.id /\ L[i].data # e.data
    <3> SUFFICES ASSUME op.what = "key"
                 PROVE  /\ op.id \in 1 .. MaxKeyId
                        /\ \A i \in LiveKeys(L) : L[i].id < op.id /\ L[i].data # op.key
      BY <2>1, <2>2
    <3> QED BY <2>3 DEF NewKeyOK
  <2>5. Tip \notin LiveKeys(L) /\ Tip = Len(L)
    BY <2>1 DEF LiveKeys, Live, Tip
  <2>6. KeysOK([L EXCEPT ![Tip] = e])
    BY <1>1, <2>1, <2>2, <2>4, <2>5, KeysTipValid
  <2> QED BY <2>6 DEF e
<1>6. CASE SetValid
  <2>1. /\ log' = [log EXCEPT ![cur] = [L EXCEPT ![Tip].valid = TRUE]] /\ pc = "valid"
        /\ \/ pc' \in {"delete", "idle"}
           \/ pc' = "hdr" /\ op'.what = "val"
    <3>1. op.what = "key" => op' = [op EXCEPT !.what = "val"] /\ pc' = "hdr"
      BY <1>6 DEF SetValid
    <3>2. op.what # "key" => pc' \in {"delete", "idle"}
      BY <1>6 DEF SetValid, Finish
    <3>3. log' = [log EXCEPT ![cur] = [L EXCEPT ![Tip].valid = TRUE]] /\ pc = "valid"
      BY <1>1, <1>6 DEF SetValid, TypeOK
    <3> QED BY <1>1, <3>1, <3>2, <3>3 DEF Op
  <2>2. \A r \in Region : KeysOK(log'[r])
    BY <1>2, <1>5, <2>1
  <2>3. pc' = "hdr" => op'.what # "key"
    BY <2>1
  <2> QED BY <2>1, <2>2, <2>3 DEF KeysInv, Compacting, Writes
<1>7. \A r \in Region : KeysOK(Deleted[r])
  <2> DEFINE q == op.old.r
             M == [log[q] EXCEPT ![op.old.i].alive = FALSE]
  <2>1. q \in Region
    BY <1>1 DEF Op
  <2>2. Deleted = [log EXCEPT ![q] = M]
    BY <1>1, <2>1 DEF Deleted, TypeOK
  <2>3. KeysOK(M)
    BY <1>1, <2>1, KeysDelete
  <2> HIDE DEF M
  <2> QED BY <1>1, <2>1, <2>2, <2>3 DEF TypeOK
<1>8. CASE WriteFault
  <2>1. /\ pc' = "idle"
        /\ \/ log' = log
           \/ log' = [log EXCEPT ![cur] = Append(L, Blank)]
           \/ pc = "valid" /\ log' = [log EXCEPT ![cur] = [L EXCEPT ![Tip].valid = TRUE]]
    BY <1>1, <1>8 DEF WriteFault, ZeroHeader, Fault, Finish, TypeOK
  <2>2. KeysOK(Append(L, Blank))
    <3>1. Blank \in Entry /\ ~ Live(Blank)
      BY DEF Blank, Entry, Live, Payload
    <3> QED BY <1>1, <3>1, KeysAppend
  <2>3. \A r \in Region : KeysOK(log'[r])
    BY <1>1, <1>2, <1>5, <2>1, <2>2
  <2> QED BY <2>1, <2>3, KeysRest DEF Compacting, Writes
<1>9. CASE DeleteEntry \/ DeleteFault
  <2>1. log' \in {log, Deleted} /\ pc' = "idle"
    BY <1>9 DEF DeleteEntry, DeleteFault, Fault, Finish
  <2>2. \A r \in Region : KeysOK(log'[r])
    BY <1>1, <1>7, <2>1
  <2> QED BY <2>1, <2>2, KeysRest DEF Compacting, Writes
<1>10. CASE WriteOverLeft
  <2>1. pc' = "idle" /\ log' = [log EXCEPT ![cur] = Append(L, Blank)]
    BY <1>1, <1>10 DEF WriteOverLeft, ZeroHeader, Finish, TypeOK
  <2>2. Blank \in Entry /\ ~ Live(Blank)
    BY DEF Blank, Entry, Live, Payload
  <2>3. KeysOK(Append(L, Blank))
    BY <1>1, <2>2, KeysAppend
  <2>4. \A r \in Region : KeysOK(log'[r])
    BY <1>1, <1>2, <2>1, <2>3
  <2> QED BY <2>1, <2>4, KeysRest DEF Compacting, Writes
<1> QED BY <1>3, <1>4, <1>6, <1>8, <1>9, <1>10 DEF Write

\* Every step.
LEMMA KeysStep == EntriesInv /\ KeysInv /\ [Next]_vars => KeysInv'
<1> SUFFICES ASSUME EntriesInv, KeysInv, [Next]_vars PROVE KeysInv'
  OBVIOUS
<1>1. CASE Crash
  <2>1. pc' = "off" /\ TypeOK /\ cur \in Region
    BY <1>1 DEF Crash, EntriesInv, TypeOK
  <2>2. \A r \in Region : log[r] \in Seq(Entry) /\ KeysOK(log[r])
    BY <2>1 DEF KeysInv, TypeOK
  <2>3. ASSUME NEW e \in Entry, ~Live(e), log' = [log EXCEPT ![cur] = Append(@, e)]
        PROVE  \A r \in Region : KeysOK(log'[r])
    <3>1. KeysOK(Append(log[cur], e))
      BY <2>1, <2>2, <2>3, KeysAppend
    <3> QED BY <2>1, <2>2, <2>3, <3>1 DEF TypeOK
  <2>4. \A r \in Region : KeysOK(log'[r])
    BY <1>1, <2>1, <2>2, <2>3, CrashLog
  <2> QED BY <2>1, <2>4, KeysRest DEF Compacting, Writes
<1>2. CASE UNCHANGED vars
  BY <1>2 DEF vars, KeysInv, KeysOK, CopyOK, CopiedOK, NewKeyOK, Unused, ValuesOf, LiveKeys,
              LiveVals, Live, Alt, Tip
<1> QED BY <1>1, <1>2, KeysBoot, KeysBegin, KeysCompact, KeysWrite DEF Next

LEMMA KeysInit == Init => KeysInv
BY KeysEmpty DEF Init, KeysInv, Compacting, Writes

\* In a region that may be mounted no name has two live key entries, ids go up, and none
\* passes MAX_KEY_ID: sysparam_set_data gives a new key the next id, or compacts first, and
\* _compact_params leaves an id over when it is called because the ids are used up.
THEOREM KeysStayUnique == Spec => []KeysUnique
<1>1. KeysInv => KeysUnique
  BY DEF KeysInv, KeysOK, KeysUnique
<1> QED BY <1>1, KeysInit, EntriesInit, EntriesStep, KeysStep, PTL DEF Spec

-----------------------------------------------------------------------------
(* What readers find in a log                                              *)

\* What an entry appended to a log adds to what readers see.
LEMMA AppendLive ==
  ASSUME NEW L \in Seq(Entry), NEW e \in Entry
  PROVE  LET M == Append(L, e)
             n == Len(L) + 1
         IN  /\ n \in Nat /\ DOMAIN M = 1 .. n /\ DOMAIN L = 1 .. Len(L) /\ Len(L) \in Nat
             /\ n \notin DOMAIN L
             /\ M[n] = e /\ \A i \in DOMAIN L : M[i] = L[i] /\ i < n
             /\ Live(e) /\ ~e.value =>
                  LiveKeys(M) = LiveKeys(L) \cup {n} /\ LiveVals(M) = LiveVals(L)
             /\ Live(e) /\ e.value =>
                  LiveKeys(M) = LiveKeys(L) /\ LiveVals(M) = LiveVals(L) \cup {n}
             /\ ~ Live(e) => LiveKeys(M) = LiveKeys(L) /\ LiveVals(M) = LiveVals(L)
<1> DEFINE M == Append(L, e)
           n == Len(L) + 1
<1>1. /\ DOMAIN M = 1 .. n /\ DOMAIN L = 1 .. Len(L) /\ Len(L) \in Nat
      /\ M[n] = e /\ \A i \in DOMAIN L : M[i] = L[i]
  OBVIOUS
<1>2. n \in Nat /\ n \notin DOMAIN L /\ DOMAIN M = DOMAIN L \cup {n} /\ \A i \in DOMAIN L : i < n
  BY <1>1
<1> HIDE DEF M, n
<1>3. /\ LiveKeys(M) = LiveKeys(L) \cup {i \in {n} : Live(e) /\ ~e.value}
      /\ LiveVals(M) = LiveVals(L) \cup {i \in {n} : Live(e) /\ e.value}
  BY <1>1, <1>2 DEF LiveKeys, LiveVals
<1>4. /\ Live(e) /\ ~e.value =>
           LiveKeys(M) = LiveKeys(L) \cup {n} /\ LiveVals(M) = LiveVals(L)
      /\ Live(e) /\ e.value =>
           LiveKeys(M) = LiveKeys(L) /\ LiveVals(M) = LiveVals(L) \cup {n}
      /\ ~ Live(e) => LiveKeys(M) = LiveKeys(L) /\ LiveVals(M) = LiveVals(L)
  BY <1>3
<1> QED BY <1>1, <1>2, <1>4 DEF M, n

\* An entry changed in place.
LEMMA EditLive ==
  ASSUME NEW L \in Seq(Entry), NEW n \in DOMAIN L, NEW e \in Entry
  PROVE  LET M == [L EXCEPT ![n] = e]
         IN  /\ DOMAIN M = DOMAIN L /\ M[n] = e /\ \A i \in DOMAIN L : i # n => M[i] = L[i]
             /\ Live(e) /\ ~e.value =>
                  LiveKeys(M) = LiveKeys(L) \cup {n} /\ LiveVals(M) = LiveVals(L) \ {n}
             /\ Live(e) /\ e.value =>
                  LiveKeys(M) = LiveKeys(L) \ {n} /\ LiveVals(M) = LiveVals(L) \cup {n}
             /\ ~ Live(e) =>
                  LiveKeys(M) = LiveKeys(L) \ {n} /\ LiveVals(M) = LiveVals(L) \ {n}
<1> DEFINE M == [L EXCEPT ![n] = e]
<1>1. DOMAIN M = DOMAIN L /\ M[n] = e /\ \A i \in DOMAIN L : i # n => M[i] = L[i]
  OBVIOUS
<1> HIDE DEF M
<1>2. /\ LiveKeys(M) = (LiveKeys(L) \ {n}) \cup {i \in {n} : Live(e) /\ ~e.value}
      /\ LiveVals(M) = (LiveVals(L) \ {n}) \cup {i \in {n} : Live(e) /\ e.value}
  BY <1>1 DEF LiveKeys, LiveVals
<1>3. /\ Live(e) /\ ~e.value =>
           LiveKeys(M) = LiveKeys(L) \cup {n} /\ LiveVals(M) = LiveVals(L) \ {n}
      /\ Live(e) /\ e.value =>
           LiveKeys(M) = LiveKeys(L) \ {n} /\ LiveVals(M) = LiveVals(L) \cup {n}
      /\ ~ Live(e) =>
           LiveKeys(M) = LiveKeys(L) \ {n} /\ LiveVals(M) = LiveVals(L) \ {n}
  BY <1>2
<1> QED BY <1>1, <1>3 DEF M

\* First of a set with one member.
LEMMA FirstOne ==
  ASSUME NEW i \in Nat \ {0}
  PROVE  First({i}) = i
BY FirstIn, {i} \in SUBSET Nat

\* No two keys have one name.
LEMMA NameFound ==
  ASSUME NEW L \in Seq(Entry), KeysOK(L), NEW i \in LiveKeys(L)
  PROVE  FindKey(L, L[i].data) = i /\ i \in Nat \ {0}
<1> DEFINE k == L[i].data
           S == {j \in LiveKeys(L) : L[j].data = k}
<1>1. LiveKeys(L) \subseteq Nat \ {0}
  BY KeyTypes
<1>2. ASSUME NEW j \in LiveKeys(L), L[j].data = k PROVE j = i
  <2>1. ~ (i < j) /\ ~ (j < i)
    BY <1>2 DEF KeysOK
  <2> QED BY <1>1, <2>1
<1>3. S = {i}
  BY <1>2
<1> QED BY <1>1, <1>3, FirstOne DEF FindKey

\* Readers of a name with one value get it.
LEMMA GetOwn ==
  ASSUME NEW L \in Seq(Entry), KeysOK(L), NEW i \in LiveKeys(L), NEW t, ValuesOf(L, i) = {t}
  PROVE  /\ Get(L, L[i].data) = L[t].data
         /\ FindValue(L, i) = t /\ t \in DOMAIN L /\ t \in LiveVals(L) /\ t \in Nat \ {0}
<1>1. FindKey(L, L[i].data) = i /\ i # 0
  BY NameFound
<1>2. t \in LiveVals(L) /\ t \in DOMAIN L /\ t \in Nat \ {0}
  <2>1. t \in LiveVals(L) /\ LiveVals(L) \subseteq DOMAIN L
    BY DEF ValuesOf, LiveVals
  <2> QED BY <2>1, KeyTypes
<1>3. FindValue(L, i) = t
  BY <1>2, FirstOne DEF FindValue
<1> QED BY <1>1, <1>2, <1>3 DEF Get

\* Readers of a name without key get nothing.
LEMMA GetNone ==
  ASSUME NEW L, NEW k, \A i \in LiveKeys(L) : L[i].data # k
  PROVE  FindKey(L, k) = 0 /\ Get(L, k) = Missing
<1>1. {i \in LiveKeys(L) : L[i].data = k} = {}
  OBVIOUS
<1>2. FindKey(L, k) = 0
  BY <1>1 DEF FindKey, First
<1> QED BY <1>2 DEF Get

-----------------------------------------------------------------------------
(* What readers see of a set                                               *)

\* First of a nonempty set is its least element.
LEMMA FirstLeast ==
  ASSUME NEW S \in SUBSET Nat, S # {}
  PROVE  First(S) \in S /\ \A j \in S : First(S) <= j
BY LeastExists DEF First

\* An element below all others is the first.
LEMMA FirstIs ==
  ASSUME NEW S \in SUBSET Nat, NEW i \in S, \A j \in S : i <= j
  PROVE  First(S) = i
<1>1. First(S) \in S /\ First(S) <= i /\ i <= First(S)
  BY FirstLeast
<1>2. First(S) \in Nat /\ i \in Nat
  BY <1>1
<1> QED BY <1>1, <1>2

\* The values of k that are hidden behind the one readers get.
Hidden(L, k) ==
  LET i == FindKey(L, k)
  IN IF i = 0 THEN {} ELSE {L[j].data : j \in ValuesOf(L, i) \ {FindValue(L, i)}}

\* The keys of L that have a value.
Used(L) == {i \in LiveKeys(L) : ValuesOf(L, i) # {}}

\* Readers of k get the same from both logs, and the same is hidden from them.
Same(L, M, k) == Get(M, k) = Get(L, k) /\ Hidden(M, k) = Hidden(L, k)

\* A name with the same keys, and the same values behind them.
LEMMA ViewSame ==
  ASSUME NEW L \in Seq(Entry), NEW M, NEW k,
         {i \in LiveKeys(M) : M[i].data = k} = {i \in LiveKeys(L) : L[i].data = k},
         \A i \in LiveKeys(L) : L[i].data = k =>
           /\ ValuesOf(M, i) = ValuesOf(L, i)
           /\ \A j \in ValuesOf(L, i) : M[j].data = L[j].data
  PROVE  Same(L, M, k)
<1> DEFINE S == {i \in LiveKeys(L) : L[i].data = k}
           f == FindKey(L, k)
<1>1. S \in SUBSET Nat
  BY KeyTypes
<1>2. f \in S \cup {0} /\ FindKey(M, k) = f
  <2>1. f = First(S) /\ FindKey(M, k) = First(S)
    BY DEF FindKey
  <2> HIDE DEF S, f
  <2> QED BY <1>1, <2>1, FirstIn
<1> HIDE DEF f
<1>3. CASE f = 0
  BY <1>2, <1>3 DEF Same, Get, Hidden, f
<1>4. CASE f # 0
  <2>1. /\ ValuesOf(M, f) = ValuesOf(L, f)
        /\ \A j \in ValuesOf(L, f) : M[j].data = L[j].data
    BY <1>2, <1>4
  <2>2. FindValue(M, f) = FindValue(L, f)
    BY <2>1 DEF FindValue
  <2>3. FindValue(L, f) \in ValuesOf(L, f) \cup {0}
    BY ScanTypes
  <2>4. Get(M, k) = Get(L, k)
    BY <1>2, <2>1, <2>2, <2>3 DEF Get, f
  <2>5. Hidden(M, k) = Hidden(L, k)
    BY <1>2, <2>1, <2>2 DEF Hidden, f
  <2> QED BY <2>4, <2>5 DEF Same
<1> QED BY <1>3, <1>4

\* A log in which readers see the same entries.
LEMMA ViewKept ==
  ASSUME NEW L \in Seq(Entry), NEW M, LiveKeys(M) = LiveKeys(L), LiveVals(M) = LiveVals(L),
         \A i \in LiveKeys(L) \cup LiveVals(L) : M[i].id = L[i].id /\ M[i].data = L[i].data
  PROVE  /\ \A i \in LiveKeys(L) : ValuesOf(M, i) = ValuesOf(L, i)
         /\ \A k : Same(L, M, k)
<1>1. ASSUME NEW i \in LiveKeys(L)
      PROVE  ValuesOf(M, i) = ValuesOf(L, i) /\ \A j \in ValuesOf(L, i) : M[j].data = L[j].data
  BY DEF ValuesOf
<1>2. ASSUME NEW k PROVE Same(L, M, k)
  <2>1. {i \in LiveKeys(M) : M[i].data = k} = {i \in LiveKeys(L) : L[i].data = k}
    OBVIOUS
  <2> QED BY <1>1, <2>1, ViewSame
<1> QED BY <1>1, <1>2

\* What readers see of the key at i.
LEMMA KeyView ==
  ASSUME NEW L \in Seq(Entry), KeysOK(L), NEW i \in LiveKeys(L)
  PROVE  LET k == L[i].data
             v == FindValue(L, i)
         IN  /\ FindKey(L, k) = i /\ i \in Nat \ {0}
             /\ ValuesOf(L, i) \subseteq LiveVals(L) /\ LiveVals(L) \subseteq DOMAIN L
             /\ DOMAIN L \subseteq Nat \ {0}
             /\ ValuesOf(L, i) = {} => v = 0 /\ Get(L, k) = Missing /\ Hidden(L, k) = {}
             /\ ValuesOf(L, i) # {} =>
                  /\ v \in ValuesOf(L, i) /\ v \in Nat \ {0} /\ \A j \in ValuesOf(L, i) : v <= j
                  /\ Get(L, k) = L[v].data
                  /\ Hidden(L, k) = {L[j].data : j \in ValuesOf(L, i) \ {v}}
<1> DEFINE k == L[i].data
           v == FindValue(L, i)
<1>1. FindKey(L, k) = i /\ i \in Nat \ {0}
  BY NameFound
<1>2. /\ ValuesOf(L, i) \subseteq LiveVals(L) /\ LiveVals(L) \subseteq DOMAIN L
      /\ DOMAIN L \subseteq Nat \ {0}
  BY ScanTypes, KeyTypes
<1>3. CASE ValuesOf(L, i) = {}
  <2>1. v = 0
    BY <1>3 DEF FindValue, First
  <2> QED BY <1>1, <1>2, <1>3, <2>1 DEF Get, Hidden
<1>4. CASE ValuesOf(L, i) # {}
  <2>1. v \in ValuesOf(L, i) /\ \A j \in ValuesOf(L, i) : v <= j
    BY <1>2, <1>4, FirstLeast DEF FindValue
  <2>2. v \in Nat \ {0}
    BY <1>2, <2>1
  <2> QED BY <1>1, <1>2, <1>4, <2>1, <2>2 DEF Get, Hidden
<1> QED BY <1>3, <1>4

\* What readers see of a name without key.
LEMMA NoKeyView ==
  ASSUME NEW L, NEW k, \A i \in LiveKeys(L) : L[i].data # k
  PROVE  Get(L, k) = Missing /\ Hidden(L, k) = {}
BY GetNone DEF Hidden

\* One live key has one name and one id.
LEMMA OneKey ==
  ASSUME NEW L \in Seq(Entry), KeysOK(L), NEW i \in LiveKeys(L), NEW j \in LiveKeys(L),
         L[i].id = L[j].id \/ L[i].data = L[j].data
  PROVE  i = j
<1>1. i \in Nat /\ j \in Nat /\ L[i].id \in Nat /\ L[j].id \in Nat
  BY KeyTypes
<1>2. ~ (i < j) /\ ~ (j < i)
  BY <1>1 DEF KeysOK
<1> QED BY <1>1, <1>2

\* A new key is completed behind everything else: nobody sees it yet.
LEMMA ViewNewKey ==
  ASSUME NEW L \in Seq(Entry), NEW M \in Seq(Entry), KeysOK(M), NEW n \in Nat,
         LiveKeys(M) = LiveKeys(L) \cup {n}, LiveVals(M) = LiveVals(L),
         \A i \in LiveKeys(L) \cup LiveVals(L) : M[i] = L[i] /\ i < n,
         \A i \in LiveKeys(L) : L[i].data # M[n].data
  PROVE  /\ ValuesOf(M, n) = {}
         /\ \A i \in LiveKeys(L) : ValuesOf(M, i) = ValuesOf(L, i)
         /\ \A k : Same(L, M, k)
<1>1. ValuesOf(M, n) = {}
  <2>1. \A j \in LiveVals(L) : ~ (j > n)
    <3>1. \A j \in LiveVals(L) : j \in Nat /\ j < n
      BY KeyTypes DEF LiveVals
    <3> QED BY <3>1
  <2> QED BY <2>1 DEF ValuesOf
<1>2. ASSUME NEW i \in LiveKeys(L)
      PROVE  ValuesOf(M, i) = ValuesOf(L, i) /\ \A j \in ValuesOf(L, i) : M[j].data = L[j].data
  BY DEF ValuesOf
<1>3. ASSUME NEW k PROVE Same(L, M, k)
  <2>1. CASE k = M[n].data
    <3>1. Get(L, k) = Missing /\ Hidden(L, k) = {}
      BY <2>1, NoKeyView
    <3>2. Get(M, k) = Missing /\ Hidden(M, k) = {}
      BY <1>1, <2>1, KeyView
    <3> QED BY <3>1, <3>2 DEF Same
  <2>2. CASE k # M[n].data
    <3>1. {i \in LiveKeys(M) : M[i].data = k} = {i \in LiveKeys(L) : L[i].data = k}
      BY <2>2
    <3> QED BY <1>2, <3>1, ViewSame
  <2> QED BY <2>1, <2>2
<1> QED BY <1>1, <1>2, <1>3

\* A value is completed behind everything else: readers get it if its key had none, else it
\* is hidden.
LEMMA ViewNewValue ==
  ASSUME NEW L \in Seq(Entry), KeysOK(L), NEW M \in Seq(Entry), KeysOK(M), NEW n \in Nat,
         LiveKeys(M) = LiveKeys(L), LiveVals(M) = LiveVals(L) \cup {n},
         \A j \in LiveKeys(L) \cup LiveVals(L) : M[j] = L[j] /\ j < n,
         NEW i \in LiveKeys(L), M[n].id = L[i].id
  PROVE  LET k == L[i].data
         IN  /\ ValuesOf(M, i) = ValuesOf(L, i) \cup {n}
             /\ \A x : x # k => Same(L, M, x)
             /\ ValuesOf(L, i) = {} =>
                  /\ Get(L, k) = Missing /\ Get(M, k) = M[n].data
                  /\ Hidden(L, k) = {} /\ Hidden(M, k) = {}
             /\ ValuesOf(L, i) # {} =>
                  /\ FindValue(M, i) = FindValue(L, i) /\ Get(M, k) = Get(L, k)
                  /\ Hidden(M, k) = Hidden(L, k) \cup {M[n].data}
<1> DEFINE k == L[i].data
<1>1. ASSUME NEW j \in LiveKeys(L)
      PROVE  /\ j # i => ValuesOf(M, j) = ValuesOf(L, j)
             /\ \A t \in ValuesOf(L, j) : M[t] = L[t]
  <2>1. j # i => L[j].id # L[i].id
    BY OneKey
  <2> QED BY <2>1 DEF ValuesOf
<1>2. ValuesOf(M, i) = ValuesOf(L, i) \cup {n}
  <2>1. n > i /\ M[i] = L[i]
    BY KeyTypes
  <2> QED BY <2>1 DEF ValuesOf
<1>3. ASSUME NEW x, x # k PROVE Same(L, M, x)
  <2>1. {j \in LiveKeys(M) : M[j].data = x} = {j \in LiveKeys(L) : L[j].data = x}
    OBVIOUS
  <2> QED BY <1>1, <1>3, <2>1, ViewSame
<1>4. M[i] = L[i] /\ n \notin LiveVals(L) /\ i \in LiveKeys(M)
  BY KeyTypes DEF LiveVals
<1>5. CASE ValuesOf(L, i) = {}
  <2>1. Get(L, k) = Missing /\ Hidden(L, k) = {}
    BY <1>5, KeyView
  <2>2. ValuesOf(M, i) = {n}
    BY <1>2, <1>5
  <2>3. /\ FindValue(M, i) \in {n} /\ Get(M, k) = M[FindValue(M, i)].data
        /\ Hidden(M, k) = {M[j].data : j \in {n} \ {FindValue(M, i)}}
    BY <1>4, <2>2, KeyView
  <2>4. Get(M, k) = M[n].data /\ Hidden(M, k) = {}
    BY <2>3
  <2> QED BY <1>2, <1>3, <1>5, <2>1, <2>4
<1>6. CASE ValuesOf(L, i) # {}
  <2> DEFINE v == FindValue(L, i)
  <2>1. /\ v \in ValuesOf(L, i) /\ v \in Nat \ {0} /\ \A j \in ValuesOf(L, i) : v <= j
        /\ ValuesOf(L, i) \subseteq LiveVals(L)
        /\ Get(L, k) = L[v].data /\ Hidden(L, k) = {L[j].data : j \in ValuesOf(L, i) \ {v}}
    BY <1>6, KeyView
  <2>2. FindValue(M, i) = v
    <3>1. ValuesOf(M, i) \in SUBSET Nat
      BY KeyTypes DEF ValuesOf, LiveVals
    <3>2. v \in ValuesOf(M, i) /\ \A j \in ValuesOf(M, i) : v <= j
      <4>1. v < n
        BY <2>1
      <4> HIDE DEF v
      <4> QED BY <1>2, <2>1, <4>1
    <3> HIDE DEF v
    <3> QED BY <3>1, <3>2, FirstIs DEF FindValue
  <2>3. /\ Get(M, k) = M[v].data /\ Hidden(M, k) = {M[j].data : j \in ValuesOf(M, i) \ {v}}
    BY <1>2, <1>4, <2>2, KeyView
  <2> HIDE DEF v
  <2>4. ValuesOf(M, i) \ {v} = (ValuesOf(L, i) \ {v}) \cup {n}
    BY <1>2, <1>4, <2>1
  <2>5. \A j \in ValuesOf(L, i) : M[j] = L[j]
    BY <1>1
  <2>6. Get(M, k) = Get(L, k)
    BY <2>1, <2>3, <2>5
  <2>7. Hidden(M, k) = Hidden(L, k) \cup {M[n].data}
    BY <2>1, <2>3, <2>4, <2>5
  <2> QED BY <1>2, <1>3, <1>6, <2>2, <2>6, <2>7 DEF v
<1> QED BY <1>5, <1>6

\* The value that readers get is deleted: they get one that was hidden, if there was any.
LEMMA ViewPromoted ==
  ASSUME NEW L \in Seq(Entry), KeysOK(L), NEW M \in Seq(Entry), KeysOK(M),
         NEW i \in LiveKeys(L), ValuesOf(L, i) # {},
         LiveKeys(M) = LiveKeys(L), LiveVals(M) = LiveVals(L) \ {FindValue(L, i)},
         \A j \in LiveKeys(L) \cup LiveVals(L) : M[j].id = L[j].id /\ M[j].data = L[j].data
  PROVE  LET k == L[i].data
             v == FindValue(L, i)
         IN  /\ \A x : x # k => Same(L, M, x)
             /\ \A j \in ValuesOf(L, i) : j # v => L[j].data \in Hidden(L, k)
             /\ \/ Get(M, k) = Missing /\ Hidden(L, k) = {} /\ Hidden(M, k) = {}
                \/ /\ Get(M, k) \in Hidden(L, k) /\ Hidden(M, k) \subseteq Hidden(L, k)
                   /\ Hidden(L, k) \ {Get(M, k)} \subseteq Hidden(M, k)
<1> DEFINE k == L[i].data
           v == FindValue(L, i)
<1>1. /\ v \in ValuesOf(L, i)
      /\ Hidden(L, k) = {L[j].data : j \in ValuesOf(L, i) \ {v}}
      /\ ValuesOf(L, i) \subseteq LiveVals(L)
  BY KeyView
<1>2. ASSUME NEW j \in LiveKeys(L), j # i
      PROVE  ValuesOf(M, j) = ValuesOf(L, j)
  <2>1. L[j].id # L[i].id
    BY <1>2, OneKey
  <2>2. v \notin ValuesOf(L, j)
    BY <1>1, <2>1 DEF ValuesOf
  <2> HIDE DEF v
  <2> QED BY <2>2 DEF ValuesOf, v
<1>3. ASSUME NEW x, x # k PROVE Same(L, M, x)
  <2>1. {j \in LiveKeys(M) : M[j].data = x} = {j \in LiveKeys(L) : L[j].data = x}
    OBVIOUS
  <2>2. \A j \in LiveKeys(L) : \A t \in ValuesOf(L, j) : M[t].data = L[t].data
    BY DEF ValuesOf
  <2> QED BY <1>2, <1>3, <2>1, <2>2, ViewSame
<1>4. ValuesOf(M, i) = ValuesOf(L, i) \ {v}
  BY DEF ValuesOf
<1>5. M[i].data = k /\ i \in LiveKeys(M)
  OBVIOUS
<1>6. \A j \in ValuesOf(L, i) : M[j].data = L[j].data
  BY <1>1
<1>7. \A j \in ValuesOf(L, i) : j # v => L[j].data \in Hidden(L, k)
  BY <1>1
<1> HIDE DEF v
<1>8. CASE ValuesOf(M, i) = {}
  <2>1. Get(M, k) = Missing /\ Hidden(M, k) = {}
    <3>1. Get(M, M[i].data) = Missing
      BY <1>5, <1>8, KeyView
    <3>2. Hidden(M, M[i].data) = {}
      BY <1>5, <1>8, KeyView
    <3> QED BY <1>5, <3>1, <3>2
  <2>2. Hidden(L, k) = {}
    <3>1. ValuesOf(L, i) \ {v} = {}
      BY <1>4, <1>8
    <3>2. Hidden(L, k) = {L[j].data : j \in ValuesOf(L, i) \ {v}}
      BY <1>1
    <3> HIDE DEF k
    <3> QED BY <3>1, <3>2
  <2>3. \/ Get(M, k) = Missing /\ Hidden(L, k) = {} /\ Hidden(M, k) = {}
        \/ /\ Get(M, k) \in Hidden(L, k) /\ Hidden(M, k) \subseteq Hidden(L, k)
           /\ Hidden(L, k) \ {Get(M, k)} \subseteq Hidden(M, k)
    BY <2>1, <2>2
  <2> QED BY <1>3, <1>7, <2>3 DEF v
<1>9. CASE ValuesOf(M, i) # {}
  <2> DEFINE w == FindValue(M, i)
  <2>1. /\ w \in ValuesOf(M, i) /\ Get(M, k) = M[w].data
        /\ Hidden(M, k) = {M[j].data : j \in ValuesOf(M, i) \ {w}}
    BY <1>5, <1>9, KeyView
  <2> HIDE DEF w
  <2>2. w \in ValuesOf(L, i) \ {v} /\ Get(M, k) = L[w].data
    BY <1>4, <1>6, <2>1
  <2>3. Get(M, k) \in Hidden(L, k)
    BY <1>1, <2>2
  <2>4. Hidden(M, k) = {L[j].data : j \in (ValuesOf(L, i) \ {v}) \ {w}}
    BY <1>4, <1>6, <2>1
  <2>5. Hidden(M, k) \subseteq Hidden(L, k) /\ Hidden(L, k) \ {Get(M, k)} \subseteq Hidden(M, k)
    BY <1>1, <2>2, <2>4
  <2> QED BY <1>3, <1>7, <2>3, <2>5 DEF v
<1> QED BY <1>8, <1>9

-----------------------------------------------------------------------------
(* What a set knows.  The value it will delete is the one that readers get, *)
(* the id it writes under is its key's, and a compaction carries over every *)
(* other key with the value that readers get.                               *)

\* The key o is about has the id o says.
OwnKey(o, L) == \E i \in LiveKeys(L) : L[i].data = o.key /\ L[i].id = o.id

\* While L is compacted, the key the set is about is the one with the id it knows, among
\* those that are still to be copied.
OwnAhead(o, L) ==
  \A i \in LiveKeys(L) : i > o.iter => (o.id # 0 /\ L[i].id = o.id <=> L[i].data = o.key)

\* What has been copied from L to A: each key that has a value, with the value that readers
\* get; the key of the set alone.
CarriedOK(o, L, A) ==
  /\ \A j \in LiveKeys(A) : \E i \in Used(L) :
       /\ i <= o.iter /\ L[i].data = A[j].data
       /\ IF A[j].data = o.key THEN ValuesOf(A, j) = {}
          ELSE \E t \in DOMAIN A : ValuesOf(A, j) = {t} /\ A[t].data = L[FindValue(L, i)].data
  /\ \A i \in Used(L) : i <= o.iter => \E j \in LiveKeys(A) : A[j].data = L[i].data

\* The old value is the first of its key.
OldFirst(o, L) == \E i \in Used(L) : L[i].data = o.key /\ FindValue(L, i) = o.old.i

\* The set knows the value that readers get, or there is none in this region.
OldKnown(o, r, L) ==
  IF o.old # NoAddr /\ o.old.r = r THEN OldFirst(o, L)
  ELSE \A i \in Used(L) : L[i].data # o.key

\* The old value is about to go: it is the one that readers get, and the new one is behind
\* it; or it is in the other region, and readers get the new one.
OldGoes(o, r, L) ==
  IF o.old.r = r
  THEN \E i \in Used(L) : /\ L[i].data = o.key /\ FindValue(L, i) = o.old.i
                          /\ o.val # Missing /\ spoilt = {} =>
                               \E t \in ValuesOf(L, i) : t # o.old.i /\ L[t].data = o.val
  ELSE spoilt = {} => Get(L, o.key) = o.val

SetInv ==
  /\ pc \in Setting => op.key \in Keys
  /\ pc \notin Setting => op = NoOp
  /\ pc = "format" => op.iter = 0
  /\ pc \in Compacting => OwnAhead(op, log[cur]) /\ (op.old = NoAddr \/ op.old.r = cur)
  /\ pc \in Compacting \ {"format"} => CarriedOK(op, log[cur], log[Alt(cur)])
  /\ pc \in {"newHdr", "oldHdr"} => \A i \in Used(log[cur]) : i <= op.iter
  /\ pc \in Writes => op.id # 0 /\ OldKnown(op, cur, log[cur])
  /\ pc \in Writes \ {"hdr"} =>
       /\ log[cur][Tip].alive
       /\ op.what = "val" /\ spoilt = {} => OwnKey(op, log[cur])
  /\ pc = "delete" => OldGoes(op, cur, log[cur])

\* Outside a set there is nothing to know.
LEMMA SetRest ==
  ASSUME pc' \notin Setting, op' = NoOp
  PROVE  SetInv'
BY DEF SetInv, Setting, Compacting, Writes

\* What the scans at the start of a set have found.
LEMMA OldFound ==
  ASSUME TypeOK, KeysOK(log[cur]), NEW k \in Keys, NEW v \in Vals \cup {Missing}
  PROVE  LET o == Args(k, v)
         IN  /\ o \in Op /\ o.key = k /\ o.val = v /\ o.iter = 0 /\ o.id = IdOf(k)
             /\ OwnAhead(o, log[cur]) /\ (o.old = NoAddr \/ o.old.r = cur)
             /\ OldKnown(o, cur, log[cur])
             /\ OldValue(k) # 0 => o.old.r = cur /\ OldFirst(o, log[cur])
<1> DEFINE L == log[cur]
           S == {i \in LiveKeys(L) : L[i].data = k}
           f == FindKey(L, k)
           o == Args(k, v)
<1>1. L \in Seq(Entry) /\ cur \in Region
  BY DEF TypeOK
<1>2. /\ o \in Op /\ o.key = k /\ o.val = v /\ o.id = IdOf(k) /\ o.iter = 0
      /\ o.old = IF OldValue(k) = 0 THEN NoAddr ELSE [r |-> cur, i |-> OldValue(k)]
  <2>1. o.old = IF OldValue(k) = 0 THEN NoAddr ELSE [r |-> cur, i |-> OldValue(k)]
    BY DEF Args, NoOp
  <2> QED BY <2>1, ArgsType, ArgsFields
<1> HIDE DEF o
<1>3. S \in SUBSET Nat /\ 0 \notin S /\ LiveKeys(L) \subseteq Nat \ {0}
  BY <1>1, KeyTypes
<1>4. f = First(S)
  BY DEF FindKey
<1>5. f \in S \cup {0} /\ (f = 0 => S = {})
  <2> HIDE DEF S, f
  <2> QED BY <1>3, <1>4, FirstIn
<1> HIDE DEF f
<1>6. IdOf(k) = (IF f = 0 THEN 0 ELSE L[f].id) /\ OldValue(k) = IF f = 0 THEN 0 ELSE FindValue(L, f)
  BY DEF IdOf, OldValue, f
<1>7. OwnAhead(o, L)
  <2>1. CASE f = 0
    <3>1. \A i \in LiveKeys(L) : L[i].data # k
      BY <1>5, <2>1
    <3>2. o.id = 0
      BY <1>2, <1>6, <2>1
    <3> QED BY <1>2, <3>1, <3>2 DEF OwnAhead
  <2>2. CASE f # 0
    <3>1. f \in LiveKeys(L) /\ L[f].data = k
      BY <1>5, <2>2
    <3>2. o.id = L[f].id /\ o.id # 0
      <4>1. L[f].id # 0
        BY <3>1 DEF KeysOK
      <4> QED BY <1>2, <1>6, <2>2, <4>1
    <3>3. \A i \in LiveKeys(L) : L[i].id = L[f].id \/ L[i].data = L[f].data => i = f
      BY <1>1, <3>1, OneKey
    <3> QED BY <1>2, <3>1, <3>2, <3>3 DEF OwnAhead
  <2> QED BY <2>1, <2>2
<1>8. CASE OldValue(k) = 0
  <2>1. \A i \in Used(L) : L[i].data # k
    <3> SUFFICES ASSUME NEW i \in Used(L), L[i].data = k PROVE FALSE
      OBVIOUS
    <3>1. i \in LiveKeys(L) /\ ValuesOf(L, i) # {}
      BY DEF Used
    <3>2. f = i /\ i # 0 /\ FindValue(L, i) # 0
      BY <1>1, <3>1, KeyView DEF f
    <3> QED BY <1>6, <1>8, <3>2
  <2>2. OldKnown(o, cur, L)
    BY <1>2, <1>8, <2>1 DEF OldKnown
  <2> QED BY <1>2, <1>7, <1>8, <2>2 DEF o
<1>9. CASE OldValue(k) # 0
  <2>1. f # 0 /\ f \in LiveKeys(L) /\ L[f].data = k /\ FindValue(L, f) = OldValue(k)
    BY <1>5, <1>6, <1>9
  <2>2. ValuesOf(L, f) # {}
    BY <1>9, <2>1 DEF FindValue, First
  <2>3. o.old.r = cur /\ o.old.i = OldValue(k) /\ o.old # NoAddr
    <3>1. o.old = [r |-> cur, i |-> OldValue(k)]
      BY <1>2, <1>9
    <3> QED BY <1>9, <3>1 DEF NoAddr
  <2>4. OldFirst(o, L)
    BY <1>2, <2>1, <2>2, <2>3 DEF OldFirst, Used
  <2>5. OldKnown(o, cur, L)
    BY <2>3, <2>4 DEF OldKnown
  <2> QED BY <1>2, <1>7, <2>3, <2>4, <2>5 DEF o
<1> QED BY <1>8, <1>9

\* The fields that Writing leaves alone, and the id it settles.
LEMMA WritingFields ==
  ASSUME NEW o \in Op, NEW n \in Nat
  PROVE  LET w == Writing(o, n)
         IN  w.key = o.key /\ w.val = o.val /\ w.old = o.old /\ w.id # 0
<1>1. CASE o.id = 0
  BY <1>1 DEF Writing, Op
<1>2. CASE o.id # 0
  BY <1>2 DEF Writing, Op
<1> QED BY <1>1, <1>2

\* A boot knows of no set.
LEMMA SetBoot ==
  ASSUME SetInv, Boot
  PROVE  SetInv'
<1>1. pc \notin Setting /\ pc' \notin Setting /\ UNCHANGED op
  BY DEF Boot, BootMount, BootRecover, BootNotFound, RecreateFormat, RecreateHeader,
         CreateActive, CreateStale, BootFault, Setting
<1>2. op' = NoOp
  BY <1>1 DEF SetInv
<1> QED BY <1>1, <1>2, SetRest

\* A set starts from what the scans have found.
LEMMA SetBegin ==
  ASSUME EntriesInv, KeysInv, SetInv, Begin
  PROVE  SetInv'
<1>1. TypeOK /\ KeysOK(log[cur]) /\ LastKeyId(log[cur]) \in Nat
  BY FindTypes DEF EntriesInv, TypeOK, KeysInv
<1>2. UNCHANGED <<log, cur>> /\ log'[cur'] = log[cur]
  BY DEF Begin, SetDelete, SetWrite, SetCompact, SetFull, ScanToEnd, flash
<1>3. ASSUME NEW k \in Keys, SetDelete(k) PROVE SetInv'
  <2> DEFINE o == Args(k, Missing)
  <2>1. op' = o /\ pc' = "delete" /\ OldValue(k) # 0
    BY <1>3 DEF SetDelete
  <2>2. o.key = k /\ o.val = Missing /\ o.old.r = cur /\ OldFirst(o, log[cur])
    BY <1>1, <2>1, OldFound
  <2> HIDE DEF o
  <2>3. OldGoes(op, cur, log[cur])'
    BY <1>2, <2>1, <2>2 DEF OldGoes, OldFirst
  <2> QED BY <2>1, <2>2, <2>3 DEF SetInv, Setting, Compacting, Writes
<1>4. ASSUME NEW k \in Keys, NEW v \in Vals, SetFull(k, v) PROVE SetInv'
  <2>1. pc' = "idle" /\ op' = NoOp
    BY <1>4 DEF SetFull, Finish
  <2> QED BY <2>1, SetRest DEF Setting
<1>5. ASSUME NEW k \in Keys, NEW v \in Vals, SetWrite(k, v) PROVE SetInv'
  <2> DEFINE o == Args(k, v)
  <2>1. op' = Writing(o, LastKeyId(log[cur])) /\ pc' = "hdr"
    BY <1>5 DEF SetWrite
  <2>2. o \in Op /\ o.key = k /\ OldKnown(o, cur, log[cur])
    BY <1>1, OldFound
  <2> HIDE DEF o
  <2>3. op'.key = k /\ op'.old = o.old /\ op'.id # 0
    BY <1>1, <2>1, <2>2, WritingFields
  <2>4. OldKnown(op', cur', log'[cur'])
    BY <1>2, <2>2, <2>3 DEF OldKnown, OldFirst
  <2> QED BY <2>1, <2>3, <2>4 DEF SetInv, Setting, Compacting, Writes
<1>6. ASSUME NEW k \in Keys, NEW v \in Vals, SetCompact(k, v) PROVE SetInv'
  <2> DEFINE o == Args(k, v)
  <2>1. op' = [o EXCEPT !.site = Plan(k, v), !.need = Needed(k, v)] /\ pc' = "format"
    BY <1>6 DEF SetCompact
  <2>2. /\ o \in Op /\ o.key = k /\ o.iter = 0 /\ OwnAhead(o, log[cur])
        /\ o.old = NoAddr \/ o.old.r = cur
    BY <1>1, OldFound
  <2> HIDE DEF o
  <2>3. op'.key = k /\ op'.old = o.old /\ op'.id = o.id /\ op'.iter = 0
    BY <2>1, <2>2 DEF Op
  <2>4. OwnAhead(op', log'[cur'])
    BY <1>2, <2>2, <2>3 DEF OwnAhead
  <2> QED BY <1>2, <2>1, <2>2, <2>3, <2>4 DEF SetInv, Setting, Compacting, Writes
<1>7. CASE ScanToEnd
  <2>1. pc' = "idle" /\ op' = NoOp
    BY <1>7 DEF ScanToEnd, SetInv, Setting
  <2> QED BY <2>1, SetRest DEF Setting
<1> QED BY <1>3, <1>4, <1>5, <1>6, <1>7 DEF Begin

-----------------------------------------------------------------------------
(* A compaction carries every other key over                               *)

\* A scan turns up a value exactly for a key that has one.
LEMMA UsedIs ==
  ASSUME NEW L \in Seq(Entry), NEW i \in LiveKeys(L)
  PROVE  /\ i \in Nat \ {0}
         /\ i \in Used(L) <=> i \notin Unused(L)
BY KeyTypes DEF Used, Unused

\* One turn of the loop.
LEMMA CarryTurn ==
  ASSUME NEW L \in Seq(Entry), KeysOK(L), NEW A \in Seq(Entry), KeysOK(A),
         NEW o \in Op, NEW p \in Op, CopyOK(o, L), CopiedOK(o, L, A),
         OwnAhead(o, L), CarriedOK(o, L, A),
         NEW i \in LiveKeys(L) \ Unused(L), o.iter < i,
         \A j \in Used(L) : j <= o.iter \/ i <= j,
         NEW key \in Entry, Live(key), ~key.value, key.id = o.n + 1, key.data = L[i].data,
         NEW val \in Entry, Live(val), val.value, val.id = o.n + 1,
         val.data = L[FindValue(L, i)].data,
         NEW own, own = (o.id # 0 /\ L[i].id = o.id),
         p.key = o.key, p.site = o.site, p.iter = i, p.n = o.n + 1,
         p.id = IF own THEN o.n + 1 ELSE o.id
  PROVE  /\ OwnAhead(p, L)
         /\ CarriedOK(p, L, IF own THEN Append(A, key) ELSE Append(Append(A, key), val))
<1> DEFINE B == Append(A, key)
           C == Append(B, val)
           n == o.n + 1
<1>1. /\ o.n \in Nat /\ n \in Nat /\ n # 0 /\ o.iter \in Nat /\ i \in Nat /\ o.id \in Nat
      /\ \A j \in LiveKeys(L) : j \in Nat \ {0} /\ L[j].id \in Nat
      /\ \A j \in LiveKeys(A) : A[j].id \in Nat /\ A[j].id # n
      /\ i \in LiveKeys(L) /\ i \in Used(L)
  <2>1. \A j \in LiveKeys(L) : j \in Nat \ {0} /\ L[j].id \in Nat
    BY KeyTypes
  <2>2. o.n \in Nat /\ o.iter \in Nat /\ o.id \in Nat
    BY DEF Op
  <2>3. \A j \in LiveKeys(A) : A[j].id \in Nat /\ A[j].id <= o.n
    BY KeyTypes DEF CopiedOK
  <2>4. i \in Used(L)
    BY UsedIs
  <2> QED BY <2>1, <2>2, <2>3, <2>4
<1>2. n <= L[i].id
  <2>1. p.id = 0 => o.id = 0
    BY <1>1
  <2>2. CopyOK(p, L)
    BY <2>1, CopyTurn
  <2>3. (p.iter = 0 /\ p.n = 0) \/ p.n <= L[p.iter].id
    BY <2>2 DEF CopyOK
  <2> QED BY <1>1, <2>3
<1>3. own <=> L[i].data = o.key
  BY <1>1 DEF OwnAhead
<1>4. OwnAhead(p, L)
  <2> SUFFICES ASSUME NEW j \in LiveKeys(L), j > i
               PROVE  p.id # 0 /\ L[j].id = p.id <=> L[j].data = o.key
    BY DEF OwnAhead
  <2>1. j > o.iter /\ j \in Nat /\ L[i].id < L[j].id /\ L[i].data # L[j].data
    <3>1. L[i].id < L[j].id /\ L[i].data # L[j].data
      BY <1>1 DEF KeysOK
    <3> QED BY <1>1, <3>1
  <2>2. CASE own
    <3>1. p.id = n /\ L[j].id # n
      BY <1>1, <1>2, <2>1, <2>2
    <3> QED BY <1>3, <2>1, <2>2, <3>1
  <2>3. CASE ~ own
    <3>1. p.id = o.id
      BY <2>3
    <3> QED BY <2>1, <3>1 DEF OwnAhead
  <2> QED BY <2>2, <2>3
<1> DEFINE m == Len(A) + 1
           w == m + 1
<1>5. /\ m \in Nat /\ m \notin DOMAIN A /\ m \in DOMAIN B /\ DOMAIN A \subseteq DOMAIN B
      /\ B[m] = key /\ \A j \in DOMAIN A : B[j] = A[j] /\ j < m
      /\ LiveKeys(B) = LiveKeys(A) \cup {m} /\ LiveVals(B) = LiveVals(A)
      /\ B \in Seq(Entry) /\ Len(B) = m
  <2>1. B \in Seq(Entry) /\ Len(B) = m
    OBVIOUS
  <2>2. /\ m \in Nat /\ DOMAIN B = 1 .. m /\ DOMAIN A = 1 .. Len(A) /\ Len(A) \in Nat
        /\ m \notin DOMAIN A
        /\ B[m] = key /\ \A j \in DOMAIN A : B[j] = A[j] /\ j < m
        /\ LiveKeys(B) = LiveKeys(A) \cup {m} /\ LiveVals(B) = LiveVals(A)
    BY AppendLive
  <2>3. m \in 1 .. m /\ 1 .. Len(A) \subseteq 1 .. m
    BY <2>2
  <2> HIDE DEF B, m
  <2> QED BY <2>1, <2>2, <2>3
<1>6. LiveKeys(A) \subseteq DOMAIN A /\ LiveVals(A) \subseteq DOMAIN A /\ DOMAIN A \subseteq Nat
  BY KeyTypes DEF LiveVals
<1> HIDE DEF B, m, n
<1>7. /\ w \in Nat /\ w \in DOMAIN C /\ DOMAIN B \subseteq DOMAIN C /\ m < w
      /\ C[w] = val /\ \A j \in DOMAIN B : C[j] = B[j] /\ j < w
      /\ LiveKeys(C) = LiveKeys(B) /\ LiveVals(C) = LiveVals(B) \cup {w}
  <2>1. /\ w \in Nat /\ DOMAIN C = 1 .. w /\ DOMAIN B = 1 .. Len(B)
        /\ C[w] = val /\ \A j \in DOMAIN B : C[j] = B[j] /\ j < w
        /\ LiveKeys(C) = LiveKeys(B) /\ LiveVals(C) = LiveVals(B) \cup {w}
    BY <1>5, AppendLive
  <2>2. m < w /\ w \in 1 .. w /\ 1 .. m \subseteq 1 .. w
    BY <1>5
  <2> HIDE DEF C, w
  <2> QED BY <1>5, <2>1, <2>2
<1>8. key.id = n /\ val.id = n
  BY DEF n
<1>9. /\ ValuesOf(B, m) = {} /\ \A j \in LiveKeys(A) : ValuesOf(B, j) = ValuesOf(A, j)
  <2>1. \A t \in LiveVals(A) : ~ (t > m) /\ B[t] = A[t]
    <3>1. \A t \in LiveVals(A) : t \in Nat /\ t < m /\ B[t] = A[t]
      BY <1>5, <1>6
    <3> QED BY <1>5, <3>1
  <2>2. \A j \in LiveKeys(A) : B[j] = A[j]
    BY <1>5, <1>6
  <2> QED BY <1>5, <2>1, <2>2 DEF ValuesOf
<1>10. /\ ValuesOf(C, m) = {w} /\ \A j \in LiveKeys(A) : ValuesOf(C, j) = ValuesOf(A, j)
  <2>1. \A t \in LiveVals(B) : ~ (t > m) /\ C[t] = B[t]
    <3>1. \A t \in LiveVals(A) : t \in Nat /\ t < m /\ t \in DOMAIN B
      BY <1>5, <1>6
    <3> QED BY <1>5, <1>7, <3>1
  <2>2. C[m] = key /\ C[w] = val /\ w > m
    BY <1>5, <1>7
  <2>3. ValuesOf(C, m) = {w}
    BY <1>7, <1>8, <2>1, <2>2 DEF ValuesOf
  <2>4. ASSUME NEW j \in LiveKeys(A) PROVE ValuesOf(C, j) = ValuesOf(A, j)
    <3>1. C[j] = B[j] /\ B[j] = A[j] /\ C[w].id # C[j].id
      BY <1>1, <1>5, <1>6, <1>7, <1>8
    <3>2. ValuesOf(C, j) = ValuesOf(B, j)
      BY <1>7, <2>1, <3>1 DEF ValuesOf
    <3> QED BY <1>9, <3>2
  <2> QED BY <2>3, <2>4
<1> DEFINE X == IF own THEN B ELSE C
<1>11. /\ LiveKeys(X) = LiveKeys(A) \cup {m} /\ X[m].data = L[i].data
       /\ DOMAIN A \subseteq DOMAIN X /\ \A j \in DOMAIN A : X[j] = A[j]
       /\ \A j \in LiveKeys(A) : ValuesOf(X, j) = ValuesOf(A, j)
       /\ own => ValuesOf(X, m) = {}
       /\ ~ own => w \in DOMAIN X /\ ValuesOf(X, m) = {w} /\ X[w].data = L[FindValue(L, i)].data
  <2>1. CASE own
    BY <1>5, <1>9, <2>1
  <2>2. CASE ~ own
    BY <1>5, <1>7, <1>10, <2>2
  <2> QED BY <2>1, <2>2
<1> HIDE DEF X, C, w
<1>12. ASSUME NEW j \in LiveKeys(X)
       PROVE  \E k \in Used(L) :
                /\ k <= i /\ L[k].data = X[j].data
                /\ IF X[j].data = o.key THEN ValuesOf(X, j) = {}
                   ELSE \E t \in DOMAIN X : /\ ValuesOf(X, j) = {t}
                                            /\ X[t].data = L[FindValue(L, k)].data
  <2>1. CASE j \in LiveKeys(A)
    <3>1. X[j] = A[j] /\ ValuesOf(X, j) = ValuesOf(A, j)
      BY <1>6, <1>11, <2>1
    <3>2. PICK k \in Used(L) :
            /\ k <= o.iter /\ L[k].data = A[j].data
            /\ IF A[j].data = o.key THEN ValuesOf(A, j) = {}
               ELSE \E t \in DOMAIN A : /\ ValuesOf(A, j) = {t}
                                        /\ A[t].data = L[FindValue(L, k)].data
      BY <2>1 DEF CarriedOK
    <3>3. k <= i
      <4>1. k \in Nat
        BY <1>1 DEF Used
      <4>2. k <= o.iter
        BY <3>2
      <4> QED BY <1>1, <4>1, <4>2
    <3>4. IF X[j].data = o.key THEN ValuesOf(X, j) = {}
          ELSE \E t \in DOMAIN X : /\ ValuesOf(X, j) = {t}
                                   /\ X[t].data = L[FindValue(L, k)].data
      BY <1>11, <3>1, <3>2
    <3> QED BY <3>1, <3>2, <3>3, <3>4
  <2>2. CASE j = m
    <3>1. IF X[m].data = o.key THEN ValuesOf(X, m) = {}
          ELSE \E t \in DOMAIN X : /\ ValuesOf(X, m) = {t}
                                   /\ X[t].data = L[FindValue(L, i)].data
      BY <1>3, <1>11
    <3> QED BY <1>1, <1>11, <2>2, <3>1
  <2> QED BY <1>11, <2>1, <2>2
<1>13. ASSUME NEW k \in Used(L), k <= i
       PROVE  \E j \in LiveKeys(X) : X[j].data = L[k].data
  <2>1. k = i \/ k <= o.iter
    <3>1. k \in Nat
      BY <1>1 DEF Used
    <3> QED BY <1>1, <1>13, <3>1
  <2>2. CASE k = i
    BY <1>11, <2>2
  <2>3. CASE k <= o.iter
    <3>1. PICK j \in LiveKeys(A) : A[j].data = L[k].data
      BY <2>3 DEF CarriedOK
    <3> QED BY <1>6, <1>11, <3>1
  <2> QED BY <2>1, <2>2, <2>3
<1>14. CarriedOK(p, L, X)
  BY <1>12, <1>13 DEF CarriedOK
<1> QED BY <1>4, <1>14 DEF X, C, B

\* What readers find in the region that a compaction has filled: the values they had, but
\* nothing of the key of the set, and nothing hidden.
LEMMA CarriedView ==
  ASSUME NEW L \in Seq(Entry), KeysOK(L), NEW A \in Seq(Entry), KeysOK(A), NEW o,
         CarriedOK(o, L, A), \A i \in Used(L) : i <= o.iter
  PROVE  \A k : Get(A, k) = (IF k = o.key THEN Missing ELSE Get(L, k)) /\ Hidden(A, k) = {}
<1> SUFFICES ASSUME NEW k
             PROVE  Get(A, k) = (IF k = o.key THEN Missing ELSE Get(L, k)) /\ Hidden(A, k) = {}
  OBVIOUS
<1>1. CASE \A j \in LiveKeys(A) : A[j].data # k
  <2>1. Get(A, k) = Missing /\ Hidden(A, k) = {}
    BY <1>1, NoKeyView
  <2>2. \A i \in Used(L) : L[i].data # k
    BY <1>1 DEF CarriedOK
  <2>3. Get(L, k) = Missing
    <3>1. CASE \A i \in LiveKeys(L) : L[i].data # k
      BY <3>1, NoKeyView
    <3>2. CASE \E i \in LiveKeys(L) : L[i].data = k
      <4>1. PICK i \in LiveKeys(L) : L[i].data = k
        BY <3>2
      <4>2. ValuesOf(L, i) = {}
        BY <2>2, <4>1 DEF Used
      <4> QED BY <4>1, <4>2, KeyView
    <3> QED BY <3>1, <3>2
  <2> QED BY <2>1, <2>3
<1>2. CASE \E j \in LiveKeys(A) : A[j].data = k
  <2>1. PICK j \in LiveKeys(A) : A[j].data = k
    BY <1>2
  <2>2. PICK i \in Used(L) :
          /\ L[i].data = k
          /\ IF k = o.key THEN ValuesOf(A, j) = {}
             ELSE \E t \in DOMAIN A : ValuesOf(A, j) = {t} /\ A[t].data = L[FindValue(L, i)].data
    BY <2>1 DEF CarriedOK
  <2>3. CASE k = o.key
    <3>1. Get(A, k) = Missing /\ Hidden(A, k) = {}
      BY <2>1, <2>2, <2>3, KeyView
    <3> QED BY <2>3, <3>1
  <2>4. CASE k # o.key
    <3>1. PICK t \in DOMAIN A : ValuesOf(A, j) = {t} /\ A[t].data = L[FindValue(L, i)].data
      BY <2>2, <2>4
    <3>2. Get(A, k) = A[t].data /\ FindValue(A, j) = t
      BY <2>1, <3>1, GetOwn
    <3>3. Hidden(A, k) = {A[x].data : x \in {t} \ {t}}
      <4>1. ValuesOf(A, j) # {}
        BY <3>1
      <4> QED BY <2>1, <3>1, <3>2, <4>1, KeyView
    <3>4. Get(L, k) = L[FindValue(L, i)].data
      <4>1. i \in LiveKeys(L) /\ ValuesOf(L, i) # {}
        BY DEF Used
      <4> QED BY <2>2, <4>1, KeyView
    <3> QED BY <2>4, <3>1, <3>2, <3>3, <3>4
  <2> QED BY <2>3, <2>4
<1> QED BY <1>1, <1>2

\* A compaction of the set.
LEMMA SetCompacting ==
  ASSUME EntriesInv, KeysInv, SetInv, Compact
  PROVE  SetInv'
<1> DEFINE L == log[cur]
           A == log[Alt(cur)]
<1>1. /\ TypeOK /\ cur \in Region /\ Alt(cur) \in Region /\ Alt(cur) # cur /\ op \in Op
      /\ L \in Seq(Entry) /\ KeysOK(L) /\ A \in Seq(Entry) /\ KeysOK(A)
      /\ LiveKeys(L) \subseteq Nat \ {0} /\ Used(L) \subseteq LiveKeys(L)
  <2>1. LiveKeys(L) \subseteq Nat \ {0}
    <3>1. L \in Seq(Entry)
      BY DEF EntriesInv, TypeOK
    <3> QED BY <3>1, KeyTypes
  <2> QED BY <2>1 DEF EntriesInv, TypeOK, KeysInv, Alt, Region, Used
<1>2. CASE CompactFormat
  <2>1. /\ log' = [log EXCEPT ![Alt(cur)] = <<>>] /\ UNCHANGED <<cur, op>>
        /\ pc = "format" /\ pc' = "copy"
    BY <1>2 DEF CompactFormat
  <2>2. log'[cur'] = L /\ log'[Alt(cur')] = <<>>
    BY <1>1, <2>1 DEF TypeOK
  <2>3. op.key \in Keys /\ op.iter = 0 /\ OwnAhead(op, L) /\ (op.old = NoAddr \/ op.old.r = cur)
    BY <2>1 DEF SetInv, Setting, Compacting
  <2>4. CarriedOK(op, L, <<>>)
    <3>1. LiveKeys(<<>>) = {}
      BY DEF LiveKeys
    <3>2. \A i \in Used(L) : ~ (i <= op.iter)
      BY <1>1, <2>3
    <3> QED BY <3>1, <3>2 DEF CarriedOK
  <2> QED BY <2>1, <2>2, <2>3, <2>4 DEF SetInv, Setting, Compacting, Writes
<1>3. CASE CompactCopy
  <2> DEFINE i == NextKey
             n == op.n + 1
             key == KeyEntry(n, L[i].data, TRUE)
             val == ValueEntry(n, L[FindValue(L, i)])
             own == op.id # 0 /\ L[i].id = op.id
             B == Append(A, key)
             C == Append(B, val)
  <2>1. /\ pc = "copy" /\ i # 0
        /\ log' = [log EXCEPT ![Alt(cur)] = IF own THEN B ELSE C]
        /\ op' = [op EXCEPT !.iter = i, !.n = n, !.id = IF own THEN n ELSE @]
        /\ UNCHANGED <<cur, pc>>
    BY <1>3 DEF CompactCopy
  <2>2. /\ CopyOK(op, L) /\ CopiedOK(op, L, A) /\ OwnAhead(op, L) /\ CarriedOK(op, L, A)
        /\ op.key \in Keys /\ (op.old = NoAddr \/ op.old.r = cur)
    BY <2>1 DEF KeysInv, SetInv, Compacting, Setting
  <2>3. /\ i \in LiveKeys(L) \ Unused(L) /\ op.iter < i
        /\ \A j \in Used(L) : j <= op.iter \/ i <= j
    <3> DEFINE S == {j \in LiveKeys(L) : j > op.iter /\ ValuesOf(L, j) # {}}
    <3>1. S \in SUBSET Nat /\ i = First(S)
      BY <1>1, KeyTypes DEF NextKey
    <3>2. S # {}
      BY <2>1, <3>1 DEF First
    <3> HIDE DEF S
    <3>3. i \in S /\ \A j \in S : i <= j
      BY <3>1, <3>2, FirstLeast
    <3>4. i \in LiveKeys(L) /\ i > op.iter /\ ValuesOf(L, i) # {} /\ i \in Nat
      BY <1>1, <3>3 DEF S
    <3>5. op.iter \in Nat
      BY <1>1 DEF Op
    <3>6. ASSUME NEW j \in Used(L) PROVE j <= op.iter \/ i <= j
      <4>1. j \in LiveKeys(L) /\ ValuesOf(L, j) # {} /\ j \in Nat
        BY <1>1 DEF Used
      <4>2. j > op.iter => j \in S
        BY <4>1 DEF S
      <4> QED BY <3>3, <3>5, <4>1, <4>2
    <3> QED BY <3>4, <3>5, <3>6 DEF Unused
  <2>4. op.n \in Nat /\ n \in Nat /\ i \in Nat
    BY <1>1, <2>3, KeyTypes DEF Op
  <2>5. /\ key \in Entry /\ Live(key) /\ ~key.value /\ key.id = n /\ key.data = L[i].data
        /\ val \in Entry /\ Live(val) /\ val.value /\ val.id = n
        /\ val.data = L[FindValue(L, i)].data
    <3>1. key \in Entry /\ val \in Entry
      BY <2>1, <2>4, CopiedEntries
    <3>2. Live(key) /\ ~key.value /\ key.id = n /\ key.data = L[i].data
      BY DEF KeyEntry, Live
    <3>3. FindValue(L, i) \in LiveVals(L) /\ FindValue(L, i) \in DOMAIN L
      BY <1>1, <2>3, ScanTypes DEF Unused
    <3>4. Live(L[FindValue(L, i)]) /\ L[FindValue(L, i)].value /\ L[FindValue(L, i)] \in Entry
      BY <1>1, <3>3 DEF LiveVals
    <3>5. /\ val.value = L[FindValue(L, i)].value /\ val.id = n
          /\ val.alive = L[FindValue(L, i)].alive /\ val.valid = L[FindValue(L, i)].valid
          /\ val.data = L[FindValue(L, i)].data
      BY <3>4 DEF ValueEntry, Entry
    <3>6. Live(val)
      BY <3>4, <3>5 DEF Live
    <3> QED BY <3>1, <3>2, <3>4, <3>5, <3>6
  <2>6. /\ op' \in Op /\ op'.iter = i /\ op'.n = n /\ op'.site = op.site /\ op'.key = op.key
        /\ op'.id = (IF own THEN n ELSE op.id) /\ op'.old = op.old
    <3> HIDE DEF i, n, own
    <3> QED BY <1>1, <2>1, <2>4 DEF Op
  <2>7. log'[cur] = L /\ log'[Alt(cur)] = IF own THEN B ELSE C
    <3> HIDE DEF own, B, C
    <3> QED BY <1>1, <2>1 DEF TypeOK
  <2>8. OwnAhead(op', L) /\ CarriedOK(op', L, IF own THEN B ELSE C)
    <3> DEFINE p == op'
               b == own
    <3> HIDE DEF i, key, val
    <3>1. /\ p.key = op.key /\ p.site = op.site /\ p.iter = i /\ p.n = op.n + 1 /\ p \in Op
          /\ b = (op.id # 0 /\ L[i].id = op.id) /\ p.id = IF b THEN op.n + 1 ELSE op.id
      BY <2>6
    <3>2. key.id = op.n + 1 /\ val.id = op.n + 1
      BY <2>5
    <3> HIDE DEF p, b
    <3>3. /\ OwnAhead(p, L)
          /\ CarriedOK(p, L, IF b THEN Append(A, key) ELSE Append(Append(A, key), val))
      <4> HIDE DEF L, A
      <4>1. /\ L \in Seq(Entry) /\ KeysOK(L) /\ A \in Seq(Entry) /\ KeysOK(A) /\ op \in Op
            /\ CopyOK(op, L) /\ CopiedOK(op, L, A) /\ OwnAhead(op, L) /\ CarriedOK(op, L, A)
            /\ i \in LiveKeys(L) \ Unused(L) /\ op.iter < i
            /\ \A j \in Used(L) : j <= op.iter \/ i <= j
        BY <1>1, <2>2, <2>3
      <4>2. /\ key \in Entry /\ Live(key) /\ ~key.value /\ key.data = L[i].data
            /\ val \in Entry /\ Live(val) /\ val.value /\ val.data = L[FindValue(L, i)].data
        BY <2>5
      <4> QED BY <3>1, <3>2, <4>1, <4>2, CarryTurn
    <3> QED BY <3>3 DEF p, b, B, C
  <2> HIDE DEF i, n, key, val, own, B, C
  <2>9. /\ OwnAhead(op', log'[cur']) /\ CarriedOK(op', log'[cur'], log'[Alt(cur')])
         /\ op'.key \in Keys /\ (op'.old = NoAddr \/ op'.old.r = cur') /\ pc' = "copy"
    BY <2>1, <2>2, <2>6, <2>7, <2>8
  <2> QED BY <2>9 DEF SetInv, Setting, Compacting, Writes
<1>4. CASE CompactCopied \/ CompactNewHeader
  <2>1. /\ UNCHANGED <<log, cur, op>>
        /\ \/ pc = "copy" /\ NextKey = 0 /\ pc' = "newHdr"
           \/ pc = "newHdr" /\ pc' = "oldHdr"
    BY <1>4 DEF CompactCopied, CompactNewHeader, flash
  <2>2. /\ OwnAhead(op, L) /\ CarriedOK(op, L, A) /\ op.key \in Keys
        /\ op.old = NoAddr \/ op.old.r = cur
        /\ pc = "newHdr" => \A i \in Used(L) : i <= op.iter
    BY <2>1 DEF SetInv, Compacting, Setting
  <2>3. ASSUME NextKey = 0 PROVE \A i \in Used(L) : i <= op.iter
    <3> DEFINE S == {j \in LiveKeys(L) : j > op.iter /\ ValuesOf(L, j) # {}}
    <3>1. S \in SUBSET (Nat \ {0}) /\ First(S) = 0
      BY <1>1, <2>3 DEF NextKey
    <3>2. S = {}
      <4> HIDE DEF S
      <4> QED BY <3>1, FirstIn
    <3>3. ASSUME NEW i \in Used(L) PROVE i <= op.iter
      <4>1. i \in LiveKeys(L) /\ ValuesOf(L, i) # {} /\ i \in Nat
        BY <1>1 DEF Used
      <4>2. op.iter \in Nat
        BY <1>1 DEF Op
      <4>3. ~ (i > op.iter)
        BY <3>2, <4>1
      <4> QED BY <4>1, <4>2, <4>3
    <3> QED BY <3>3
  <2>4. /\ OwnAhead(op', log'[cur']) /\ CarriedOK(op', log'[cur'], log'[Alt(cur')])
        /\ op'.key \in Keys /\ (op'.old = NoAddr \/ op'.old.r = cur')
        /\ \A i \in Used(log'[cur']) : i <= op'.iter
    BY <2>1, <2>2, <2>3
  <2> QED BY <2>1, <2>4 DEF SetInv, Setting, Compacting, Writes
<1>5. CASE CompactOldHeader
  <2>1. UNCHANGED log /\ cur' = Alt(cur) /\ pc = "oldHdr"
    BY <1>5 DEF CompactOldHeader
  <2>2. CASE pc' = "idle"
    <3>1. op' = NoOp
      BY <1>5, <2>2 DEF CompactOldHeader, Finish
    <3> QED BY <2>2, <3>1, SetRest DEF Setting
  <2>3. CASE pc' # "idle"
    <3> DEFINE o == [op EXCEPT !.old = IF op.site = "force" THEN @ ELSE NoAddr]
    <3>1. op' = Writing(o, op.n) /\ pc' = "hdr"
      BY <1>5, <2>3 DEF CompactOldHeader, Finish
    <3>2. /\ CarriedOK(op, L, A) /\ op.key \in Keys /\ (op.old = NoAddr \/ op.old.r = cur)
      BY <2>1 DEF SetInv, Compacting, Setting
    <3>3. o \in Op /\ o.key = op.key /\ op.n \in Nat /\ o.old \in {op.old, NoAddr}
      BY <1>1 DEF Op, NoAddr, Region
    <3> HIDE DEF o
    <3>4. op'.key = op.key /\ op'.old = o.old /\ op'.id # 0
      BY <3>1, <3>3, WritingFields
    <3>5. OldKnown(op', Alt(cur), A)
      <4>1. ~ (op'.old # NoAddr /\ op'.old.r = Alt(cur))
        BY <1>1, <3>2, <3>3, <3>4
      <4>2. \A j \in Used(A) : A[j].data # op.key
        BY <3>2 DEF CarriedOK, Used
      <4> QED BY <3>4, <4>1, <4>2 DEF OldKnown
    <3>6. OldKnown(op', cur', log'[cur']) /\ op'.key \in Keys
      BY <2>1, <3>2, <3>4, <3>5
    <3> QED BY <3>1, <3>4, <3>6 DEF SetInv, Setting, Compacting, Writes
  <2> QED BY <2>2, <2>3
<1>6. CASE CompactFault
  <2>1. op' = NoOp /\ pc' = "idle"
    BY <1>6 DEF CompactFault, Fault, Finish
  <2> QED BY <2>1, SetRest DEF Setting
<1> QED BY <1>2, <1>3, <1>4, <1>5, <1>6 DEF Compact

-----------------------------------------------------------------------------
(* What the writes of a set do to the log                                  *)

\* A log in which readers see the same entries, for the set.
LEMMA SeenSame ==
  ASSUME NEW L \in Seq(Entry), NEW M, LiveKeys(M) = LiveKeys(L), LiveVals(M) = LiveVals(L),
         \A i \in LiveKeys(L) \cup LiveVals(L) : M[i] = L[i], NEW o, NEW r
  PROVE  /\ Used(M) = Used(L)
         /\ OwnKey(o, L) => OwnKey(o, M)
         /\ OldKnown(o, r, L) => OldKnown(o, r, M)
<1>1. \A i \in LiveKeys(L) : ValuesOf(M, i) = ValuesOf(L, i) /\ FindValue(M, i) = FindValue(L, i)
  BY DEF ValuesOf, FindValue
<1>2. Used(M) = Used(L) /\ Used(L) \subseteq LiveKeys(L)
  BY <1>1 DEF Used
<1>3. OldKnown(o, r, L) => OldKnown(o, r, M)
  <2>1. \A i \in Used(L) : M[i].data = L[i].data /\ FindValue(M, i) = FindValue(L, i)
    BY <1>1, <1>2
  <2> QED BY <1>2, <2>1 DEF OldKnown, OldFirst
<1> QED BY <1>2, <1>3 DEF OwnKey

\* The header and the payload are written: no reader sees anything.
LEMMA TipHidden ==
  ASSUME EntriesInv, SetInv, WriteHeader \/ WritePayload
  PROVE  LET L == log[cur]
             M == log'[cur]
         IN  /\ LiveKeys(M) = LiveKeys(L) /\ LiveVals(M) = LiveVals(L)
             /\ \A i \in LiveKeys(L) \cup LiveVals(L) : M[i] = L[i]
             /\ M[Len(M)].alive
             /\ \A r \in Region : r # cur => log'[r] = log[r]
<1> DEFINE L == log[cur]
           M == log'[cur]
<1>1. /\ TypeOK /\ cur \in Region /\ op \in Op /\ L \in Seq(Entry)
      /\ op.key \in Keys /\ op.val \in Vals
      /\ LiveKeys(L) \subseteq DOMAIN L /\ LiveVals(L) \subseteq DOMAIN L
  BY DEF EntriesInv, TypeOK, SetInProgress, WriteHeader, WritePayload, LiveKeys, LiveVals
<1>2. CASE WriteHeader
  <2> DEFINE e == NewEntry
  <2>1. log' = [log EXCEPT ![cur] = Append(L, e)]
    BY <1>2 DEF WriteHeader
  <2>2. M = Append(L, e) /\ \A r \in Region : r # cur => log'[r] = log[r]
    <3> HIDE DEF e
    <3> QED BY <1>1, <2>1 DEF TypeOK
  <2>3. e \in Entry /\ ~ Live(e) /\ e.alive
    BY <1>1, ConstAssumption DEF NewEntry, Entry, Op, Payload, Live
  <2> HIDE DEF M, e
  <2>4. LET N == Append(L, e)
            n == Len(L) + 1
        IN  /\ n \in Nat /\ DOMAIN N = 1 .. n /\ DOMAIN L = 1 .. Len(L) /\ Len(L) \in Nat
            /\ N[n] = e /\ \A i \in DOMAIN L : N[i] = L[i] /\ i < n
            /\ ~ Live(e) => LiveKeys(N) = LiveKeys(L) /\ LiveVals(N) = LiveVals(L)
    BY <1>1, <2>3, AppendLive
  <2>5. M[Len(M)] = e
    BY <1>1, <2>2, <2>3
  <2> QED BY <1>1, <2>2, <2>3, <2>4, <2>5 DEF M
<1>3. CASE WritePayload
  <2> DEFINE e == [L[Tip] EXCEPT !.data = IF op.what = "key" THEN op.key ELSE op.val]
             t == Tip
  <2>1. pc = "payload" /\ log' = [log EXCEPT ![cur] = [L EXCEPT ![t] = e]]
    BY <1>1, <1>3 DEF WritePayload, TypeOK
  <2>2. M = [L EXCEPT ![t] = e] /\ \A r \in Region : r # cur => log'[r] = log[r]
    <3> HIDE DEF e
    <3> QED BY <1>1, <2>1 DEF TypeOK
  <2>3. t \in DOMAIN L /\ ~L[t].valid /\ L[t] \in Entry /\ L[t].alive /\ t = Len(L)
    BY <1>1, <2>1 DEF EntriesInv, HalfWritten, SetInv, Writes, Tip
  <2>4. e \in Entry /\ ~ Live(e) /\ e.alive
    BY <1>1, <2>3 DEF Entry, Payload, Live
  <2>5. t \notin LiveKeys(L) /\ t \notin LiveVals(L)
    BY <2>3 DEF LiveKeys, LiveVals, Live
  <2> HIDE DEF M, e, t
  <2>6. LET N == [L EXCEPT ![t] = e]
        IN  /\ DOMAIN N = DOMAIN L /\ N[t] = e /\ \A i \in DOMAIN L : i # t => N[i] = L[i]
            /\ ~ Live(e) => LiveKeys(N) = LiveKeys(L) \ {t} /\ LiveVals(N) = LiveVals(L) \ {t}
    <3> HIDE DEF L
    <3>1. L \in Seq(Entry) /\ t \in DOMAIN L /\ e \in Entry
      BY <1>1, <2>3, <2>4
    <3> QED BY <3>1, EditLive
  <2>7. Len(M) = t /\ M[t] = e
    BY <1>1, <2>2, <2>3, <2>4
  <2>8. LiveKeys(L) \ {t} = LiveKeys(L) /\ LiveVals(L) \ {t} = LiveVals(L)
    BY <2>5
  <2>9. LiveKeys(M) = LiveKeys(L) /\ LiveVals(M) = LiveVals(L)
    BY <2>2, <2>4, <2>6, <2>8
  <2>10. \A i \in LiveKeys(L) \cup LiveVals(L) : M[i] = L[i]
    BY <1>1, <2>2, <2>5, <2>6
  <2> QED BY <2>2, <2>4, <2>7, <2>9, <2>10 DEF M
<1> QED BY <1>2, <1>3

\* INVALID is cleared: readers see one entry more, behind all others.
LEMMA TipShown ==
  ASSUME EntriesInv, KeysInv, SetInv, pc = "valid"
  PROVE  LET L == log[cur]
             M == [L EXCEPT ![Tip].valid = TRUE]
         IN  /\ Tip \in Nat /\ M \in Seq(Entry) /\ op.what \in {"key", "val"} /\ M[Tip].id = op.id
             /\ \A i \in LiveKeys(L) \cup LiveVals(L) : M[i] = L[i] /\ i < Tip
             /\ op.what = "key" =>
                  /\ LiveKeys(M) = LiveKeys(L) \cup {Tip} /\ LiveVals(M) = LiveVals(L)
                  /\ M[Tip].data = op.key
             /\ op.what = "val" =>
                  /\ LiveKeys(M) = LiveKeys(L) /\ LiveVals(M) = LiveVals(L) \cup {Tip}
                  /\ M[Tip].data = op.val
<1> DEFINE L == log[cur]
           t == Tip
           e == [L[t] EXCEPT !.valid = TRUE]
           M == [L EXCEPT ![t] = e]
<1>1. /\ L \in Seq(Entry) /\ t = Len(L) /\ t \in Nat /\ DOMAIN L = 1 .. t
      /\ LiveKeys(L) \subseteq DOMAIN L /\ LiveVals(L) \subseteq DOMAIN L
  <2>1. L \in Seq(Entry)
    BY DEF EntriesInv, TypeOK
  <2> QED BY <2>1 DEF Tip, LiveKeys, LiveVals
<1>2. /\ t \in DOMAIN L /\ ~L[t].valid /\ L[t] \in Entry /\ L[t].alive
      /\ L[t].value = (op.what = "val") /\ L[t].id = op.id /\ op.what \in {"key", "val"}
      /\ L[t].data = IF op.what = "key" THEN op.key ELSE op.val
  BY <1>1 DEF EntriesInv, HalfWritten, SetInProgress, KeysInv, SetInv, Writes
<1>3. /\ e \in Entry /\ Live(e) /\ e.value = (op.what = "val") /\ e.id = op.id
      /\ e.data = IF op.what = "key" THEN op.key ELSE op.val
  BY <1>2 DEF Entry, Live
<1>4. t \notin LiveKeys(L) /\ t \notin LiveVals(L)
  BY <1>2 DEF LiveKeys, LiveVals, Live
<1> HIDE DEF e, t, L
<1>5. LET N == [L EXCEPT ![t] = e]
      IN  /\ DOMAIN N = DOMAIN L /\ N[t] = e /\ \A i \in DOMAIN L : i # t => N[i] = L[i]
          /\ Live(e) /\ ~e.value =>
               LiveKeys(N) = LiveKeys(L) \cup {t} /\ LiveVals(N) = LiveVals(L) \ {t}
          /\ Live(e) /\ e.value =>
               LiveKeys(N) = LiveKeys(L) \ {t} /\ LiveVals(N) = LiveVals(L) \cup {t}
          /\ ~ Live(e) =>
               LiveKeys(N) = LiveKeys(L) \ {t} /\ LiveVals(N) = LiveVals(L) \ {t}
  <2>1. L \in Seq(Entry) /\ t \in DOMAIN L /\ e \in Entry
    BY <1>1, <1>2, <1>3
  <2> QED BY <2>1, EditLive, Zenon
<1>6. M \in Seq(Entry)
  <2>1. \A i \in DOMAIN L : L[i] \in Entry
    BY <1>1
  <2>2. M \in [1 .. t -> Entry]
    BY <1>1, <1>3, <2>1
  <2> HIDE DEF M
  <2> QED BY <1>1, <2>2, SeqDef
<1> HIDE DEF M
<1>7. DOMAIN M = DOMAIN L /\ M[t] = e /\ \A i \in DOMAIN L : i # t => M[i] = L[i]
  BY <1>5 DEF M
<1>8. LiveKeys(L) \ {t} = LiveKeys(L) /\ LiveVals(L) \ {t} = LiveVals(L)
  BY <1>4
<1>9. /\ Live(e) /\ ~e.value => LiveKeys(M) = LiveKeys(L) \cup {t} /\ LiveVals(M) = LiveVals(L)
      /\ Live(e) /\ e.value => LiveKeys(M) = LiveKeys(L) /\ LiveVals(M) = LiveVals(L) \cup {t}
  <2>1. /\ Live(e) /\ ~e.value =>
             LiveKeys(M) = LiveKeys(L) \cup {t} /\ LiveVals(M) = LiveVals(L) \ {t}
        /\ Live(e) /\ e.value =>
             LiveKeys(M) = LiveKeys(L) \ {t} /\ LiveVals(M) = LiveVals(L) \cup {t}
    BY <1>5 DEF M
  <2> QED BY <1>8, <2>1
<1>10. /\ op.what = "key" => Live(e) /\ ~e.value /\ e.data = op.key
       /\ op.what = "val" => Live(e) /\ e.value /\ e.data = op.val
  BY <1>3
<1>11. /\ op.what = "key" =>
            /\ LiveKeys(M) = LiveKeys(L) \cup {t} /\ LiveVals(M) = LiveVals(L)
            /\ M[t].data = op.key
       /\ op.what = "val" =>
            /\ LiveKeys(M) = LiveKeys(L) /\ LiveVals(M) = LiveVals(L) \cup {t}
            /\ M[t].data = op.val
  BY <1>7, <1>9, <1>10
<1>12. \A i \in LiveKeys(L) \cup LiveVals(L) : M[i] = L[i] /\ i < t
  <2>1. \A i \in LiveKeys(L) \cup LiveVals(L) : i \in 1 .. t /\ i # t
    BY <1>1, <1>4
  <2> QED BY <1>1, <1>7, <2>1
<1>13. M[t].id = op.id
  BY <1>3, <1>7
<1> QED BY <1>1, <1>2, <1>6, <1>11, <1>12, <1>13 DEF M, L, t, e

\* ALIVE of a value is cleared.
LEMMA ValueGone ==
  ASSUME NEW L \in Seq(Entry), NEW v \in LiveVals(L)
  PROVE  LET M == [L EXCEPT ![v].alive = FALSE]
         IN  /\ M \in Seq(Entry) /\ LiveKeys(M) = LiveKeys(L) /\ LiveVals(M) = LiveVals(L) \ {v}
             /\ \A j \in LiveKeys(L) \cup LiveVals(L) : M[j].id = L[j].id /\ M[j].data = L[j].data
<1> DEFINE e == [L[v] EXCEPT !.alive = FALSE]
           M == [L EXCEPT ![v] = e]
<1>1. /\ v \in DOMAIN L /\ v \notin LiveKeys(L) /\ L[v] \in Entry /\ DOMAIN L = 1 .. Len(L)
      /\ LiveKeys(L) \subseteq DOMAIN L /\ LiveVals(L) \subseteq DOMAIN L
  <2>1. v \in DOMAIN L /\ v \notin LiveKeys(L)
    BY DEF LiveVals, LiveKeys
  <2> QED BY <2>1 DEF LiveVals, LiveKeys
<1>2. e \in Entry /\ ~ Live(e) /\ e.id = L[v].id /\ e.data = L[v].data
  BY <1>1 DEF Entry, Live
<1> HIDE DEF e
<1>3. /\ DOMAIN M = DOMAIN L /\ M[v] = e /\ \A i \in DOMAIN L : i # v => M[i] = L[i]
      /\ LiveKeys(M) = LiveKeys(L) \ {v} /\ LiveVals(M) = LiveVals(L) \ {v}
  <2>1. LET N == [L EXCEPT ![v] = e]
        IN  /\ DOMAIN N = DOMAIN L /\ N[v] = e /\ \A i \in DOMAIN L : i # v => N[i] = L[i]
            /\ ~ Live(e) => LiveKeys(N) = LiveKeys(L) \ {v} /\ LiveVals(N) = LiveVals(L) \ {v}
    BY <1>1, <1>2, EditLive
  <2> QED BY <1>2, <2>1
<1>4. M \in Seq(Entry)
  <2>1. \A i \in DOMAIN L : L[i] \in Entry
    OBVIOUS
  <2>2. M \in [1 .. Len(L) -> Entry] /\ Len(L) \in Nat
    BY <1>1, <1>2, <2>1
  <2> HIDE DEF M
  <2> QED BY <2>2, SeqDef
<1> HIDE DEF M
<1>5. LiveKeys(M) = LiveKeys(L)
  BY <1>1, <1>3
<1>6. \A j \in LiveKeys(L) \cup LiveVals(L) : M[j].id = L[j].id /\ M[j].data = L[j].data
  BY <1>1, <1>2, <1>3
<1> QED BY <1>3, <1>4, <1>5, <1>6 DEF M, e

-----------------------------------------------------------------------------
(* The steps                                                               *)

\* A value behind all others does not change which one is first.
LEMMA FirstStays ==
  ASSUME NEW L \in Seq(Entry), NEW M, NEW n \in Nat,
         LiveKeys(M) = LiveKeys(L), LiveVals(M) = LiveVals(L) \cup {n},
         \A j \in LiveKeys(L) \cup LiveVals(L) : M[j] = L[j] /\ j < n,
         NEW i \in LiveKeys(L), ValuesOf(L, i) # {}
  PROVE  FindValue(M, i) = FindValue(L, i) /\ ValuesOf(L, i) \subseteq ValuesOf(M, i)
<1> DEFINE v == FindValue(L, i)
<1>1. /\ ValuesOf(L, i) \subseteq LiveVals(L) /\ LiveVals(L) \subseteq Nat
      /\ LiveVals(M) \subseteq Nat
  BY KeyTypes DEF ValuesOf, LiveVals
<1>2. v \in ValuesOf(L, i) /\ \A j \in ValuesOf(L, i) : v <= j
  BY <1>1, FirstLeast DEF FindValue
<1> HIDE DEF v
<1>3. /\ ValuesOf(L, i) \subseteq ValuesOf(M, i) /\ ValuesOf(M, i) \subseteq Nat
      /\ \A j \in ValuesOf(M, i) : j \in ValuesOf(L, i) \/ j = n
  BY <1>1 DEF ValuesOf
<1>4. \A j \in ValuesOf(M, i) : v <= j
  <2>1. v \in Nat /\ v < n
    BY <1>1, <1>2
  <2> QED BY <1>2, <1>3, <2>1
<1>5. v \in ValuesOf(M, i)
  BY <1>2, <1>3
<1> QED BY <1>3, <1>4, <1>5, FirstIs DEF FindValue, v

\* The id that a value is written under is its key's, unless spoilt says that it is not.
LEMMA OwnIdFound ==
  ASSUME log[cur] \in Seq(Entry), op.id # 0, OwnId
  PROVE  OwnKey(op, log[cur])
<1> DEFINE L == log[cur]
           f == FindKey(L, op.key)
           S == {i \in LiveKeys(L) : L[i].data = op.key}
<1>1. S \in SUBSET Nat /\ f = First(S)
  BY KeyTypes DEF FindKey
<1>2. f \in S \cup {0}
  <2> HIDE DEF S, f
  <2> QED BY <1>1, FirstIn
<1>3. f # 0 /\ L[f].id = op.id
  BY DEF OwnId, IdOf
<1>4. f \in LiveKeys(L) /\ L[f].data = op.key
  BY <1>2, <1>3
<1> HIDE DEF f
<1> QED BY <1>3, <1>4 DEF OwnKey

\* Writing the entries and deleting the old one.
LEMMA SetWriting ==
  ASSUME EntriesInv, KeysInv, SetInv, Write, KeysInv'
  PROVE  SetInv'
<1> DEFINE L == log[cur]
           M == log'[cur]
<1>1. /\ TypeOK /\ cur \in Region /\ op \in Op /\ L \in Seq(Entry) /\ KeysOK(L) /\ KeysOK(M)
      /\ UNCHANGED cur
  <2>1. UNCHANGED cur
    BY DEF Write, WriteHeader, WriteOverLeft, WritePayload, SetValid, WriteFault, DeleteEntry,
           DeleteFault, Fault
  <2> QED BY <2>1 DEF EntriesInv, TypeOK, KeysInv
<1>2. CASE WriteHeader
  <2>1. /\ pc = "hdr" /\ pc' = "payload" /\ UNCHANGED op
        /\ op.what = "val" /\ spoilt' = {} => OwnId
    BY <1>2 DEF WriteHeader
  <2>2. op.key \in Keys /\ op.id # 0 /\ OldKnown(op, cur, L)
    BY <2>1 DEF SetInv, Setting, Writes
  <2>3. /\ LiveKeys(M) = LiveKeys(L) /\ LiveVals(M) = LiveVals(L)
        /\ \A i \in LiveKeys(L) \cup LiveVals(L) : M[i] = L[i]
        /\ M[Len(M)].alive
    BY <1>2, TipHidden
  <2>4. op.what = "val" /\ spoilt' = {} => OwnKey(op, L)
    BY <1>1, <2>1, <2>2, OwnIdFound
  <2> HIDE DEF M
  <2>5. OldKnown(op, cur, M) /\ (op.what = "val" /\ spoilt' = {} => OwnKey(op, M))
    BY <1>1, <2>2, <2>3, <2>4, SeenSame
  <2>6. Tip' = Len(M) /\ log'[cur'] = M
    BY <1>1 DEF Tip, M
  <2> QED BY <1>1, <2>1, <2>2, <2>3, <2>5, <2>6 DEF SetInv, Setting, Compacting, Writes
<1>3. CASE WritePayload
  <2>1. pc = "payload" /\ pc' = "valid" /\ UNCHANGED <<op, spoilt>>
    BY <1>3 DEF WritePayload, history
  <2>2. /\ op.key \in Keys /\ op.id # 0 /\ OldKnown(op, cur, L)
        /\ op.what = "val" /\ spoilt = {} => OwnKey(op, L)
    BY <2>1 DEF SetInv, Setting, Writes
  <2>3. /\ LiveKeys(M) = LiveKeys(L) /\ LiveVals(M) = LiveVals(L)
        /\ \A i \in LiveKeys(L) \cup LiveVals(L) : M[i] = L[i]
        /\ M[Len(M)].alive
    BY <1>3, TipHidden
  <2> HIDE DEF M
  <2>4. OldKnown(op, cur, M) /\ (op.what = "val" /\ spoilt = {} => OwnKey(op, M))
    BY <1>1, <2>2, <2>3, SeenSame
  <2>5. Tip' = Len(M) /\ log'[cur'] = M
    BY <1>1 DEF Tip, M
  <2> QED BY <1>1, <2>1, <2>2, <2>3, <2>4, <2>5 DEF SetInv, Setting, Compacting, Writes
<1>4. CASE SetValid
  <2> DEFINE n == Tip
  <2>1. pc = "valid" /\ M = [L EXCEPT ![n].valid = TRUE] /\ UNCHANGED spoilt
    BY <1>1, <1>4 DEF SetValid, TypeOK, history
  <2>2. /\ op.key \in Keys /\ op.id # 0 /\ OldKnown(op, cur, L)
        /\ op.what = "val" /\ spoilt = {} => OwnKey(op, L)
    BY <2>1 DEF SetInv, Setting, Writes
  <2>3. /\ n \in Nat /\ M \in Seq(Entry) /\ op.what \in {"key", "val"} /\ M[n].id = op.id
        /\ \A i \in LiveKeys(L) \cup LiveVals(L) : M[i] = L[i] /\ i < n
        /\ op.what = "key" =>
             /\ LiveKeys(M) = LiveKeys(L) \cup {n} /\ LiveVals(M) = LiveVals(L)
             /\ M[n].data = op.key
        /\ op.what = "val" =>
             /\ LiveKeys(M) = LiveKeys(L) /\ LiveVals(M) = LiveVals(L) \cup {n}
             /\ M[n].data = op.val
    BY <2>1, TipShown
  <2> HIDE DEF M, n
  <2>4. log'[cur'] = M
    BY <1>1 DEF M
  <2>5. CASE op.what = "key"
    <3>1. op' = [op EXCEPT !.what = "val"] /\ pc' = "hdr"
      BY <1>4, <2>5 DEF SetValid
    <3>2. op'.key = op.key /\ op'.id = op.id /\ op'.old = op.old
      BY <1>1, <3>1 DEF Op
    <3>3. \A i \in LiveKeys(L) : L[i].data # op.key
      BY <2>1, <2>5 DEF KeysInv, Writes, NewKeyOK
    <3>4. ValuesOf(M, n) = {} /\ \A i \in LiveKeys(L) : ValuesOf(M, i) = ValuesOf(L, i)
      BY <1>1, <2>3, <2>5, <3>3, ViewNewKey
    <3>5. /\ Used(M) = Used(L)
          /\ \A i \in Used(L) : M[i].data = L[i].data /\ FindValue(M, i) = FindValue(L, i)
      <4>1. Used(M) = Used(L)
        BY <2>3, <2>5, <3>4 DEF Used
      <4>2. \A i \in LiveKeys(L) : M[i].data = L[i].data /\ FindValue(M, i) = FindValue(L, i)
        BY <2>3, <3>4 DEF FindValue
      <4> QED BY <4>1, <4>2 DEF Used
    <3>6. OldKnown(op', cur', log'[cur'])
      BY <1>1, <2>2, <2>4, <3>2, <3>5 DEF OldKnown, OldFirst
    <3> QED BY <2>2, <3>1, <3>2, <3>6 DEF SetInv, Setting, Compacting, Writes
  <2>6. CASE op.what = "val" /\ op.old = NoAddr
    <3>1. op' = NoOp /\ pc' = "idle"
      BY <1>4, <2>6 DEF SetValid, Finish
    <3> QED BY <3>1, SetRest DEF Setting
  <2>7. CASE op.what = "val" /\ op.old # NoAddr
    <3>1. pc' = "delete" /\ UNCHANGED op
      BY <1>4, <2>7 DEF SetValid
    <3>2. spoilt = {} => \E k \in LiveKeys(L) : L[k].data = op.key /\ L[k].id = op.id
      BY <2>2, <2>7 DEF OwnKey
    <3>3. CASE op.old.r = cur
      <4>1. PICK i \in Used(L) : L[i].data = op.key /\ FindValue(L, i) = op.old.i
        BY <2>2, <2>7, <3>3 DEF OldKnown, OldFirst
      <4>2. i \in LiveKeys(L) /\ ValuesOf(L, i) # {}
        BY DEF Used
      <4>3. FindValue(M, i) = op.old.i /\ ValuesOf(L, i) \subseteq ValuesOf(M, i)
        BY <1>1, <2>3, <2>7, <4>1, <4>2, FirstStays
      <4>4. i \in Used(M) /\ M[i].data = op.key
        BY <2>3, <2>7, <4>1, <4>2, <4>3 DEF Used
      <4>5. ASSUME spoilt = {}
            PROVE  n \in ValuesOf(M, i) /\ n # op.old.i
        <5>1. L[i].id = op.id
          BY <1>1, <3>2, <4>1, <4>2, <4>5, OneKey
        <5>2. ValuesOf(M, i) = ValuesOf(L, i) \cup {n}
          BY <1>1, <2>3, <2>7, <4>2, <5>1, ViewNewValue
        <5>3. op.old.i \in LiveVals(L)
          BY <1>1, <4>1, <4>2, ScanTypes
        <5>4. n \notin LiveVals(L)
          BY <2>3
        <5> QED BY <5>2, <5>3, <5>4
      <4>6. OldGoes(op, cur, log[cur])'
        <5>1. spoilt' = {} => \E t \in ValuesOf(M, i) : t # op.old.i /\ M[t].data = op.val
          BY <2>1, <2>3, <2>7, <4>5
        <5>2. UNCHANGED <<op, cur>> /\ log'[cur'] = M
          BY <1>1, <2>4, <3>1
        <5> QED BY <3>3, <4>3, <4>4, <5>1, <5>2 DEF OldGoes
      <4> QED BY <2>2, <3>1, <4>6 DEF SetInv, Setting, Compacting, Writes
    <3>4. CASE op.old.r # cur
      <4>1. \A i \in Used(L) : L[i].data # op.key
        BY <2>2, <2>7, <3>4 DEF OldKnown
      <4>2. ASSUME spoilt = {} PROVE Get(M, op.key) = op.val
        <5>1. PICK k \in LiveKeys(L) : L[k].data = op.key /\ L[k].id = op.id
          BY <3>2, <4>2
        <5>2. ValuesOf(L, k) = {}
          BY <4>1, <5>1 DEF Used
        <5>3. Get(M, L[k].data) = M[n].data
          <6> HIDE DEF L
          <6>1. /\ LiveKeys(M) = LiveKeys(L) /\ LiveVals(M) = LiveVals(L) \cup {n}
                /\ \A j \in LiveKeys(L) \cup LiveVals(L) : M[j] = L[j] /\ j < n
                /\ k \in LiveKeys(L) /\ M[n].id = L[k].id /\ n \in Nat
            BY <2>3, <2>7, <5>1
          <6> QED BY <1>1, <2>3, <5>2, <6>1, ViewNewValue
        <5> QED BY <2>3, <2>7, <5>1, <5>3
      <4>3. OldGoes(op, cur, log[cur])'
        <5>1. spoilt' = {} => Get(M, op.key) = op.val
          BY <2>1, <4>2
        <5>2. UNCHANGED <<op, cur>> /\ log'[cur'] = M
          BY <1>1, <2>4, <3>1
        <5> QED BY <3>4, <5>1, <5>2 DEF OldGoes
      <4> QED BY <2>2, <3>1, <4>3 DEF SetInv, Setting, Compacting, Writes
    <3> QED BY <3>3, <3>4
  <2> QED BY <2>3, <2>5, <2>6, <2>7
<1>5. CASE WriteOverLeft \/ WriteFault \/ DeleteEntry \/ DeleteFault
  <2>1. op' = NoOp /\ pc' = "idle"
    BY <1>5 DEF WriteOverLeft, WriteFault, DeleteEntry, DeleteFault, Fault, Finish
  <2> QED BY <2>1, SetRest DEF Setting
<1> QED BY <1>2, <1>3, <1>4, <1>5 DEF Write

\* Every step.
LEMMA SetStep == EntriesInv /\ KeysInv /\ SetInv /\ KeysInv' /\ [Next]_vars => SetInv'
<1> SUFFICES ASSUME EntriesInv, KeysInv, SetInv, KeysInv', [Next]_vars PROVE SetInv'
  OBVIOUS
<1>1. CASE Crash
  <2>1. op' = NoOp /\ pc' = "off"
    BY <1>1 DEF Crash
  <2> QED BY <2>1, SetRest DEF Setting
<1>2. CASE UNCHANGED vars
  <2>1. UNCHANGED <<log, cur, op, pc, spoilt>>
    BY <1>2 DEF vars
  <2>2. OldGoes(op, cur, log[cur]) => OldGoes(op, cur, log[cur])'
    BY <2>1 DEF OldGoes
  <2>3. Alt(cur)' = Alt(cur) /\ Tip' = Tip
    BY <2>1 DEF Alt, Tip
  <2> QED BY <2>1, <2>2, <2>3 DEF SetInv
<1> QED BY <1>1, <1>2, SetBoot, SetBegin, SetCompacting, SetWriting DEF Next

LEMMA SetInit == Init => SetInv
BY DEF Init, SetInv, Setting, Compacting, Writes

-----------------------------------------------------------------------------
(* What survives a power cut is a ParamStore.  Readers of the region that a *)
(* boot would mount see what the abstract store holds; a boot, and a step   *)
(* that shows readers nothing, stutters.                                    *)

\* The steps of ParamStore, in terms of what readers see.
SeenFrom == log[Recovered]

LEMMA DoesNothing ==
  ASSUME \A k \in Keys : Same(SeenFrom, SeenFrom', k)
  PROVE  Store!Nothing
<1>1. \A k \in Keys : Durable(k)' = Durable(k) /\ Shadow(k)' = Shadow(k)
  BY DEF Same, SeenFrom, Durable, Shadow, Hidden
<1> QED BY <1>1 DEF Store!Nothing

LEMMA DoesStage ==
  ASSUME NEW x \in Keys, op.key = x, op.val \in Vals,
         \A k \in Keys : k # x => Same(SeenFrom, SeenFrom', k),
         IF Get(SeenFrom, x) = Missing
         THEN Get(SeenFrom', x) = op.val /\ Hidden(SeenFrom', x) = Hidden(SeenFrom, x)
         ELSE /\ Get(SeenFrom', x) = Get(SeenFrom, x)
              /\ Hidden(SeenFrom', x) = Hidden(SeenFrom, x) \cup {op.val}
  PROVE  Store!Stage
<1>1. \A k \in Keys : /\ Durable(k) = Get(SeenFrom, k) /\ Durable(k)' = Get(SeenFrom', k)
                      /\ Shadow(k) = Hidden(SeenFrom, k) /\ Shadow(k)' = Hidden(SeenFrom', k)
  BY DEF SeenFrom, Durable, Shadow, Hidden
<1>2. \A k \in Keys : k # x => Durable(k)' = Durable(k) /\ Shadow(k)' = Shadow(k)
  BY <1>1 DEF Same
<1>3. CASE Durable(x) = Missing
  <2>1. Durable(x)' = op.val /\ Shadow(x)' = Shadow(x)
    BY <1>1, <1>3
  <2> QED BY <1>2, <1>3, <2>1 DEF Store!Stage
<1>4. CASE Durable(x) # Missing
  <2>1. Durable(x)' = Durable(x) /\ Shadow(x)' = Shadow(x) \cup {op.val}
    BY <1>1, <1>4
  <2> QED BY <1>2, <1>4, <2>1 DEF Store!Stage
<1> QED BY <1>3, <1>4

LEMMA DoesPromote ==
  ASSUME NEW x \in Keys, op.key = x,
         \A k \in Keys : k # x => Same(SeenFrom, SeenFrom', k),
         Missing \notin Hidden(SeenFrom, x),
         \/ /\ Get(SeenFrom', x) = Missing
            /\ Hidden(SeenFrom, x) = {} /\ Hidden(SeenFrom', x) = {}
         \/ /\ Get(SeenFrom', x) \in Hidden(SeenFrom, x)
            /\ Hidden(SeenFrom', x) \subseteq Hidden(SeenFrom, x)
            /\ Hidden(SeenFrom, x) \ {Get(SeenFrom', x)} \subseteq Hidden(SeenFrom', x)
  PROVE  Store!Promote
<1>1. \A k \in Keys : /\ Durable(k) = Get(SeenFrom, k) /\ Durable(k)' = Get(SeenFrom', k)
                      /\ Shadow(k) = Hidden(SeenFrom, k) /\ Shadow(k)' = Hidden(SeenFrom', k)
  BY DEF SeenFrom, Durable, Shadow, Hidden
<1>2. \A k \in Keys : k # x => Durable(k)' = Durable(k) /\ Shadow(k)' = Shadow(k)
  BY <1>1 DEF Same
<1> DEFINE v == Durable(x)'
           s == Shadow(x)'
<1>3. /\ s \in SUBSET Shadow(x) /\ v \in Shadow(x) \cup {Missing}
      /\ v = Missing => Shadow(x) = {}
      /\ Shadow(x) \ {v} \subseteq s
  BY <1>1
<1> HIDE DEF v, s
<1>4. /\ [k \in Keys |-> Durable(k)]' = [[k \in Keys |-> Durable(k)] EXCEPT ![x] = v]
      /\ [k \in Keys |-> Shadow(k)]' = [[k \in Keys |-> Shadow(k)] EXCEPT ![x] = s]
  BY <1>2 DEF v, s
<1> QED BY <1>3, <1>4 DEF Store!Promote

LEMMA DoesCompact ==
  ASSUME NEW x \in Keys, op.key = x,
         \A k \in Keys : /\ Get(SeenFrom', k) = IF k = x THEN Missing ELSE Get(SeenFrom, k)
                         /\ Hidden(SeenFrom', k) = {}
  PROVE  Store!Compact
<1>1. \A k \in Keys : /\ Durable(k) = Get(SeenFrom, k) /\ Durable(k)' = Get(SeenFrom', k)
                      /\ Shadow(k)' = Hidden(SeenFrom', k)
  BY DEF SeenFrom, Durable, Shadow, Hidden
<1>2. \A k \in Keys : Durable(k)' = (IF k = x THEN Missing ELSE Durable(k)) /\ Shadow(k)' = {}
  BY <1>1
<1> QED BY <1>2 DEF Store!Compact

\* A set goes on, or ends.
LEMMA DoesContinue ==
  ASSUME op'.key = op.key, op'.val = op.val, UNCHANGED status
  PROVE  Store!Continue
BY DEF Store!Continue

LEMMA DoesAbort ==
  ASSUME op' = NoOp, status' \in {status, "io", "full"}
  PROVE  Store!Abort
BY DEF Store!Abort, Store!NoSet, NoOp

LEMMA DoesSucceed ==
  ASSUME NEW x \in Keys, op.key = x, op' = NoOp, status' = "ok",
         \/ Get(SeenFrom', x) = op.val
         \/ Hidden(SeenFrom, x) \ {op.val} # {}
  PROVE  Store!Succeed
<1>1. Durable(x)' = Get(SeenFrom', x) /\ Shadow(x) = Hidden(SeenFrom, x)
  BY DEF SeenFrom, Durable, Shadow, Hidden
<1>2. Durable(x)' = op.val \/ Shadow(x) \ {op.val} # {}
  BY <1>1
<1>3. [key |-> op'.key, val |-> op'.val] = Store!NoSet
  BY DEF Store!NoSet, NoOp
<1> QED BY <1>2, <1>3 DEF Store!Succeed

\* A step of a set.
LEMMA DoesStep ==
  ASSUME op.key \in Keys, spoilt = {}, spoilt' = {},
         Store!Nothing \/ Store!Stage \/ Store!Promote \/ Store!Compact,
         Store!Continue \/ Store!Succeed \/ Store!Abort
  PROVE  Store!Next
<1>1. op.key # Missing
  BY ConstAssumption
<1>2. [key |-> op.key, val |-> op.val] # Store!NoSet
  BY <1>1 DEF Store!NoSet
<1> QED BY <1>2 DEF Store!Step, Store!Next

\* The region a boot would mount.
LEMMA RecoveredIs ==
  ASSUME TypeOK, HeadersInv
  PROVE  /\ Recovered \in Region
         /\ pc \in Running => Recovered = cur
         /\ pc = "oldHdr" => Recovered = 0
<1>1. pc \in Running => Recovered = cur
  BY DEF TypeOK, HeadersInv, Recovered, Found, Alt, Magic, Region
<1>2. pc = "oldHdr" => Recovered = 0
  BY DEF TypeOK, HeadersInv, Recovered, Found, Alt, Magic, Region
<1> QED BY <1>1, <1>2 DEF Recovered, Found, Alt, Region

LEMMA RecoveredNext ==
  ASSUME TypeOK', HeadersInv'
  PROVE  /\ pc' \in Running => Recovered' = cur'
         /\ pc' = "oldHdr" => Recovered' = 0
<1>1. pc' \in Running => Recovered' = cur'
  BY DEF TypeOK, HeadersInv, Recovered, Found, Alt, Magic, Region
<1>2. pc' = "oldHdr" => Recovered' = 0
  BY DEF TypeOK, HeadersInv, Recovered, Found, Alt, Magic, Region
<1> QED BY <1>1, <1>2

\* A boot does not change the log that the next boot would mount.
LEMMA BootKeeps ==
  ASSUME TypeOK, HeadersInv, Boot
  PROVE  SeenFrom' = SeenFrom
<1> USE DEF Region
<1>1. log \in [Region -> Seq(Entry)] /\ header \in [Region -> HeaderState] /\ Region = {0, 1}
  BY DEF TypeOK
<1>2. CASE BootMount \/ BootRecover \/ BootNotFound
  <2>1. UNCHANGED <<header, log>>
    BY <1>2 DEF BootMount, BootRecover, BootNotFound, flash
  <2> QED BY <2>1 DEF SeenFrom, Recovered, Found, Alt, Magic
<1>3. CASE RecreateFormat \/ RecreateHeader \/ (BootFault /\ pc \in {"recreate0", "recreate1"})
  <2>1. /\ pc \in {"recreate0", "recreate1"}
        /\ \E h \in {header[Alt(Found)], "blank", "stale", "zero"} :
             header' = [header EXCEPT ![Alt(Found)] = h]
        /\ \/ UNCHANGED log
           \/ log' = [log EXCEPT ![Alt(Found)] = <<>>]
    BY <1>3 DEF RecreateFormat, RecreateHeader, BootFault, FailedHeader
  <2>2. header[Found] = "active" /\ ~Magic(Alt(Found))
    BY <2>1 DEF HeadersInv
  <2>3. Found \in {0, 1} /\ Recovered = Found
    BY <2>2 DEF Found, Recovered
  <2>4. Recovered' = Found
    <3>1. CASE Found = 0
      <4>1. header'[0] = "active"
        BY <1>1, <2>1, <2>2, <3>1 DEF Alt
      <4> QED BY <3>1, <4>1 DEF Recovered, Found, Alt, Magic
    <3>2. CASE Found = 1
      <4>1. header'[1] = "active" /\ header'[0] # "active"
        BY <1>1, <2>1, <2>2, <3>2 DEF Alt, Magic
      <4> QED BY <3>2, <4>1 DEF Recovered, Found, Alt, Magic
    <3> QED BY <2>3, <3>1, <3>2
  <2>5. log'[Found] = log[Found]
    BY <1>1, <2>1, <2>3 DEF Alt
  <2> QED BY <2>3, <2>4, <2>5 DEF SeenFrom
<1>4. CASE CreateActive \/ (BootFault /\ pc = "create0")
  <2>1. pc = "create0" /\ UNCHANGED log
    BY <1>4 DEF CreateActive, BootFault
  <2>2. \A r \in Region : log[r] = <<>>
    BY <2>1 DEF HeadersInv
  <2>3. Recovered \in Region /\ Recovered' \in Region
    BY DEF Recovered, Found, Alt
  <2> QED BY <2>1, <2>2, <2>3 DEF SeenFrom
<1>5. CASE CreateStale \/ (BootFault /\ pc = "create1")
  <2>1. /\ pc = "create1" /\ UNCHANGED log
        /\ \E h \in {header[1], "stale", "zero"} : header' = [header EXCEPT ![1] = h]
    BY <1>5 DEF CreateStale, BootFault, FailedHeader
  <2>2. header[0] = "active" /\ header'[0] = "active"
    BY <1>1, <2>1 DEF HeadersInv
  <2>3. Recovered = 0 /\ Recovered' = 0
    BY <2>2 DEF Recovered, Found, Magic
  <2> QED BY <2>1, <2>3 DEF SeenFrom
<1>6. BootFault => pc \in {"recreate0", "recreate1", "create0", "create1"}
  BY DEF BootFault
<1> QED BY <1>2, <1>3, <1>4, <1>5, <1>6 DEF Boot

\* Readers get values, or nothing.
LEMMA ShownVals ==
  ASSUME EntriesInv, NEW r \in Region
  PROVE  /\ \A t \in LiveVals(log[r]) : log[r][t].data \in Vals /\ log[r][t].data # Missing
         /\ \A k : Missing \notin Hidden(log[r], k)
<1> DEFINE L == log[r]
<1>1. \A t \in LiveVals(L) : L[t].data \in Vals /\ L[t].data # Missing
  <2>1. \A t \in LiveVals(L) : L[t].data \in Vals
    BY DEF EntriesInv, NoHalfWrittenEntry, LiveVals
  <2> QED BY <2>1, ConstAssumption
<1>2. ASSUME NEW k PROVE Missing \notin Hidden(L, k)
  <2>1. \A i : ValuesOf(L, i) \subseteq LiveVals(L)
    BY DEF ValuesOf
  <2> QED BY <1>1, <2>1 DEF Hidden
<1> QED BY <1>1, <1>2

\* A completed entry behind all others: a key shows readers nothing, a value is staged.
LEMMA StagedEffect ==
  ASSUME EntriesInv, KeysInv, SetInv, pc = "valid", spoilt = {},
         NEW M \in Seq(Entry), KeysOK(M), NEW n \in Nat, M[n].id = op.id,
         \A i \in LiveKeys(log[cur]) \cup LiveVals(log[cur]) : M[i] = log[cur][i] /\ i < n,
         op.what \in {"key", "val"},
         op.what = "key" =>
           /\ LiveKeys(M) = LiveKeys(log[cur]) \cup {n} /\ LiveVals(M) = LiveVals(log[cur])
           /\ M[n].data = op.key,
         op.what = "val" =>
           /\ LiveKeys(M) = LiveKeys(log[cur]) /\ LiveVals(M) = LiveVals(log[cur]) \cup {n}
           /\ M[n].data = op.val
  PROVE  LET L == log[cur]
             x == op.key
         IN  /\ x \in Keys /\ op.val \in Vals /\ op.what \in {"key", "val"}
             /\ op.what = "key" => \A k : Same(L, M, k)
             /\ op.what = "val" =>
                  /\ \A k : k # x => Same(L, M, k)
                  /\ IF Get(L, x) = Missing
                     THEN Get(M, x) = op.val /\ Hidden(M, x) = Hidden(L, x)
                     ELSE /\ Get(M, x) = Get(L, x)
                          /\ Hidden(M, x) = Hidden(L, x) \cup {op.val}
                  /\ op.old = NoAddr => Get(M, x) = op.val
<1> DEFINE L == log[cur]
           x == op.key
<1>1. L \in Seq(Entry) /\ KeysOK(L) /\ cur \in Region /\ x \in Keys /\ op.val \in Vals
  BY DEF EntriesInv, TypeOK, KeysInv, SetInProgress
<1>2. /\ n \in Nat /\ M \in Seq(Entry) /\ KeysOK(M) /\ op.what \in {"key", "val"} /\ M[n].id = op.id
      /\ \A i \in LiveKeys(L) \cup LiveVals(L) : M[i] = L[i] /\ i < n
      /\ op.what = "key" =>
           /\ LiveKeys(M) = LiveKeys(L) \cup {n} /\ LiveVals(M) = LiveVals(L)
           /\ M[n].data = op.key
      /\ op.what = "val" =>
           /\ LiveKeys(M) = LiveKeys(L) /\ LiveVals(M) = LiveVals(L) \cup {n}
           /\ M[n].data = op.val
  OBVIOUS
<1>3. CASE op.what = "key"
  <2>1. \A i \in LiveKeys(L) : L[i].data # M[n].data
    BY <1>2, <1>3 DEF KeysInv, Writes, NewKeyOK
  <2>2. \A k : Same(L, M, k)
    <3> HIDE DEF L
    <3> QED BY <1>1, <1>2, <1>3, <2>1, ViewNewKey
  <2> QED BY <1>1, <1>3, <2>2
<1>4. CASE op.what = "val"
  <2>1. OwnKey(op, L) /\ OldKnown(op, cur, L)
    BY <1>4 DEF SetInv, Writes
  <2>2. PICK i \in LiveKeys(L) : L[i].data = x /\ L[i].id = op.id
    BY <2>1 DEF OwnKey
  <2>3. op.old = NoAddr => ValuesOf(L, i) = {}
    BY <2>1, <2>2 DEF OldKnown, Used
  <2>4. ValuesOf(L, i) # {} => Get(L, x) # Missing
    <3> SUFFICES ASSUME ValuesOf(L, i) # {} PROVE Get(L, x) # Missing
      OBVIOUS
    <3>1. /\ FindValue(L, i) \in LiveVals(L) /\ Get(L, x) = L[FindValue(L, i)].data
      BY <1>1, <2>2, KeyView
    <3> QED BY <1>1, <3>1, ShownVals
  <2>5. /\ \A k : k # x => Same(L, M, k)
        /\ ValuesOf(L, i) = {} =>
             /\ Get(L, x) = Missing /\ Get(M, x) = M[n].data
             /\ Hidden(L, x) = {} /\ Hidden(M, x) = {}
        /\ ValuesOf(L, i) # {} =>
             /\ Get(M, x) = Get(L, x)
             /\ Hidden(M, x) = Hidden(L, x) \cup {M[n].data}
    <3> HIDE DEF L, x
    <3>1. /\ LiveKeys(M) = LiveKeys(L) /\ LiveVals(M) = LiveVals(L) \cup {n}
          /\ \A j \in LiveKeys(L) \cup LiveVals(L) : M[j] = L[j] /\ j < n
          /\ i \in LiveKeys(L) /\ M[n].id = L[i].id /\ n \in Nat
          /\ L \in Seq(Entry) /\ KeysOK(L) /\ M \in Seq(Entry) /\ KeysOK(M)
      BY <1>1, <1>2, <1>4, <2>2
    <3>2. ASSUME NEW k, k # L[i].data PROVE Same(L, M, k)
      BY <3>1, <3>2, ViewNewValue
    <3>3. ASSUME ValuesOf(L, i) = {}
          PROVE  /\ Get(L, L[i].data) = Missing /\ Get(M, L[i].data) = M[n].data
                 /\ Hidden(L, L[i].data) = {} /\ Hidden(M, L[i].data) = {}
      BY <3>1, <3>3, ViewNewValue
    <3>4. ASSUME ValuesOf(L, i) # {} PROVE Get(M, L[i].data) = Get(L, L[i].data)
      BY <3>1, <3>4, ViewNewValue
    <3>5. ASSUME ValuesOf(L, i) # {}
          PROVE  Hidden(M, L[i].data) = Hidden(L, L[i].data) \cup {M[n].data}
      BY <3>1, <3>5, ViewNewValue, ZenonT(60)
    <3> QED BY <2>2, <3>2, <3>3, <3>4, <3>5
  <2>6. M[n].data = op.val
    BY <1>2, <1>4
  <2> HIDE DEF L, x
  <2>7. CASE ValuesOf(L, i) = {}
    BY <1>1, <1>4, <2>5, <2>6, <2>7 DEF L, x
  <2>8. CASE ValuesOf(L, i) # {}
    BY <1>1, <1>4, <2>3, <2>4, <2>5, <2>6, <2>8 DEF L, x
  <2> QED BY <2>7, <2>8
<1> QED BY <1>2, <1>3, <1>4

\* Clearing INVALID shows readers nothing of a key, and stages a value.
LEMMA ShownEffect ==
  ASSUME EntriesInv, KeysInv, SetInv, pc = "valid", spoilt = {},
         NEW M, M = [log[cur] EXCEPT ![Tip].valid = TRUE], KeysOK(M)
  PROVE  LET L == log[cur]
             x == op.key
         IN  /\ x \in Keys /\ op.val \in Vals /\ op.what \in {"key", "val"}
             /\ op.what = "key" => \A k : Same(L, M, k)
             /\ op.what = "val" =>
                  /\ \A k : k # x => Same(L, M, k)
                  /\ IF Get(L, x) = Missing
                     THEN Get(M, x) = op.val /\ Hidden(M, x) = Hidden(L, x)
                     ELSE /\ Get(M, x) = Get(L, x)
                          /\ Hidden(M, x) = Hidden(L, x) \cup {op.val}
                  /\ op.old = NoAddr => Get(M, x) = op.val
<1>1. /\ Tip \in Nat /\ M \in Seq(Entry) /\ op.what \in {"key", "val"} /\ M[Tip].id = op.id
      /\ \A i \in LiveKeys(log[cur]) \cup LiveVals(log[cur]) : M[i] = log[cur][i] /\ i < Tip
      /\ op.what = "key" =>
           /\ LiveKeys(M) = LiveKeys(log[cur]) \cup {Tip} /\ LiveVals(M) = LiveVals(log[cur])
           /\ M[Tip].data = op.key
      /\ op.what = "val" =>
           /\ LiveKeys(M) = LiveKeys(log[cur]) /\ LiveVals(M) = LiveVals(log[cur]) \cup {Tip}
           /\ M[Tip].data = op.val
  BY TipShown
<1> DEFINE n == Tip
<1> HIDE DEF n
<1> QED BY <1>1, StagedEffect DEF n

\* Deleting the old value promotes one that was hidden; or it is in the other region, and
\* readers get the new one already.
LEMMA DeleteEffect ==
  ASSUME EntriesInv, KeysInv, SetInv, pc = "delete", spoilt = {}, KeysOK(Deleted[cur])
  PROVE  LET L == log[cur]
             M == Deleted[cur]
             x == op.key
         IN  /\ x \in Keys
             /\ \/ \A k : Same(L, M, k)
                \/ /\ \A k : k # x => Same(L, M, k)
                   /\ \/ Get(M, x) = Missing /\ Hidden(L, x) = {} /\ Hidden(M, x) = {}
                      \/ /\ Get(M, x) \in Hidden(L, x) /\ Hidden(M, x) \subseteq Hidden(L, x)
                         /\ Hidden(L, x) \ {Get(M, x)} \subseteq Hidden(M, x)
             /\ Get(M, x) = op.val \/ Hidden(L, x) \ {op.val} # {}
<1> DEFINE L == log[cur]
           M == Deleted[cur]
           x == op.key
<1>1. /\ log \in [Region -> Seq(Entry)] /\ L \in Seq(Entry) /\ KeysOK(L) /\ cur \in Region
      /\ x \in Keys /\ op \in Op /\ OldGoes(op, cur, L)
  BY DEF EntriesInv, TypeOK, KeysInv, SetInv, Setting
<1>2. CASE op.old.r # cur
  <2>1. M = L
    BY <1>1, <1>2 DEF Deleted
  <2>2. Get(L, x) = op.val
    BY <1>1, <1>2 DEF OldGoes
  <2> HIDE DEF M
  <2>3. \A k : Same(L, M, k)
    BY <2>1 DEF Same
  <2> QED BY <1>1, <2>1, <2>2, <2>3 DEF M
<1>3. CASE op.old.r = cur
  <2> DEFINE v == op.old.i
  <2>1. PICK i \in Used(L) :
          /\ L[i].data = x /\ FindValue(L, i) = v
          /\ op.val # Missing => \E t \in ValuesOf(L, i) : t # v /\ L[t].data = op.val
    BY <1>1, <1>3 DEF OldGoes
  <2>2. i \in LiveKeys(L) /\ ValuesOf(L, i) # {}
    BY DEF Used
  <2>3. v \in LiveVals(L)
    BY <1>1, <2>1, <2>2, ScanTypes
  <2>4. M = [L EXCEPT ![v].alive = FALSE]
    BY <1>1, <1>3 DEF Deleted
  <2> HIDE DEF M, v
  <2>5. /\ M \in Seq(Entry) /\ LiveKeys(M) = LiveKeys(L) /\ LiveVals(M) = LiveVals(L) \ {v}
        /\ \A j \in LiveKeys(L) \cup LiveVals(L) : M[j].id = L[j].id /\ M[j].data = L[j].data
    <3> HIDE DEF L
    <3>1. L \in Seq(Entry) /\ v \in LiveVals(L)
      BY <1>1, <2>3
    <3>2. LET N == [L EXCEPT ![v].alive = FALSE]
          IN  /\ N \in Seq(Entry) /\ LiveKeys(N) = LiveKeys(L) /\ LiveVals(N) = LiveVals(L) \ {v}
              /\ \A j \in LiveKeys(L) \cup LiveVals(L) :
                   N[j].id = L[j].id /\ N[j].data = L[j].data
      BY <3>1, ValueGone
    <3> QED BY <2>4, <3>2
  <2>6. KeysOK(M)
    BY DEF M
  <2>7. /\ \A k : k # L[i].data => Same(L, M, k)
        /\ \A j \in ValuesOf(L, i) : j # v => L[j].data \in Hidden(L, L[i].data)
        /\ \/ /\ Get(M, L[i].data) = Missing
              /\ Hidden(L, L[i].data) = {} /\ Hidden(M, L[i].data) = {}
           \/ /\ Get(M, L[i].data) \in Hidden(L, L[i].data)
              /\ Hidden(M, L[i].data) \subseteq Hidden(L, L[i].data)
              /\ Hidden(L, L[i].data) \ {Get(M, L[i].data)} \subseteq Hidden(M, L[i].data)
    <3> HIDE DEF L
    <3>1. LiveVals(M) = LiveVals(L) \ {FindValue(L, i)}
      BY <2>1, <2>5
    <3> QED BY <1>1, <2>1, <2>2, <2>5, <2>6, <3>1, ViewPromoted
  <2>8. Missing \notin Hidden(L, x)
    BY <1>1, ShownVals
  <2> HIDE DEF L, x
  <2>9. CASE Get(M, x) = Missing /\ Hidden(L, x) = {}
    <3>1. op.val = Missing
      BY <2>1, <2>7, <2>9
    <3> QED BY <1>1, <2>1, <2>7, <2>9, <3>1 DEF L, M, x
  <2>10. CASE Get(M, x) \in Hidden(L, x)
    BY <1>1, <2>1, <2>7, <2>10 DEF L, M, x
  <2> QED BY <2>1, <2>7, <2>9, <2>10
<1> QED BY <1>2, <1>3

-----------------------------------------------------------------------------
(* Every step does to the surviving values what ParamStore allows          *)

\* What holds as long as the promise is on.
StoreInv == EntriesInv /\ KeysInv /\ SetInv /\ HeadersInv /\ spoilt = {}

\* A step that shows readers nothing and says nothing of the set.
LEMMA StoreStutters ==
  ASSUME SeenFrom' = SeenFrom, UNCHANGED <<op, status, spoilt>>
  PROVE  UNCHANGED Store!vars
<1>1. \A k \in Keys : Durable(k)' = Durable(k) /\ Shadow(k)' = Shadow(k)
  BY DEF SeenFrom, Durable, Shadow
<1> QED BY <1>1 DEF Store!vars

\* Readers go on seeing the same region.
LEMMA SeenKept ==
  ASSUME UNCHANGED <<header, log>>
  PROVE  SeenFrom' = SeenFrom
BY DEF SeenFrom, Recovered, Found, Alt, Magic

LEMMA SameLog ==
  ASSUME SeenFrom' = SeenFrom
  PROVE  Store!Nothing
<1>1. \A k \in Keys : Same(SeenFrom, SeenFrom', k)
  BY DEF Same
<1> QED BY <1>1, DoesNothing

LEMMA StoreBoot ==
  ASSUME StoreInv, Boot
  PROVE  [Store!Next]_(Store!vars)
<1>1. SeenFrom' = SeenFrom
  BY BootKeeps DEF StoreInv, EntriesInv
<1>2. UNCHANGED <<op, status, spoilt>>
  BY DEF Boot, BootMount, BootRecover, BootNotFound, RecreateFormat, RecreateHeader,
         CreateActive, CreateStale, BootFault, history
<1> QED BY <1>1, <1>2, StoreStutters

LEMMA StoreBegin ==
  ASSUME StoreInv, Begin
  PROVE  [Store!Next]_(Store!vars)
<1>1. pc = "idle" /\ UNCHANGED <<header, log, spoilt>>
  BY DEF Begin, SetDelete, SetWrite, SetCompact, SetFull, Refused, ScanToEnd, flash, history
<1>2. [key |-> op.key, val |-> op.val] = Store!NoSet
  <2>1. op = NoOp
    BY <1>1 DEF StoreInv, SetInv, Setting
  <2> QED BY <2>1 DEF Store!NoSet, NoOp
<1>3. SeenFrom' = SeenFrom
  BY <1>1, SeenKept
<1>4. Store!Nothing
  BY <1>3, SameLog
<1>5. TypeOK /\ KeysOK(log[cur]) /\ LastKeyId(log[cur]) \in Nat
  BY FindTypes DEF StoreInv, EntriesInv, TypeOK, KeysInv
<1>6. ASSUME NEW k \in Keys, NEW v \in Vals \cup {Missing}, op'.key = k, op'.val = v,
             UNCHANGED status
      PROVE  Store!Next
  <2>1. Store!Begin
    BY <1>1, <1>2, <1>4, <1>6 DEF Store!Begin, Store!Nothing
  <2> QED BY <2>1 DEF Store!Next
<1>7. ASSUME NEW k \in Keys, SetDelete(k) PROVE Store!Next
  <2>1. op' = Args(k, Missing) /\ UNCHANGED status
    BY <1>7 DEF SetDelete
  <2>2. op'.key = k /\ op'.val = Missing
    BY <1>5, <2>1, OldFound
  <2> QED BY <1>6, <2>1, <2>2
<1>8. ASSUME NEW k \in Keys, NEW v \in Vals, SetWrite(k, v) PROVE Store!Next
  <2> DEFINE o == Args(k, v)
  <2>1. op' = Writing(o, LastKeyId(log[cur])) /\ UNCHANGED status
    BY <1>8 DEF SetWrite
  <2>2. o \in Op /\ o.key = k /\ o.val = v
    BY <1>5, OldFound
  <2> HIDE DEF o
  <2>3. op'.key = k /\ op'.val = v
    BY <1>5, <2>1, <2>2, WritingFields
  <2> QED BY <1>6, <2>1, <2>3
<1>9. ASSUME NEW k \in Keys, NEW v \in Vals, SetCompact(k, v) PROVE Store!Next
  <2> DEFINE o == Args(k, v)
  <2>1. op' = [o EXCEPT !.site = Plan(k, v), !.need = Needed(k, v)] /\ UNCHANGED status
    BY <1>9 DEF SetCompact
  <2>2. o \in Op /\ o.key = k /\ o.val = v
    BY <1>5, OldFound
  <2> HIDE DEF o
  <2>3. op'.key = k /\ op'.val = v
    BY <2>1, <2>2 DEF Op
  <2> QED BY <1>6, <2>1, <2>3
<1>10. ASSUME NEW k \in Keys, NEW v \in Vals, SetFull(k, v) PROVE Store!Next
  <2>1. op' = NoOp /\ status' = "full"
    BY <1>10 DEF SetFull, Finish
  <2>2. [key |-> op'.key, val |-> op'.val] = Store!NoSet
    BY <2>1 DEF Store!NoSet, NoOp
  <2>3. Store!Reject
    BY <1>1, <1>2, <1>4, <2>1, <2>2 DEF Store!Reject, Store!Nothing
  <2> QED BY <2>3 DEF Store!Next
<1>11. CASE ScanToEnd
  <2>1. UNCHANGED <<op, status, spoilt>>
    BY <1>11 DEF ScanToEnd, history
  <2> QED BY <1>3, <2>1, StoreStutters
<1> QED BY <1>7, <1>8, <1>9, <1>10, <1>11 DEF Begin

\* A compaction shows readers nothing until it has turned them over to the new region.
LEMMA StoreCompact ==
  ASSUME StoreInv, StoreInv', Compact
  PROVE  Store!Next
<1> DEFINE L == log[cur]
           A == log[Alt(cur)]
<1>1. /\ TypeOK /\ cur \in Region /\ Alt(cur) \in Region /\ Alt(cur) # cur /\ op \in Op
      /\ L \in Seq(Entry) /\ KeysOK(L) /\ A \in Seq(Entry) /\ KeysOK(A)
      /\ spoilt = {} /\ spoilt' = {} /\ HeadersInv /\ SetInv
      /\ Region = {0, 1} /\ log \in [Region -> Seq(Entry)] /\ Alt(0) = 1 /\ Alt(1) = 0
  BY DEF StoreInv, EntriesInv, TypeOK, KeysInv, Alt, Region
<1>2. op.key \in Keys
  <2>1. pc \in Setting
    BY DEF Compact, CompactFormat, CompactCopy, CompactCopied, CompactNewHeader,
           CompactOldHeader, CompactFault, Setting
  <2> QED BY <1>1, <2>1 DEF SetInv
<1>3. /\ pc \in Running => Recovered = cur
      /\ pc = "oldHdr" => Recovered = 0
      /\ pc' \in Running => Recovered' = cur'
      /\ pc' = "oldHdr" => Recovered' = 0
  BY RecoveredIs, RecoveredNext DEF StoreInv, EntriesInv
<1>4. ASSUME UNCHANGED cur, log'[cur] = L, pc \in Running, pc' \in Running
      PROVE  Store!Nothing
  <2>1. SeenFrom = L /\ SeenFrom' = log'[cur]
    BY <1>3, <1>4 DEF SeenFrom
  <2> QED BY <1>4, <2>1, SameLog
<1>5. ASSUME UNCHANGED log, pc \in {"newHdr", "oldHdr"}, Recovered = cur, Recovered' = Alt(cur)
      PROVE  Store!Compact
  <2>1. CarriedOK(op, L, A) /\ \A i \in Used(L) : i <= op.iter
    BY <1>1, <1>5 DEF SetInv, Compacting
  <2>2. SeenFrom = L /\ SeenFrom' = A
    BY <1>5 DEF SeenFrom
  <2>3. \A k : Get(A, k) = (IF k = op.key THEN Missing ELSE Get(L, k)) /\ Hidden(A, k) = {}
    <3> HIDE DEF L, A
    <3>1. L \in Seq(Entry) /\ KeysOK(L) /\ A \in Seq(Entry) /\ KeysOK(A)
      BY <1>1
    <3> QED BY <2>1, <3>1, CarriedView
  <2> QED BY <1>2, <2>2, <2>3, DoesCompact
<1>6. CASE CompactFormat \/ CompactCopy \/ CompactCopied
  <2>1. /\ UNCHANGED <<cur, status>> /\ pc \in Running /\ pc' \in Running
        /\ op'.key = op.key /\ op'.val = op.val
    BY <1>1, <1>6 DEF CompactFormat, CompactCopy, CompactCopied, Running, Setting, Op
  <2>2. log'[cur] = L
    <3>1. CASE CompactFormat
      BY <1>1, <3>1 DEF CompactFormat
    <3>2. CASE CompactCopy
      BY <1>1, <3>2 DEF CompactCopy
    <3>3. CASE CompactCopied
      BY <3>3 DEF CompactCopied, flash
    <3> QED BY <1>6, <3>1, <3>2, <3>3
  <2>3. Store!Nothing
    BY <1>4, <2>1, <2>2
  <2> QED BY <1>1, <1>2, <2>1, <2>3, DoesContinue, DoesStep
<1>7. CASE CompactNewHeader
  <2>1. UNCHANGED <<log, cur, op, status>> /\ pc = "newHdr" /\ pc' = "oldHdr"
    BY <1>7 DEF CompactNewHeader
  <2>2. Recovered = cur /\ Recovered' = 0
    BY <1>3, <2>1 DEF Running, Setting
  <2>3. Store!Nothing \/ Store!Compact
    <3>1. CASE cur = 0
      <4>1. SeenFrom' = SeenFrom
        BY <2>1, <2>2, <3>1 DEF SeenFrom
      <4> QED BY <4>1, SameLog
    <3>2. CASE cur = 1
      BY <1>1, <1>5, <2>1, <2>2, <3>2
    <3> QED BY <1>1, <3>1, <3>2
  <2> QED BY <1>1, <1>2, <2>1, <2>3, DoesContinue, DoesStep
<1>8. CASE CompactOldHeader
  <2>1. UNCHANGED log /\ cur' = Alt(cur) /\ pc = "oldHdr" /\ pc' \in {"hdr", "idle"}
    BY <1>8 DEF CompactOldHeader, Finish
  <2>2. Recovered = 0 /\ Recovered' = Alt(cur)
    BY <1>3, <2>1 DEF Running, Setting
  <2>3. Store!Nothing \/ Store!Compact
    <3>1. CASE cur = 1
      <4>1. SeenFrom' = SeenFrom
        BY <1>1, <2>1, <2>2, <3>1 DEF SeenFrom
      <4> QED BY <4>1, SameLog
    <3>2. CASE cur = 0
      BY <1>1, <1>5, <2>1, <2>2, <3>2
    <3> QED BY <1>1, <3>1, <3>2
  <2>4. CASE pc' = "idle"
    <3>1. op' = NoOp /\ status' = "full"
      BY <1>8, <2>4 DEF CompactOldHeader, Finish
    <3> QED BY <1>1, <1>2, <2>3, <3>1, DoesAbort, DoesStep
  <2>5. CASE pc' # "idle"
    <3> DEFINE o == [op EXCEPT !.old = IF op.site = "force" THEN @ ELSE NoAddr]
    <3>1. op' = Writing(o, op.n) /\ UNCHANGED status
      BY <1>8, <2>5 DEF CompactOldHeader, Finish
    <3>2. o \in Op /\ o.key = op.key /\ o.val = op.val /\ op.n \in Nat
      BY <1>1 DEF Op, NoAddr, Region
    <3> HIDE DEF o
    <3>3. op'.key = op.key /\ op'.val = op.val
      BY <3>1, <3>2, WritingFields
    <3> QED BY <1>1, <1>2, <2>3, <3>1, <3>3, DoesContinue, DoesStep
  <2> QED BY <2>4, <2>5
<1>9. CASE CompactFault
  <2>1. /\ UNCHANGED <<cur, log>> /\ op' = NoOp /\ status' = "io"
        /\ pc \in {"format", "copy", "newHdr"} /\ pc' = "idle"
    BY <1>1, <1>9 DEF CompactFault, Fault, Finish, flash
  <2>2. Store!Nothing
    BY <1>4, <2>1 DEF Running, Setting
  <2> QED BY <1>1, <1>2, <2>1, <2>2, DoesAbort, DoesStep
<1> QED BY <1>6, <1>7, <1>8, <1>9 DEF Compact

\* Readers see nothing of an entry before it is complete; a value is then staged, and the
\* deletion of the old one lets the next one show.
LEMMA StoreWrite ==
  ASSUME StoreInv, StoreInv', Write
  PROVE  Store!Next
<1> DEFINE L == log[cur]
           M == log'[cur]
           x == op.key
<1>1. /\ TypeOK /\ TypeOK' /\ cur \in Region /\ op \in Op /\ L \in Seq(Entry) /\ KeysOK(L)
      /\ UNCHANGED cur /\ M \in Seq(Entry) /\ KeysOK(M)
      /\ spoilt = {} /\ spoilt' = {} /\ EntriesInv /\ KeysInv /\ SetInv
      /\ log \in [Region -> Seq(Entry)]
  <2>1. UNCHANGED cur
    BY DEF Write, WriteHeader, WriteOverLeft, WritePayload, SetValid, WriteFault, DeleteEntry,
           DeleteFault, Fault
  <2>2. TypeOK /\ TypeOK'
    BY DEF StoreInv, EntriesInv
  <2> QED BY <2>1, <2>2 DEF StoreInv, TypeOK, KeysInv
<1>2. /\ pc \in {"hdr", "payload", "valid", "delete"}
      /\ pc' \in {"hdr", "payload", "valid", "delete", "idle"}
  BY DEF Write, WriteHeader, WriteOverLeft, WritePayload, SetValid, WriteFault, DeleteEntry,
         DeleteFault, Fault, Finish
<1>3. x \in Keys
  BY <1>1, <1>2 DEF SetInv, Setting
<1>4. SeenFrom = L /\ SeenFrom' = M
  <2>1. Recovered = cur /\ Recovered' = cur
    BY <1>1, <1>2, RecoveredIs, RecoveredNext DEF StoreInv, EntriesInv, Running, Setting
  <2> QED BY <2>1 DEF SeenFrom
<1>5. ASSUME M = L PROVE Store!Nothing
  BY <1>4, <1>5, SameLog
<1>6. ASSUME LiveKeys(M) = LiveKeys(L), LiveVals(M) = LiveVals(L),
             \A i \in LiveKeys(L) \cup LiveVals(L) : M[i] = L[i]
      PROVE  Store!Nothing
  <2> HIDE DEF L, M
  <2>1. \A k : Same(L, M, k)
    BY <1>1, <1>6, ViewKept
  <2> QED BY <1>4, <2>1, DoesNothing
<1>7. CASE WriteHeader \/ WritePayload
  <2>1. /\ LiveKeys(M) = LiveKeys(L) /\ LiveVals(M) = LiveVals(L)
        /\ \A i \in LiveKeys(L) \cup LiveVals(L) : M[i] = L[i]
    BY <1>1, <1>7, TipHidden
  <2>2. UNCHANGED <<op, status>>
    BY <1>7 DEF WriteHeader, WritePayload
  <2>3. Store!Nothing
    BY <1>6, <2>1
  <2> QED BY <1>1, <1>3, <2>2, <2>3, DoesContinue, DoesStep
<1>8. ASSUME pc = "valid", M = [L EXCEPT ![Tip].valid = TRUE]
      PROVE  /\ op.what \in {"key", "val"}
             /\ Store!Nothing \/ Store!Stage
             /\ op.what = "val" /\ op.old = NoAddr => Get(SeenFrom', x) = op.val
  <2>1. /\ op.val \in Vals /\ op.what \in {"key", "val"}
        /\ op.what = "key" => \A k : Same(L, M, k)
        /\ op.what = "val" =>
             /\ \A k : k # x => Same(L, M, k)
             /\ IF Get(L, x) = Missing
                THEN Get(M, x) = op.val /\ Hidden(M, x) = Hidden(L, x)
                ELSE /\ Get(M, x) = Get(L, x)
                     /\ Hidden(M, x) = Hidden(L, x) \cup {op.val}
             /\ op.old = NoAddr => Get(M, x) = op.val
    BY <1>1, <1>8, ShownEffect
  <2> HIDE DEF L, M
  <2>2. CASE op.what = "key"
    BY <1>4, <2>1, <2>2, DoesNothing
  <2>3. CASE op.what = "val"
    <3>1. Store!Stage
      BY <1>3, <1>4, <2>1, <2>3, DoesStage
    <3> QED BY <1>4, <2>1, <3>1
  <2> QED BY <2>1, <2>2, <2>3
<1>9. CASE SetValid
  <2>1. pc = "valid" /\ M = [L EXCEPT ![Tip].valid = TRUE]
    BY <1>1, <1>9 DEF SetValid
  <2>2. /\ op.what \in {"key", "val"} /\ (Store!Nothing \/ Store!Stage)
        /\ op.what = "val" /\ op.old = NoAddr => Get(SeenFrom', x) = op.val
    BY <1>8, <2>1
  <2>3. CASE op.what = "key" \/ (op.what = "val" /\ op.old # NoAddr)
    <3>1. op'.key = op.key /\ op'.val = op.val /\ UNCHANGED status
      BY <1>1, <1>9, <2>3 DEF SetValid, Op
    <3> QED BY <1>1, <1>3, <2>2, <3>1, DoesContinue, DoesStep
  <2>4. CASE op.what = "val" /\ op.old = NoAddr
    <3>1. op' = NoOp /\ status' = "ok"
      BY <1>9, <2>4 DEF SetValid, Finish
    <3>2. Store!Succeed
      BY <1>3, <2>2, <2>4, <3>1, DoesSucceed
    <3> QED BY <1>1, <1>3, <2>2, <3>2, DoesStep
  <2> QED BY <2>2, <2>3, <2>4
<1>10. CASE WriteFault \/ WriteOverLeft
  <2>1. op' = NoOp /\ status' = "io"
    BY <1>10 DEF WriteFault, WriteOverLeft, Fault, Finish
  <2>2. \/ M = L
        \/ M = Append(L, Blank)
        \/ pc = "valid" /\ M = [L EXCEPT ![Tip].valid = TRUE]
    BY <1>1, <1>10 DEF WriteFault, WriteOverLeft, ZeroHeader
  <2>3. CASE M = Append(L, Blank)
    <3>1. Blank \in Entry /\ ~ Live(Blank)
      BY DEF Blank, Entry, Payload, Live
    <3>2. /\ LiveKeys(M) = LiveKeys(L) /\ LiveVals(M) = LiveVals(L)
          /\ \A i \in DOMAIN L : M[i] = L[i]
      <4> HIDE DEF L
      <4> QED BY <1>1, <2>3, <3>1, AppendLive
    <3>3. LiveKeys(L) \cup LiveVals(L) \subseteq DOMAIN L
      BY DEF LiveKeys, LiveVals
    <3>4. Store!Nothing
      BY <1>6, <3>2, <3>3
    <3> QED BY <1>1, <1>3, <2>1, <3>4, DoesAbort, DoesStep
  <2>4. CASE M = L \/ (pc = "valid" /\ M = [L EXCEPT ![Tip].valid = TRUE])
    <3>1. Store!Nothing \/ Store!Stage
      BY <1>5, <1>8, <2>4
    <3> QED BY <1>1, <1>3, <2>1, <3>1, DoesAbort, DoesStep
  <2> QED BY <2>2, <2>3, <2>4
<1>11. ASSUME pc = "delete", log' = Deleted
       PROVE  /\ Store!Nothing \/ Store!Promote
              /\ Get(SeenFrom', x) = op.val \/ Hidden(SeenFrom, x) \ {op.val} # {}
  <2>1. M = Deleted[cur] /\ Missing \notin Hidden(L, x)
    BY <1>1, <1>11, ShownVals
  <2>2. /\ \/ \A k : Same(L, M, k)
           \/ /\ \A k : k # x => Same(L, M, k)
              /\ \/ Get(M, x) = Missing /\ Hidden(L, x) = {} /\ Hidden(M, x) = {}
                 \/ /\ Get(M, x) \in Hidden(L, x) /\ Hidden(M, x) \subseteq Hidden(L, x)
                    /\ Hidden(L, x) \ {Get(M, x)} \subseteq Hidden(M, x)
        /\ Get(M, x) = op.val \/ Hidden(L, x) \ {op.val} # {}
    BY <1>1, <1>11, <2>1, DeleteEffect
  <2> HIDE DEF L, M
  <2>3. CASE \A k : Same(L, M, k)
    BY <1>4, <2>2, <2>3, DoesNothing
  <2>4. CASE ~ \A k : Same(L, M, k)
    <3>1. Store!Promote
      BY <1>3, <1>4, <2>1, <2>2, <2>4, DoesPromote
    <3> QED BY <1>4, <2>2, <3>1
  <2> QED BY <2>3, <2>4
<1>12. CASE DeleteEntry
  <2>1. pc = "delete" /\ log' = Deleted /\ op' = NoOp /\ status' = "ok"
    BY <1>12 DEF DeleteEntry, Finish
  <2>2. Store!Nothing \/ Store!Promote
    BY <1>11, <2>1
  <2>3. Store!Succeed
    <3>1. Get(SeenFrom', x) = op.val \/ Hidden(SeenFrom, x) \ {op.val} # {}
      BY <1>11, <2>1
    <3> QED BY <1>3, <2>1, <3>1, DoesSucceed
  <2> QED BY <1>1, <1>3, <2>2, <2>3, DoesStep
<1>13. CASE DeleteFault
  <2>1. pc = "delete" /\ (log' = log \/ log' = Deleted) /\ op' = NoOp /\ status' = "io"
    BY <1>13 DEF DeleteFault, Fault, Finish
  <2>2. Store!Nothing \/ Store!Promote
    BY <1>5, <1>11, <2>1
  <2> QED BY <1>1, <1>3, <2>1, <2>2, DoesAbort, DoesStep
<1> QED BY <1>7, <1>9, <1>10, <1>12, <1>13 DEF Write

\* A power cut ends the set that it meets.
LEMMA StoreCrash ==
  ASSUME StoreInv, StoreInv', Crash
  PROVE  [Store!Next]_(Store!vars)
<1>1. UNCHANGED <<header, status, spoilt>> /\ op' = NoOp
  BY DEF Crash
<1>2. TypeOK /\ cur \in Region /\ log \in [Region -> Seq(Entry)] /\ Recovered \in Region
  BY RecoveredIs DEF StoreInv, EntriesInv, TypeOK
<1>3. Recovered' = Recovered
  BY <1>1 DEF Recovered, Found, Alt, Magic
<1>4. ASSUME NEW e \in Entry, ~Live(e), log' = [log EXCEPT ![cur] = Append(@, e)]
      PROVE  \A k : Same(SeenFrom, SeenFrom', k)
  <2> DEFINE L == log[Recovered]
             M == log'[Recovered]
  <2>1. L \in Seq(Entry) /\ (M = L \/ M = Append(L, e))
    BY <1>2, <1>4
  <2>2. SeenFrom = L /\ SeenFrom' = M
    BY <1>3 DEF SeenFrom
  <2>3. LiveKeys(L) \cup LiveVals(L) \subseteq DOMAIN L
    BY DEF LiveKeys, LiveVals
  <2> HIDE DEF L, M
  <2>4. /\ LiveKeys(M) = LiveKeys(L) /\ LiveVals(M) = LiveVals(L)
        /\ \A i \in DOMAIN L : M[i] = L[i]
    <3>1. CASE M = L
      BY <3>1
    <3>2. CASE M = Append(L, e)
      BY <1>4, <2>1, <3>2, AppendLive
    <3> QED BY <2>1, <3>1, <3>2
  <2> QED BY <2>1, <2>2, <2>3, <2>4, ViewKept
<1>5. log' = log => SeenFrom' = SeenFrom
  BY <1>3 DEF SeenFrom
<1>6. Store!Nothing
  <2>1. CASE log' = log
    BY <1>5, <2>1, SameLog
  <2>2. CASE log' # log
    BY <1>2, <1>4, <2>2, CrashLog, DoesNothing
  <2> QED BY <2>1, <2>2
<1>7. CASE pc \in Setting
  <2>1. op.key \in Keys /\ spoilt = {} /\ spoilt' = {}
    BY <1>7 DEF StoreInv, SetInv
  <2>2. Store!Abort
    BY <1>1, DoesAbort
  <2> QED BY <1>6, <2>1, <2>2, DoesStep
<1>8. CASE pc \notin Setting
  <2>1. UNCHANGED op
    BY <1>1, <1>8 DEF StoreInv, SetInv
  <2> QED BY <1>1, <1>6, <2>1 DEF Store!Nothing, Store!vars
<1> QED BY <1>7, <1>8

\* Every step is one of ParamStore, or stutters.
LEMMA StoreStep ==
  ASSUME EntriesInv, KeysInv, SetInv, HeadersSafe,
         EntriesInv', KeysInv', SetInv', HeadersSafe', [Next]_vars
  PROVE  [Store!Next]_(Store!vars)
<1>1. CASE spoilt' # {}
  BY <1>1 DEF Store!Next
<1>2. CASE spoilt' = {}
  <2>1. spoilt = {}
    BY <1>2, SpoiltGrows
  <2>2. StoreInv /\ StoreInv'
    BY <1>2, <2>1 DEF StoreInv, HeadersSafe
  <2>3. CASE UNCHANGED vars
    <3>1. UNCHANGED <<header, log, op, status, spoilt>>
      BY <2>3 DEF vars
    <3> QED BY <3>1, SeenKept, StoreStutters
  <2> QED BY <2>2, <2>3, StoreBoot, StoreBegin, StoreCompact, StoreWrite, StoreCrash DEF Next
<1> QED BY <1>1, <1>2

\* Whatever flash operation fails or is cut short, whenever: a set of one key never touches
\* another key, the value that a set replaces is lost at worst, a set that reports success
\* has its value read unless one that an earlier interrupted set left behind is, and a boot
\* changes nothing that a reader sees.
THEOREM StoreKeepsPromise == Spec => Refinement
<1>1. Init => Store!Init
  <2> SUFFICES ASSUME Init PROVE Store!Init
    OBVIOUS
  <2>1. Recovered \in Region /\ \A r \in Region : log[r] = <<>>
    BY DEF Init, Recovered, Found, Alt, Region
  <2>2. \A k : Get(<<>>, k) = Missing /\ Hidden(<<>>, k) = {}
    <3>1. LiveKeys(<<>>) = {}
      BY DEF LiveKeys
    <3> QED BY <3>1, NoKeyView
  <2>3. \A k \in Keys : Durable(k) = Missing /\ Shadow(k) = {}
    BY <2>1, <2>2 DEF Durable, Shadow, Hidden
  <2>4. [key |-> op.key, val |-> op.val] = Store!NoSet /\ status = "ok" /\ spoilt = {}
    BY DEF Init, NoOp, Store!NoSet
  <2> QED BY <2>3, <2>4 DEF Store!Init
<1>2. /\ EntriesInv /\ KeysInv /\ SetInv /\ HeadersSafe
      /\ (EntriesInv /\ KeysInv /\ SetInv /\ HeadersSafe)'
      /\ [Next]_vars
      => [Store!Next]_(Store!vars)
  BY StoreStep
<1>3. TypeOK /\ EntriesInv <=> EntriesInv
  BY DEF EntriesInv
<1> QED BY <1>1, <1>2, <1>3, EntriesInit, EntriesStep, KeysInit, KeysStep, HeadersInit,
           HeadersStep, SetInit, SetStep, PTL DEF Spec, Refinement, Store!Spec

\* What readers of a name get changes in no step but those of a set of that name: a boot,
\* a compaction, an error or a power cut shows them neither another value nor a lost one.
\* And a set shows nothing that was not written for its name: the new value, one an
\* interrupted set has left behind the old, or none.
ReadersSeeSetsOnly ==
  [][spoilt' = {} =>
       \A k \in Keys :
         \/ Durable(k)' = Durable(k)
         \/ k = op.key /\ Durable(k)' \in {op.val, Missing} \cup Shadow(k)]_vars

THEOREM ReadersAreSafe == Spec => ReadersSeeSetsOnly
<1>1. ASSUME [Store!Next]_(Store!vars), spoilt' = {}, NEW k \in Keys
      PROVE  \/ Durable(k)' = Durable(k)
             \/ k = op.key /\ Durable(k)' \in {op.val, Missing} \cup Shadow(k)
  <2> DEFINE store == [n \in Keys |-> Durable(n)]
             shadow == [n \in Keys |-> Shadow(n)]
  <2>1. store[k] = Durable(k) /\ store'[k] = Durable(k)' /\ shadow[k] = Shadow(k)
    OBVIOUS
  <2>2. CASE UNCHANGED Store!vars \/ Store!Begin \/ Store!Reject \/ Store!Nothing
    <3>1. store' = store
      BY <2>2 DEF Store!vars, Store!Begin, Store!Reject, Store!Nothing
    <3> QED BY <2>1, <3>1
  <2>3. CASE Store!Stage
    <3>1. store' = store \/ store' = [store EXCEPT ![op.key] = op.val]
      BY <2>3 DEF Store!Stage
    <3> QED BY <2>1, <3>1
  <2>4. CASE Store!Promote
    <3>1. PICK v \in shadow[op.key] \cup {Missing} : store' = [store EXCEPT ![op.key] = v]
      BY <2>4 DEF Store!Promote
    <3> QED BY <2>1, <3>1
  <2>5. CASE Store!Compact
    <3>1. store' = [store EXCEPT ![op.key] = Missing]
      BY <2>5 DEF Store!Compact
    <3> QED BY <2>1, <3>1
  <2> QED BY <1>1, <2>2, <2>3, <2>4, <2>5 DEF Store!Next, Store!Step
<1>2. /\ EntriesInv /\ KeysInv /\ SetInv /\ HeadersSafe
      /\ (EntriesInv /\ KeysInv /\ SetInv /\ HeadersSafe)'
      /\ [Next]_vars
      => [spoilt' = {} =>
            \A k \in Keys :
              \/ Durable(k)' = Durable(k)
              \/ k = op.key /\ Durable(k)' \in {op.val, Missing} \cup Shadow(k)]_vars
  <2> SUFFICES ASSUME EntriesInv, KeysInv, SetInv, HeadersSafe,
                      EntriesInv', KeysInv', SetInv', HeadersSafe', [Next]_vars,
                      spoilt' = {}, NEW k \in Keys
               PROVE  \/ Durable(k)' = Durable(k)
                      \/ k = op.key /\ Durable(k)' \in {op.val, Missing} \cup Shadow(k)
    OBVIOUS
  <2>1. [Store!Next]_(Store!vars)
    BY StoreStep
  <2> QED BY <2>1, <1>1
<1>3. TypeOK /\ EntriesInv <=> EntriesInv
  BY DEF EntriesInv
<1> QED BY <1>2, <1>3, EntriesInit, EntriesStep, KeysInit, KeysStep, HeadersInit,
           HeadersStep, SetInit, SetStep, PTL DEF Spec, ReadersSeeSetsOnly

=============================================================================

----------------------------- MODULE HandleList -----------------------------
(***************************************************************************)
(* sys/list/list.c: the table of handles behind thread ids, mutex ids, key *)
(* ids and the join and clean lists.  Handles index an array; removed      *)
(* entries are chained through their next pointers and taken again before  *)
(* the array is copied to a longer one.                                    *)
(*                                                                         *)
(* Every operation holds list->mutex from beginning to end and is one      *)
(* action.  Between them other tasks run: a reader walks the list with     *)
(* list_first, list_next and list_get, as pthreadTask does.                *)
(*                                                                         *)
(* A pointer into the array is modelled as <<array, position>>; each array *)
(* is longer than the one it replaces, so its length identifies it.        *)
(***************************************************************************)
EXTENDS Integers, Sequences, FiniteSets

CONSTANTS
  Items,         \* what callers put on the list (memory from malloc)
  Garbage,       \* what uninitialized memory holds instead of an item
  Readers,       \* the tasks that walk the list
  Width,         \* values of u8_t: the model stops before indexes wraps
  AllocFails     \* whether malloc may fail

ASSUME ListAssumption ==
  /\ Garbage \notin Items
  /\ Width \in Nat \ {0}
  /\ AllocFails \in BOOLEAN

VARIABLES
  up,       \* between list_init and list_destroy
  index,    \* the array of entries
  indexes,  \* the number of entries, as the list counts them
  free,     \* the first free entry
  heap,     \* the items that are allocated
  cursor,   \* where each reader is
  strayed   \* history: an access went past the array or to freed memory

list == <<up, index, indexes, free>>
vars == <<up, index, indexes, free, heap, cursor, strayed>>

-----------------------------------------------------------------------------
Null == [arr |-> 0, pos |-> 0]

Pointer == [arr : Nat, pos : Nat]

Entry == [item : Items \cup {Garbage}, deleted : BOOLEAN, next : Pointer]

\* The address of entry p of the array in use.
Address(p) == [arr |-> Len(index), pos |-> p]

Live == {p \in DOMAIN index : ~index[p].deleted}

Deleted == {p \in DOMAIN index : index[p].deleted}

LiveItems == {index[p].item : p \in Live}

\* The entries that list_add has filled in; the others were left uninitialized by an
\* earlier list_add that failed.
Made == {p \in DOMAIN index : index[p].item \in Items}

Listed == Live \cap Made
Freed == Deleted \cap Made

\* No list_add has failed since list_init.
NoneFailed == 1 .. indexes \subseteq Made

\* first_index is 1 in every list the firmware builds, so a handle is a position and a
\* position 0 is refused.  The test lets one position too many through, which no handle
\* of list_add is.
Accepted(h) == h >= 1 /\ h - 1 <= indexes

\* A reader is between two list operations at a handle ("at"), has read its item
\* ("read"), or is at the end.  base: the items that have been on the list since
\* list_first; seen: the items read so far.
Idle == [at |-> 0, state |-> "idle", base |-> {}, seen |-> {}]

Cursor == [at : Nat, state : {"idle", "at", "read", "end"},
           base : SUBSET (Items \cup {Garbage}), seen : SUBSET (Items \cup {Garbage})]

Init ==
  /\ up = FALSE
  /\ index = <<>>
  /\ indexes = 0
  /\ free = Null
  /\ heap = {}
  /\ cursor = [r \in Readers |-> Idle]
  /\ strayed = FALSE

ListInit ==
  /\ ~up
  /\ up' = TRUE
  /\ index' = <<>>
  /\ indexes' = 0
  /\ free' = Null
  /\ cursor' = [r \in Readers |-> Idle]
  /\ UNCHANGED <<heap, strayed>>

-----------------------------------------------------------------------------
(* list_add                                                                *)

\* Mutant of NewEntry: the next pointer is left as malloc returned it.
NewEntryNoNext(x) == [item |-> x, deleted |-> FALSE, next |-> Garbage]

NewEntry(x) == [item |-> x, deleted |-> FALSE, next |-> Null]

\* Mutant of AddReuse: the free list is not advanced.
AddReuseKeepsFree(x) ==
  /\ up /\ free # Null
  /\ IF free.arr = Len(index)
     THEN /\ index' = [index EXCEPT ![free.pos] = NewEntry(x)]
          /\ UNCHANGED <<free, strayed>>
     ELSE strayed' = TRUE /\ UNCHANGED <<index, free>>
  /\ heap' = heap \cup {x}
  /\ UNCHANGED <<up, indexes, cursor>>

\* Take the first free entry; one in an array that is gone is freed memory.
AddReuse(x) ==
  /\ up /\ free # Null
  /\ IF free.arr = Len(index)
     THEN /\ index' = [index EXCEPT ![free.pos] = NewEntry(x)]
          /\ free' = index[free.pos].next
          /\ UNCHANGED strayed
     ELSE strayed' = TRUE /\ UNCHANGED <<index, free>>
  /\ heap' = heap \cup {x}
  /\ UNCHANGED <<up, indexes, cursor>>

\* Mutant of MustGrow: the array grows although there are free entries.
MustGrowAlways == TRUE

MustGrow == free = Null

Uninitialized == {[item |-> Garbage, deleted |-> d, next |-> Null] : d \in BOOLEAN}

\* Mutant of Copied: bcopy copies one entry too few.
CopiedShort(p, g) == IF p < indexes THEN index[p] ELSE g

\* What bcopy leaves at entry p of the new array.  Entries the old array did not
\* have, because an earlier malloc failed, are what the memory held.
Copied(p, g) == IF p \in DOMAIN index THEN index[p] ELSE g

AddGrow(x) ==
  /\ up /\ MustGrow
  /\ indexes + 1 < Width
  /\ indexes' = indexes + 1
  /\ \E g \in Uninitialized :
       index' = [p \in 1 .. indexes + 1 |->
                   IF p = indexes + 1 THEN NewEntry(x) ELSE Copied(p, g)]
  /\ heap' = heap \cup {x}
  /\ UNCHANGED <<up, free, cursor, strayed>>

\* malloc of the array fails; indexes has been incremented.
AddFails ==
  /\ AllocFails
  /\ up /\ MustGrow
  /\ indexes + 1 < Width
  /\ indexes' = indexes + 1
  /\ UNCHANGED <<up, index, free, heap, cursor, strayed>>

-----------------------------------------------------------------------------
(* list_remove                                                             *)

\* Free the item and put the entry in front of the free list.  The handle is one that
\* has not been removed before, which the code does not test; an entry that a failed
\* list_add left behind is live by chance and has no item to free.
Remove(h) ==
  /\ up /\ ~strayed
  /\ Accepted(h)
  /\ h \in Live
  /\ IF h \in DOMAIN index /\ index[h].item \in heap
     THEN /\ index' = [index EXCEPT ![h] = [@ EXCEPT !.next = free, !.deleted = TRUE]]
          /\ free' = Address(h)
          /\ heap' = heap \ {index[h].item}
          /\ cursor' = [r \in Readers |->
                          [cursor[r] EXCEPT !.base = @ \ {index[h].item}]]
          /\ UNCHANGED strayed
     ELSE /\ strayed' = TRUE
          /\ UNCHANGED <<index, free, heap, cursor>>
  /\ UNCHANGED <<up, indexes>>

\* list_destroy; every caller has the items freed too.
Destroy ==
  /\ up
  /\ up' = FALSE
  /\ index' = <<>>
  /\ indexes' = 0
  /\ free' = Null
  /\ heap' = heap \ LiveItems
  /\ strayed' = (strayed \/ ~(LiveItems \subseteq heap))
  /\ cursor' = [r \in Readers |-> Idle]

-----------------------------------------------------------------------------
(* A reader's walk: list_first, then list_get and list_next in turn        *)

\* Entries past the array read as deleted or not.
MayBeLive(p) == p \in DOMAIN index => ~index[p].deleted
MayBeDeleted(p) == p \in DOMAIN index => index[p].deleted

\* The results of the scan from entry p: a handle, or 0 for the code's -1.
ScanFrom(p) ==
  {q \in p .. indexes : MayBeLive(q) /\ \A o \in p .. q - 1 : MayBeDeleted(o)}
    \cup {q \in {0} : \A o \in p .. indexes : MayBeDeleted(o)}

MoveTo(r, q) ==
  [cursor[r] EXCEPT !.at = q, !.state = IF q = 0 THEN "end" ELSE "at"]

ListFirst(r) ==
  /\ up /\ cursor[r].state = "idle"
  /\ \E q \in ScanFrom(1) :
       cursor' = [cursor EXCEPT ![r] = [MoveTo(r, q) EXCEPT !.base = LiveItems, !.seen = {}]]
  /\ UNCHANGED <<list, heap, strayed>>

\* Mutant of ListNext: the scan stops one entry early.
ListNextShort(r) ==
  /\ up /\ cursor[r].state = "read"
  /\ \E q \in ScanFrom(cursor[r].at + 1) :
       cursor' = [cursor EXCEPT ![r] = MoveTo(r, IF q = indexes THEN 0 ELSE q)]
  /\ UNCHANGED <<list, heap, strayed>>

ListNext(r) ==
  /\ up /\ cursor[r].state = "read"
  /\ \E q \in ScanFrom(cursor[r].at + 1) :
       cursor' = [cursor EXCEPT ![r] = MoveTo(r, q)]
  /\ UNCHANGED <<list, heap, strayed>>

\* list_get: the item, or EINVAL if the entry has been removed meanwhile.
ListGet(r) ==
  LET p == cursor[r].at
      item == IF p \in DOMAIN index
              THEN IF index[p].deleted THEN {} ELSE {index[p].item}
              ELSE {Garbage}
  IN /\ up /\ cursor[r].state = "at"
     /\ cursor' = [cursor EXCEPT ![r].state = "read", ![r].seen = @ \cup item]
     /\ UNCHANGED <<list, heap, strayed>>

Finish(r) ==
  /\ up /\ cursor[r].state = "end"
  /\ cursor' = [cursor EXCEPT ![r] = Idle]
  /\ UNCHANGED <<list, heap, strayed>>

Add(x) == x \notin heap /\ (AddReuse(x) \/ AddGrow(x))

Walk(r) == ListFirst(r) \/ ListGet(r) \/ ListNext(r) \/ Finish(r)

Next ==
  \/ ListInit
  \/ \E x \in Items : Add(x)
  \/ AddFails
  \/ \E h \in 0 .. Width : Remove(h)
  \/ Destroy
  \/ \E r \in Readers : Walk(r)

Spec == Init /\ [][Next]_vars

-----------------------------------------------------------------------------
TypeOK ==
  /\ up \in BOOLEAN
  /\ index \in Seq(Entry)
  /\ indexes \in Nat
  /\ free \in Pointer
  /\ heap \subseteq Items
  /\ cursor \in [Readers -> Cursor]
  /\ strayed \in BOOLEAN

\* The free list runs through every removed entry once and through no other, and
\* none of its pointers leads into an array that has been replaced, although
\* list_add moves the array without relinking anything, and although a failed
\* list_add leaves entries of random contents behind.
FreeListOK ==
  \E n \in 0 .. Len(index) : \E s \in [1 .. n -> Freed] :
    /\ \A p \in Freed : \E i \in 1 .. n : s[i] = p
    /\ \A i, j \in 1 .. n : s[i] = s[j] => i = j
    /\ free = IF n = 0 THEN Null ELSE Address(s[1])
    /\ \A i \in 1 .. n : index[s[i]].next = IF i = n THEN Null ELSE Address(s[i + 1])

\* Every item that has not been freed is at exactly one live entry, also after a
\* failed list_add, and none is left behind by list_destroy.
ItemsReachable ==
  \A x \in heap : Cardinality({p \in Live : index[p].item = x}) = 1

\* A walk that other tasks interleave with additions and removals still reads
\* every item that stays on the list from its beginning to its end (pthreadTask
\* telling the joined threads, _pthread_queue_signal).
WalkComplete ==
  \A r \in Readers : cursor[r].state = "end" => cursor[r].base \subseteq cursor[r].seen

\* No caller is harmed by another: the list does to handles and items what
\* HandleTable allows.
Table == INSTANCE HandleTable WITH table <- [p \in Listed |-> index[p].item]

Refinement == Table!Spec

=============================================================================

---------------------------- MODULE HandleTable ----------------------------
(***************************************************************************)
(* What sys/list/list.c promises its callers: a handle names one item from *)
(* list_add to list_remove, no two items have one handle, an item's memory *)
(* is released when, and only when, its handle is removed.                 *)
(***************************************************************************)
CONSTANTS Items

VARIABLES
  table,   \* table[h]: the item with handle h
  heap     \* the items that have not been released

vars == <<table, heap>>

NoHandles == [h \in {} |-> h]

Init == table = NoHandles /\ heap = {}

Insert(h, x) ==
  /\ h \notin DOMAIN table
  /\ x \notin heap
  /\ table' = [g \in DOMAIN table \cup {h} |-> IF g = h THEN x ELSE table[g]]
  /\ heap' = heap \cup {x}

Delete(h) ==
  /\ h \in DOMAIN table
  /\ table' = [g \in DOMAIN table \ {h} |-> table[g]]
  /\ heap' = heap \ {table[h]}

Clear ==
  /\ table' = NoHandles
  /\ heap' = {}

Next ==
  \/ \E h \in DOMAIN table', x \in Items : Insert(h, x)
  \/ \E h \in DOMAIN table : Delete(h)
  \/ Clear

Spec == Init /\ [][Next]_vars

=============================================================================

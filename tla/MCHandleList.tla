--------------------------- MODULE MCHandleList ---------------------------
(***************************************************************************)
(* HandleList with three items and one reader: every free list of up to    *)
(* three entries occurs.  Readers change nothing, so one meets everything  *)
(* that another could.                                                     *)
(***************************************************************************)
EXTENDS HandleList, TLC

CONSTANTS i1, i2, i3, r1

MCItems == {i1, i2, i3}
MCReaders == {r1}

Symmetric == Permutations(MCItems)

=============================================================================

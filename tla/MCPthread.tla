----------------------------- MODULE MCPthread -----------------------------
(***************************************************************************)
(* Pthread with the first thread and two more: one may create, join and    *)
(* control the other while the first does the same to both.                *)
(***************************************************************************)
EXTENDS Pthread, TLC

CONSTANTS m, a, b, mu

MCThreads == {m, a, b}

Symmetric == Permutations({a, b}) 

=============================================================================

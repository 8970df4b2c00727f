------------------------------ MODULE FileTree ------------------------------
(***************************************************************************)
(* What the Styx server promises of its tree of files: a file has a place   *)
(* under a directory and a name no sibling has; files come one at a time    *)
(* into a directory that exists, change their name in place, and leave one  *)
(* at a time, a directory only when it is empty.                            *)
(***************************************************************************)
EXTENDS Naturals

CONSTANTS
  Paths,    \* qids a file may have
  Names,    \* names of files
  Odd,      \* a name that is no name a client gave
  Fixed     \* the tree at the start: path -> [parent, dir, name]

VARIABLE tree

Parent(p) == tree[p].parent
Taken(d, n, p) == \E q \in DOMAIN tree \ {d, p} : Parent(q) = d /\ tree[q].name = n

Init == tree = Fixed

Create(d, p, n, isDir) ==
  /\ tree[d].dir
  /\ ~ Taken(d, n, p)
  /\ tree' = [q \in DOMAIN tree \cup {p} |->
                IF q = p THEN [parent |-> d, dir |-> isDir, name |-> n] ELSE tree[q]]

Rename(p, n) ==
  /\ n = Odd \/ ~ Taken(Parent(p), n, p)
  /\ tree' = [tree EXCEPT ![p].name = n]

Remove(p) ==
  /\ Parent(p) # p
  /\ \A q \in DOMAIN tree : Parent(q) # p
  /\ tree' = [q \in DOMAIN tree \ {p} |-> tree[q]]

\* every step changes the tree
Next ==
  /\ tree' # tree
  /\ \/ \E p \in Paths \ DOMAIN tree, d \in DOMAIN tree, n \in Names, isDir \in BOOLEAN :
          Create(d, p, n, isDir)
     \/ \E p \in DOMAIN tree, n \in Names \cup {Odd} : Rename(p, n)
     \/ \E p \in DOMAIN tree : Remove(p)

Spec == Init /\ [][Next]_tree
=============================================================================

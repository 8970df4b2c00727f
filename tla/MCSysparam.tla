---------------------------- MODULE MCSysparam ----------------------------
(***************************************************************************)
(* Sysparam with two or three keys of one word and two values, of one word *)
(* and of two.                                                             *)
(***************************************************************************)
EXTENDS Sysparam, TLC

CONSTANTS k1, k2, k3, v1, v2

MCKeys == {k1, k2}
MCThreeKeys == {k1, k2, k3}
MCVals == {v1, v2}
MCWords == [x \in Keys \cup Vals |-> IF x = v2 THEN 2 ELSE 1]

\* v2 does not fit into a region beside the other key.
MCWordsBig == [MCWords EXCEPT ![v2] = 6]

\* The keys have the same length: exchanging them changes nothing.
Symmetric == Permutations(Keys)

\* Nothing reads a region whose header says stale, unless the system is still in it:
\* states that differ only there are checked once.
Unread(r) == header[r] = "stale" /\ (r # cur \/ pc = "off")

MCView ==
  <<header, [r \in Region |-> IF Unread(r) THEN <<>> ELSE log[r]],
    [r \in Region |-> ~Unread(r) /\ torn[r]],
    cur, force, left, op, pc, status, mishaps, spoilt>>

=============================================================================

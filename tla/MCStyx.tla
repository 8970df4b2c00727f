------------------------------- MODULE MCStyx -------------------------------
(***************************************************************************)
(* Styx with two clients of two fids each.  Two clients may create two      *)
(* files between them, of the same name or not, one in the other or beside  *)
(* it; a third would only be a third of the same kind.                      *)
(***************************************************************************)
EXTENDS Styx, TLC

CONSTANTS a, b, f1, f2

MCWalks == {<<>>, <<"x">>, <<"x", "x">>, <<"x", "..">>, <<".", "x">>,
            <<"dev">>, <<"dev", "..">>, <<"dev", "gpio">>}
MCSymmetry == Permutations({a, b}) \cup Permutations({f1, f2})
=============================================================================

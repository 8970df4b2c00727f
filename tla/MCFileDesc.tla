---------------------------- MODULE MCFileDesc ----------------------------
(***************************************************************************)
(* FileDesc with two threads and a table of three descriptors, the first    *)
(* the console's.  No behaviour of two threads needs a fourth file beside   *)
(* the console's: a thread that found none would stop, and CallsReturn fail.*)
(***************************************************************************)
EXTENDS FileDesc, TLC

CONSTANTS c, t1, t2, f1, f2, f3

MCThreads == {t1, t2}
MCFiles == {c, f1, f2, f3}
MCConsole == 0 :> c

=============================================================================

---------------------------- MODULE MCWebServer ----------------------------
(***************************************************************************)
(* WebServer with four netconns: one that listens, two websockets, which    *)
(* fill the table, and one to be answered; or one that listens, two to be   *)
(* answered and a websocket.  With three peers a new websocket replaces the *)
(* one of its own peer, or the last one of another.                         *)
(***************************************************************************)
EXTENDS WebServer, TLC

CONSTANTS c1, c2, c3, c4, p1, p2, p3

MCSymmetry == Permutations({p1, p2, p3})
=============================================================================

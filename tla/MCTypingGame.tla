---------------------------- MODULE MCTypingGame ----------------------------
(***************************************************************************)
(* Two letters, a pool of three nodes and the one that ends it, a screen   *)
(* of three rows, and a letter every tick, so that two or three are on the *)
(* screen, meet at the bottom and are hit and missed.                      *)
(***************************************************************************)
EXTENDS TypingGame

\* The pool of the instance has just the nodes it needs.
ASSUME PoolLasts
=============================================================================

------------------------------ MODULE MCMonitor ------------------------------
(***************************************************************************)
(* Three watchpoints, so that unlinking from the front, the middle and the *)
(* end of the list all happen and the pool can run out, on two expressions *)
(* of two values; a count of at most 3.                                    *)
(***************************************************************************)
EXTENDS Monitor

MCValue == {0, 1}
=============================================================================

-------------------------------- MODULE MCAlu --------------------------------
(***************************************************************************)
(* Words of three bits: 0 .. 7, or -4 .. 3, so that carries, borrows,      *)
(* overflows of both signs and products of two words all happen.           *)
(***************************************************************************)
EXTENDS Alu
=============================================================================

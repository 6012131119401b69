--------------------------- MODULE MCPositionExit ---------------------------
(***************************************************************************)
(* PositionExit for TLC: two calls beside a LIVE and a PAPER position.     *)
(***************************************************************************)
EXTENDS PositionExit

CONSTANTS p1, p2
=============================================================================

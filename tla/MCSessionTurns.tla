--------------------------- MODULE MCSessionTurns ---------------------------
(* SessionTurns by itself; the cfg file sets the bounds.                   *)
EXTENDS SessionTurns
=============================================================================

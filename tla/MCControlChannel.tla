-------------------------- MODULE MCControlChannel --------------------------
(* ControlChannel on small instances; the cfg files set the bounds.        *)
EXTENDS ControlChannel
=============================================================================

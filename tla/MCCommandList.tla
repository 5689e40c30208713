---------------------------- MODULE MCCommandList ----------------------------
(* CommandList by itself; the cfg file sets the bounds.                    *)
EXTENDS CommandList
=============================================================================

-------------------------- MODULE MCActivityStream --------------------------
(* ActivityStream by itself; the cfg file sets the bounds.                 *)
EXTENDS ActivityStream
=============================================================================

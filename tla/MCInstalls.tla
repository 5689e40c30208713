----------------------------- MODULE MCInstalls -----------------------------
(* Installs by itself; the cfg file sets the bounds.                       *)
EXTENDS Installs
=============================================================================

------------------------------ MODULE MCPane ------------------------------
(* Pane on small instances. *)
EXTENDS Pane
=============================================================================

----------------------------- MODULE MCRowDamage -----------------------------
(* Instances of RowDamage. *)
EXTENDS RowDamage

MCSizes == {[rows |-> 3, cols |-> 1], [rows |-> 2, cols |-> 2]}
=============================================================================

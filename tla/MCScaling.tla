----------------------------- MODULE MCScaling -----------------------------
(* Scaling for TLC: the constants have plain values, given in the configurations. *)
EXTENDS Scaling

=============================================================================

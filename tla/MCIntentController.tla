------------------------- MODULE MCIntentController -------------------------
(* IntentController for TLC: the constants have plain values, given in the configurations. *)
EXTENDS IntentController

=============================================================================

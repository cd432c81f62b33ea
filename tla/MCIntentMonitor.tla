-------------------------- MODULE MCIntentMonitor ---------------------------
(* IntentMonitor for TLC: the constants have plain values, given in the configurations. *)
EXTENDS IntentMonitor

=============================================================================

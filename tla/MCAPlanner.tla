---------------------------- MODULE MCAPlanner ----------------------------
(* APlanner for TLC: a configuration cannot write a negative number. *)
EXTENDS APlanner

\* One of a state that is better than the goal, and one of a state that is
\* further from it than most sums of utilities.
MCDistances == {-50, 300}

=============================================================================

-------------------------- MODULE MCBigDigSession --------------------------
(* Instances of BigDigSession for TLC. *)
EXTENDS BigDigSession

\* The messages of a session whose server restarts at most MaxRestart times.
SessionMsg == Message

=============================================================================

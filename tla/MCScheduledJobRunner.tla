------------------------- MODULE MCScheduledJobRunner -------------------------
(* A small instance of ScheduledJobRunner for TLC. *)
EXTENDS ScheduledJobRunner, TLC

Symmetric == Permutations(Runner)
===============================================================================
